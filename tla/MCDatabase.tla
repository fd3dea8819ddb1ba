----------------------------- MODULE MCDatabase ------------------------------
(***************************************************************************)
(* Two tables, t (k INT, s VARCHAR(1), r VARCHAR(1)) and u (k INT, s       *)
(* VARCHAR(1)).  The strings are '', '|', 'a' and 'ab', which is cut off;  *)
(* integers have four bits, so that 7 + 7 overflows.                       *)
(***************************************************************************)
EXTENDS Database, SqlText

(* The end, a semicolon, a second statement, and tokens that continue none. *)
MCTails ==
  {Word("EOF"), Word(";") \o Word("EOF"),
   Word(";") \o Word("SELECT") \o Word("*") \o Word("FROM") \o Name("u") \o Word(";") \o Word("EOF"),
   Word(")") \o Word("AND") \o Name("k") \o Word("EOF"),
   Word("INSERT") \o Word("INTO") \o Name("t") \o Word("EOF")}

Bar == <<124>>
A == <<97>>
AB == <<97, 98>>

Col(c) == ColumnRef("", c)
Of(t, c) == ColumnRef(t, c)
Items(es) == [i \in DOMAIN es |-> SelectItem(es[i], "")]
Asc(e) == OrderByItem(e, TRUE)
Desc(e) == OrderByItem(e, FALSE)

Columns(t) ==
  <<ColumnDef("k", "INT", 0), ColumnDef("s", "VARCHAR", 1)>>
    \o (IF t = "t" THEN <<ColumnDef("r", "VARCHAR", 1)>> ELSE << >>)

Creates == {CreateTableStmt(t, Columns(t)) : t \in {"t", "u"}}

IntoT(k, s, r) == InsertStmt("t", <<IntLiteral(k), StringLiteral(s), StringLiteral(r)>>)
IntoU(k, s) == InsertStmt("u", <<IntLiteral(k), StringLiteral(s)>>)

Inserts ==
  {IntoT(1, << >>, A), IntoT(7, Bar, << >>), IntoT(7, AB, << >>),
   IntoU(1, AB), IntoU(7, << >>), IntoU(2, Bar),
   InsertStmt("u", <<IntLiteral(1)>>),
   InsertStmt("u", <<StringLiteral(A), StringLiteral(A)>>),
   InsertStmt("u", <<IntLiteral(1), Col("s")>>)}

(* Conditions: comparisons, and OR, AND and NOT of them.  One column does  *)
(* not exist, which matters only if it is evaluated.                       *)
Comparisons ==
  {BinaryOp("=", Col("k"), IntLiteral(7)), BinaryOp("!=", Of("t", "s"), Col("r")),
   BinaryOp("<", Col("r"), StringLiteral(AB)), BinaryOp("=", Col("z"), IntLiteral(1))}

Connected(S) ==
  {UnaryOp("NOT", e) : e \in S} \cup {BinaryOp(op, a, b) : op \in {"AND", "OR"}, a \in S, b \in S}

Conditions ==
  LET e == BinaryOp("=", Col("k"), IntLiteral(7))
      f == BinaryOp(">=", Col("s"), Col("r"))
  IN Comparisons \cup Connected(Comparisons)
       \cup Connected({UnaryOp("NOT", e), BinaryOp("AND", e, f), BinaryOp("OR", f, e)})

FromT(items, where, group, order) == SelectStmt(items, "t", "", << >>, where, group, order)

Filtered == {FromT(Items(<<Col("s")>>), e, << >>, << >>) : e \in Conditions}

Orders ==
  {<< >>, <<Asc(Col("k"))>>, <<Desc(Of("t", "s")), Asc(Col("k"))>>, <<Desc(Col("k")), Desc(Col("z"))>>}

Ordered ==
  {FromT(items, NoExpr, << >>, order) :
     items \in {Items(<<Star>>), Items(<<Col("r")>>),
                <<SelectItem(Col("k"), "x"), SelectItem(IntLiteral(3), "")>>,
                Items(<<Col("z")>>), Items(<<Col("k"), Star>>)},
     order \in Orders}

Joined(items, on, where, order) ==
  SelectStmt(items, "t", "", <<JoinClause("u", "", on)>>, where, << >>, order)

Joins ==
  {Joined(Items(<<Star>>), BinaryOp(op, l, r), NoExpr, << >>) :
     op \in {"=", "<"}, l \in {Of("t", "s"), Col("k"), Of("u", "s")}, r \in {Of("u", "s"), Col("k")}}
  \cup {Joined(Items(<<Of("u", "k"), c>>), BinaryOp("=", Of("t", "r"), Col("s")),
               BinaryOp("<", Of("t", "k"), IntLiteral(7)), <<Desc(Of("u", "k"))>>) :
          c \in {Col("r"), Col("s")}}
  \cup {SelectStmt(Items(<<Of("a", "k"), Of("b", "k"), Of("u", "s")>>), "t", "a",
                   <<JoinClause("t", "b", BinaryOp("=", Of("a", "s"), Of("b", "r"))),
                     JoinClause("u", "", BinaryOp("=", Of("b", "k"), Col("k")))>>,
                   NoExpr, << >>, << >>)}

Aggs == <<Aggregate("COUNT", Star), Aggregate("SUM", Col("k")), Aggregate("AVG", Col("k")),
          Aggregate("MIN", Col("k")), Aggregate("MAX", Col("k"))>>

Groups ==
  {FromT(Items(<<Col("r")>> \o Aggs), where, group, order) :
     where \in {NoExpr, BinaryOp("=", Col("k"), IntLiteral(7))},
     group \in {<< >>, <<Col("r")>>, <<Col("s"), Of("t", "r")>>},
     order \in {<< >>, <<Asc(Of("t", "r"))>>, <<Desc(Col("SUM"))>>}}
  \cup {FromT(items, NoExpr, <<Col("s")>>, << >>) :
          items \in {Items(<<Star>>), Items(<<Col("s")>>),
                     <<SelectItem(Aggregate("COUNT", Col("z")), "n")>>,
                     <<SelectItem(Aggregate("SUM", Col("z")), "n")>>}}
  \cup {SelectStmt(Items(<<Aggregate("SUM", Of("u", "k"))>>), "t", "",
                   <<JoinClause("u", "", BinaryOp("=", Of("t", "s"), Col("s")))>>,
                   NoExpr, <<Of("t", "k")>>, << >>)}

Explains == {ExplainStmt(s) : s \in Ordered \cup Joins \cup Groups}

MCStatements == Creates \cup Inserts \cup Filtered \cup Ordered \cup Joins \cup Groups \cup Explains

MCBadTexts ==
  {Word("FROM") \o Word("EOF"),
   Word("INSERT") \o Word("INTO") \o Name("t") \o Word("VALUES") \o Word("(") \o Number(9) \o Word(")")
     \o Word("EOF"),
   Word("SELECT") \o Name("k") \o Word("FROM") \o Name("t") \o Word("WHERE") \o Word("NOT")
     \o Word("NOT") \o Name("k") \o Word("EOF")}
==============================================================================
