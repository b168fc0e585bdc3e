---------------------------- MODULE FilterEngine ----------------------------
(***************************************************************************)
(* The memo filter engine (internal/filter): a CEL filter is turned into a *)
(* condition tree and rendered as an SQL fragment with placeholders.  The  *)
(* recursion of renderCondition visits the tree from left to right, so it  *)
(* is written here as a machine that pushes what a leaf renders to and     *)
(* combines the topmost results; every tree is one order of its steps.     *)
(*                                                                         *)
(* A rendered fragment is what the database makes of it: for every row of  *)
(* the table one of SQL's three truth values.  Text is abstracted: content *)
(* is a set of words, a tag a sequence of name parts.  Payloads are stored *)
(* by protojson, which leaves out false flags and empty lists.             *)
(***************************************************************************)
EXTENDS Naturals, Sequences, FiniteSets, SequencesExt

CONSTANTS
  Ids,         \* ids of memo rows
  RowOf,       \* their contents
  Tags, Words, \* literals of tag and content conditions
  Visibilities,
  Creators,
  Times,       \* values of created_ts
  Dialects,    \* the databases
  MaxLeaves    \* bound on the leaves of a filter

VARIABLES
  dialect,     \* RenderOptions.Dialect
  stack,       \* rendered conditions that wait for their operator
  args,        \* number of arguments of this renderer
  leaves,      \* number of leaves so far
  phase,       \* building, appended, rejected
  where,       \* the WHERE clause of the query
  loose,       \* history: a leaf that may answer NULL was rendered
  dropped      \* history: a fragment with arguments was dropped beside a constant

filterVars == <<dialect, stack, args, leaves, phase, where, loose, dropped>>

Flags == {"has_task_list", "has_link"}
Operators == {"=", "!=", "<", "<=", ">", ">="}

ASSUME FilterAssumption ==
  /\ MaxLeaves \in Nat
  /\ IsFiniteSet(Tags) /\ IsFiniteSet(Visibilities)
  /\ \A r \in Ids : /\ RowOf[r].tags \subseteq Tags
                    /\ RowOf[r].words \subseteq Words
                    /\ \A f \in Flags \cup {"pinned", "known"} : RowOf[r][f] \in BOOLEAN
-----------------------------------------------------------------------------
(* SQL truth values.                                                       *)

SqlOf(b) == IF b THEN "T" ELSE "F"
SqlNot(x) == CASE x = "T" -> "F" [] x = "F" -> "T" [] OTHER -> "N"
SqlAnd(x, y) == IF "F" \in {x, y} THEN "F" ELSE IF "N" \in {x, y} THEN "N" ELSE "T"
SqlOr(x, y) == IF "T" \in {x, y} THEN "T" ELSE IF "N" \in {x, y} THEN "N" ELSE "F"

Compare(a, op, b) ==
  CASE op = "=" -> a = b [] op = "!=" -> a # b
    [] op = "<" -> a < b [] op = "<=" -> a <= b
    [] op = ">" -> a > b [] op = ">=" -> a >= b

\* A rendered condition: the rows the CEL expression is true of, the answers
\* of the fragment, and the arguments its placeholders stand for.
Result(means, sql, holes) == [means |-> means, sql |-> sql, holes |-> holes, trivial |-> FALSE, unsat |-> FALSE]

Always == [Result(Ids, [r \in Ids |-> "T"], <<>>) EXCEPT !.trivial = TRUE]
Never == [Result({}, [r \in Ids |-> "F"], <<>>) EXCEPT !.unsat = TRUE]

\* addArg: the next n placeholders, counted after the ones of earlier filters.
Holes(n) == [i \in 1..n |-> where.args + args + i]
-----------------------------------------------------------------------------
(* Leaves.                                                                 *)

Push(result, n, mayBeNull) ==
  /\ phase = "building"
  /\ leaves < MaxLeaves
  /\ stack' = Append(stack, result)
  /\ args' = args + n
  /\ leaves' = leaves + 1
  /\ loose' = (loose \/ mayBeNull)
  /\ UNCHANGED <<dialect, phase, where, dropped>>

Answers(means, null) == [r \in Ids |-> IF r \in null THEN "N" ELSE SqlOf(r \in means)]

\* A leaf over columns that are never NULL, and one that answers NULL for some rows.
Leaf(means, n) == Push(Result(means, Answers(means, {}), Holes(n)), n, FALSE)
LooseLeaf(means, null, n) == Push(Result(means, Answers(means, null), Holes(n)), n, TRUE)

ConstantCondition(b) == Push(IF b THEN Always ELSE Never, 0, FALSE)

\* A flag in the payload: true, or missing.
Missing(f) == {r \in Ids : ~RowOf[r][f]}
NoTags == {r \in Ids : RowOf[r].tags = {}}

\* IS TRUE, or COALESCE to false: a missing flag is false.
renderFieldPredicate(f) == Leaf({r \in Ids : RowOf[r][f]}, 0)

renderBoolColumnComparison(op, b) ==
  /\ op \in {"=", "!="}
  /\ Leaf({r \in Ids : Compare(RowOf[r].pinned, op, b)}, 1)

\* SQLite renders IS TRUE for every flag but has_task_list.
renderJSONBoolComparison(f, op, b) ==
  /\ op \in {"=", "!="}
  /\ LET means == {r \in Ids : Compare(RowOf[r][f], op, b)}
     IN IF dialect = "sqlite" /\ f # "has_task_list" THEN Leaf(means, 0)
        ELSE LooseLeaf(means, Missing(f), IF dialect = "postgres" THEN 1 ELSE 0)

\* A column against a literal; the creator's name comes from a LEFT JOIN.
renderScalarComparison(f, op, v) ==
  /\ op \in {"=", "!="} \/ f = "created_ts"
  /\ LET means == {r \in Ids : Compare(RowOf[r][f], op, v)}
     IN IF f = "creator" THEN LooseLeaf(means, {r \in Ids : ~RowOf[r].known}, 1) ELSE Leaf(means, 1)

\* size(tags): a missing list counts as an empty one.
renderFunctionComparison(op, n) ==
  Leaf({r \in Ids : Compare(Cardinality(RowOf[r].tags), op, n)}, 1)

\* tag in [...]: each tag or a tag below it, two patterns per value.
renderTagInList(values) ==
  LooseLeaf({r \in Ids : \E t \in RowOf[r].tags, v \in values : IsPrefix(v, t)}, NoTags, 2 * Cardinality(values))

renderScalarInCondition(values) ==
  Leaf({r \in Ids : RowOf[r].visibility \in values}, Cardinality(values))

\* "tag" in tags.
renderElementInCondition(t) == LooseLeaf({r \in Ids : t \in RowOf[r].tags}, NoTags, 1)

renderContainsCondition(w) == Leaf({r \in Ids : w \in RowOf[r].words}, 1)

wrapWithNothing(condition) == condition

\* ... AND the list IS NOT NULL, which turns the NULL of a missing list into false.
wrapWithNullCheck(condition) == [r \in Ids |-> SqlAnd(condition[r], SqlOf(r \notin NoTags))]

\* tags.exists(t, ...).
renderListComprehension(kind, v) ==
  LET holds(t) == CASE kind = "==" -> t = v
                    [] kind = "startsWith" -> IsPrefix(v, t)
                    [] kind = "endsWith" -> IsSuffix(v, t)
                    [] kind = "contains" -> \E i \in 0..Len(t) : IsPrefix(v, SubSeq(t, i + 1, Len(t)))
      means == {r \in Ids : \E t \in RowOf[r].tags : holds(t)}
      n == IF kind = "startsWith" THEN 2 ELSE 1
  IN Push(Result(means, wrapWithNullCheck(Answers(means, NoTags)), Holes(n)), n, FALSE)
-----------------------------------------------------------------------------
(* Operators.                                                              *)

renderNot(c) ==
  IF c.trivial THEN Never ELSE IF c.unsat THEN Always
  ELSE Result(Ids \ c.means, [r \in Ids |-> SqlNot(c.sql[r])], c.holes)

combineAnd(a, b) ==
  IF a.unsat \/ b.unsat THEN Never ELSE IF a.trivial THEN b ELSE IF b.trivial THEN a
  ELSE Result(a.means \cap b.means, [r \in Ids |-> SqlAnd(a.sql[r], b.sql[r])], a.holes \o b.holes)

combineOr(a, b) ==
  IF a.trivial \/ b.trivial THEN Always ELSE IF a.unsat THEN b ELSE IF b.unsat THEN a
  ELSE Result(a.means \cup b.means, [r \in Ids |-> SqlOr(a.sql[r], b.sql[r])], a.holes \o b.holes)

Top == stack[Len(stack)]
Second == stack[Len(stack) - 1]

renderNotCondition ==
  /\ phase = "building" /\ Len(stack) >= 1
  /\ stack' = SubSeq(stack, 1, Len(stack) - 1) \o <<[renderNot(Top) EXCEPT !.means = Ids \ Top.means]>>
  /\ UNCHANGED <<dialect, args, leaves, phase, where, loose, dropped>>

\* means follows the expression, whatever the renderer makes of it.
renderLogicalCondition(op) ==
  LET combined == IF op = "AND" THEN combineAnd(Second, Top) ELSE combineOr(Second, Top)
      means == IF op = "AND" THEN Second.means \cap Top.means ELSE Second.means \cup Top.means
  IN /\ phase = "building" /\ Len(stack) >= 2
     /\ stack' = SubSeq(stack, 1, Len(stack) - 2) \o <<[combined EXCEPT !.means = means]>>
     /\ dropped' = (dropped \/ Len(combined.holes) < Len(Second.holes) + Len(Top.holes))
     /\ UNCHANGED <<dialect, args, leaves, phase, where, loose>>

\* The parser rejects an operator its field does not allow, a literal on the
\* left, an unknown identifier and the like: the request ends.
Reject ==
  /\ phase = "building"
  /\ stack = <<>>
  /\ phase' = "rejected"
  /\ UNCHANGED <<dialect, stack, args, leaves, where, loose, dropped>>

\* AppendConditions: a trivial filter adds nothing, not even its arguments.
AppendConditions ==
  /\ phase = "building" /\ Len(stack) = 1
  /\ where' = IF Top.trivial THEN [where EXCEPT !.means = @ \cap Top.means]
              ELSE [sql |-> [r \in Ids |-> SqlAnd(where.sql[r], Top.sql[r])],
                    means |-> where.means \cap Top.means,
                    holes |-> where.holes \o Top.holes,
                    args |-> where.args + args]
  /\ phase' = "appended"
  /\ stack' = <<>>
  /\ args' = 0
  /\ UNCHANGED <<dialect, leaves, loose, dropped>>

\* The next of several filters.
NextFilter ==
  /\ phase = "appended"
  /\ leaves < MaxLeaves
  /\ phase' = "building"
  /\ UNCHANGED <<dialect, stack, args, leaves, where, loose, dropped>>

FilterInit ==
  /\ dialect \in Dialects
  /\ stack = <<>>
  /\ args = 0
  /\ leaves = 0
  /\ phase = "building"
  /\ where = [sql |-> [r \in Ids |-> "T"], means |-> Ids, holes |-> <<>>, args |-> 0]
  /\ loose = FALSE
  /\ dropped = FALSE

RenderLeaf ==
  \/ \E b \in BOOLEAN : ConstantCondition(b)
  \/ \E f \in Flags \cup {"pinned"} : renderFieldPredicate(f)
  \/ \E op \in Operators, b \in BOOLEAN : renderBoolColumnComparison(op, b)
  \/ \E f \in Flags, op \in Operators, b \in BOOLEAN : renderJSONBoolComparison(f, op, b)
  \/ \E op \in Operators, v \in Visibilities : renderScalarComparison("visibility", op, v)
  \/ \E op \in Operators, u \in Creators : renderScalarComparison("creator", op, u)
  \/ \E op \in Operators, n \in Times : renderScalarComparison("created_ts", op, n)
  \/ \E op \in Operators, n \in 0..1 : renderFunctionComparison(op, n)
  \/ \E values \in SUBSET Tags \ {{}} : renderTagInList(values)
  \/ \E values \in SUBSET Visibilities \ {{}} : renderScalarInCondition(values)
  \/ \E t \in Tags : renderElementInCondition(t)
  \/ \E w \in Words : renderContainsCondition(w)
  \/ \E kind \in {"==", "startsWith", "endsWith", "contains"}, t \in Tags : renderListComprehension(kind, t)

FilterNext ==
  \/ RenderLeaf
  \/ renderNotCondition
  \/ \E op \in {"AND", "OR"} : renderLogicalCondition(op)
  \/ Reject
  \/ AppendConditions
  \/ NextFilter

FilterSpec == FilterInit /\ [][FilterNext]_filterVars
-----------------------------------------------------------------------------
(* Properties.                                                             *)

\* What the answers of a fragment say about the expression it was made from.
Agrees(c) ==
  \A r \in Ids : /\ c.sql[r] = "T" => r \in c.means
                 /\ c.sql[r] = "F" => r \notin c.means
                 /\ c.sql[r] = "N" => loose

\* However conditions are nested and negated, and in every dialect, the query
\* selects only memos the filter is true of, and it leaves out only memos the
\* filter is false of unless the filter has a leaf that answers NULL for
\* missing data (tag in, "x" in tags, a compared flag, the creator's name).
SelectsByMeaning == Agrees(where) /\ \A i \in DOMAIN stack : Agrees(stack[i])

Fragments == FlattenSeq([i \in DOMAIN stack |-> stack[i].holes])

\* The placeholders of the clause are its arguments in order, none missing
\* and none left over, for several filters rendered one after the other: as
\* long as no fragment with arguments was dropped beside a constant.
ArgumentsInOrder ==
  ~dropped =>
    /\ where.holes = [i \in 1..where.args |-> i]
    /\ Fragments = Holes(0) \o [i \in 1..args |-> where.args + i]

\* Both: the clause of any filters, with its arguments, asks the database for
\* the memos the filters are true of (Render, AppendConditions).
QueryMeansFilter == SelectsByMeaning /\ ArgumentsInOrder
=============================================================================
