----------------------------- MODULE Expression -----------------------------
(***************************************************************************)
(* The expression table (agent/disman/expr.rs): each read of the table      *)
(* evaluates all its expressions, by recursive descent over their tokens,   *)
(* against the values of other objects, while managers add and remove rows  *)
(* and the objects change.                                                  *)
(*                                                                         *)
(* A text is the sequence of its tokens, <<kind, value>>: "num", "ref" (an  *)
(* OID), "op", "lp", "rp", and "bad" for what the lexer refuses. f64 is     *)
(* taken as exact: a number is a fraction [n, d] with d > 0. The rows are   *)
(* numbered in the order of their OIDs.                                     *)
(***************************************************************************)
EXTENDS Integers, Sequences, SequencesExt, FiniteSetsExt

CONSTANTS
    FirstTables,   \* the rows added before the table is served
    ExprTexts,     \* row -> the texts it may be given later
    ExprValues,    \* the values the objects take: functions from OIDs to numbers
    MaxChanges     \* bound on the writes to the table and to the objects

VARIABLES
    exprs,         \* row -> [text, enabled], or NoExpr
    objects,       \* what the self-query handler answers: OID -> number
    reader,        \* a call of cells: [at, next, from, todo, row, expr, seen, cells, answer]
    writer,        \* a call of add_expression or remove_expression: [at, row, expr]
    changes        \* writes so far

exprVars == <<exprs, objects, reader, writer, changes>>

Rows == DOMAIN ExprTexts
NoExpr == [text |-> <<>>, enabled |-> FALSE]

----------------------------------------------------------------------------
(* Fractions and results. *)

Fraction(n, d) == [ok |-> TRUE, n |-> IF d < 0 THEN -n ELSE n, d |-> IF d < 0 THEN -d ELSE d]
Failed == [ok |-> FALSE, n |-> 0, d |-> 1]

(* The parser is at a reference that has not been looked up yet.            *)
Asks == [ok |-> FALSE, n |-> 1, d |-> 1]

Apply(op, a, b) ==
    IF ~ a.ok THEN a ELSE IF ~ b.ok THEN b
    ELSE CASE op = "+" -> Fraction(a.n * b.d + b.n * a.d, a.d * b.d)
           [] op = "-" -> Fraction(a.n * b.d - b.n * a.d, a.d * b.d)
           [] op = "*" -> Fraction(a.n * b.n, a.d * b.d)
           [] op = "/" -> IF b.n = 0 THEN Failed ELSE Fraction(a.n * b.d, a.d * b.n)

(* `as i64` drops the fraction.                                             *)
Truncated(v) == IF v.n < 0 THEN -((-v.n) \div v.d) ELSE v.n \div v.d

(* An object that is not there or not a number has no value.                *)
Lookup(oid, env) == IF oid \in DOMAIN env THEN Fraction(env[oid], 1) ELSE Failed

----------------------------------------------------------------------------
(* lex refuses a text with a character it does not know, a bad number or a  *)
(* `$` without an OID.                                                      *)
lex(text) == [ok |-> \A i \in DOMAIN text : text[i][1] # "bad", tokens |-> text]

(* The parser: a value and the position behind it, or where it failed. The  *)
(* closure `lookup` is called where a reference stands; seen has the answers *)
(* so far, by position.                                                     *)
At(v, pos) == [v |-> v, pos |-> pos]
IsOp(tokens, pos, ops) ==
    pos <= Len(tokens) /\ tokens[pos][1] = "op" /\ tokens[pos][2] \in ops

RECURSIVE parse_expr(_, _, _)
RECURSIVE parse_factor(_, _, _)
RECURSIVE TermTail(_, _, _)
RECURSIVE ExprTail(_, _, _)

TermTail(left, tokens, seen) ==
    IF left.v.ok /\ IsOp(tokens, left.pos, {"*", "/"})
    THEN LET right == parse_factor(tokens, left.pos + 1, seen)
         IN  TermTail(At(Apply(tokens[left.pos][2], left.v, right.v), right.pos), tokens, seen)
    ELSE left

parse_term(tokens, pos, seen) == TermTail(parse_factor(tokens, pos, seen), tokens, seen)

(* The slip of taking an expression on the right of an operator.            *)
ExprTailRight(left, tokens, seen) ==
    IF left.v.ok /\ IsOp(tokens, left.pos, {"+", "-"})
    THEN LET right == parse_expr(tokens, left.pos + 1, seen)
         IN  At(Apply(tokens[left.pos][2], left.v, right.v), right.pos)
    ELSE left

ExprTail(left, tokens, seen) ==
    IF left.v.ok /\ IsOp(tokens, left.pos, {"+", "-"})
    THEN LET right == parse_term(tokens, left.pos + 1, seen)
         IN  ExprTail(At(Apply(tokens[left.pos][2], left.v, right.v), right.pos), tokens, seen)
    ELSE left

parse_expr(tokens, pos, seen) == ExprTail(parse_term(tokens, pos, seen), tokens, seen)

parse_factor(tokens, pos, seen) ==
    IF pos > Len(tokens) THEN At(Failed, pos)
    ELSE LET kind == tokens[pos][1]
             value == tokens[pos][2]
         IN  CASE kind = "num" -> At(Fraction(value, 1), pos + 1)
               [] kind = "ref" ->
                    IF pos \in DOMAIN seen THEN At(seen[pos], pos + 1) ELSE At(Asks, pos)
               [] kind = "lp" ->
                    LET inner == parse_expr(tokens, pos + 1, seen)
                        closed == inner.pos <= Len(tokens) /\ tokens[inner.pos][1] = "rp"
                    IN  IF ~ inner.v.ok THEN inner
                        ELSE IF closed THEN At(inner.v, inner.pos + 1) ELSE At(Failed, inner.pos)
               [] IsOp(tokens, pos, {"-"}) ->
                    LET r == parse_factor(tokens, pos + 1, seen)
                    IN  At(Apply("-", Fraction(0, 1), r.v), r.pos)
               [] IsOp(tokens, pos, {"+"}) -> parse_factor(tokens, pos + 1, seen)
               [] OTHER -> At(Failed, pos)

evaluate_expression(text, seen) ==
    IF ~ lex(text).ok THEN At(Failed, 1)
    ELSE LET r == parse_expr(lex(text).tokens, 1, seen)
         IN  IF r.v.ok /\ r.pos # Len(text) + 1 THEN At(Failed, r.pos) ELSE r

evaluate(expr, seen) ==
    IF ~ expr.enabled THEN At(Failed, 1) ELSE evaluate_expression(expr.text, seen)

----------------------------------------------------------------------------
(* The table. Its lock is std's: a reader waits for a writer that is        *)
(* waiting, even when the reader's thread has read-locked it already.       *)

NoReader == [at |-> "idle", next |-> FALSE, from |-> 0, todo |-> {}, row |-> 0, expr |-> NoExpr,
             seen |-> <<>>, cells |-> {}, answer |-> <<>>]
NoWriter == [at |-> "idle", row |-> 0, expr |-> NoExpr]

Readable == writer.at = "idle"
Writable == reader.at # "reading"

(* get and get_next call cells, which takes the read lock.                  *)
CellsBegin(next, from) ==
    /\ reader.at = "idle" /\ Readable
    /\ reader' = [NoReader EXCEPT !.at = "reading", !.next = next, !.from = from,
                                  !.todo = {r \in Rows : exprs[r] # NoExpr}]
    /\ UNCHANGED <<exprs, objects, writer, changes>>

(* evaluate read-locks the table again for its copy of the row, and lets go.*)
EvaluateBegin(row) ==
    /\ reader.at = "reading" /\ reader.row = 0 /\ row \in reader.todo /\ Readable
    /\ reader' = [reader EXCEPT !.todo = @ \ {row}, !.row = row, !.expr = exprs[row]]
    /\ UNCHANGED <<exprs, objects, writer, changes>>

Evaluated == evaluate(reader.expr, reader.seen)

(* One call of h.get: the objects are as they are by now.                   *)
LookUp ==
    /\ reader.row # 0 /\ Evaluated.v = Asks
    /\ LET pos == Evaluated.pos
       IN  reader' = [reader EXCEPT !.seen = (pos :> Lookup(reader.expr.text[pos][2], objects)) @@ @]
    /\ UNCHANGED <<exprs, objects, writer, changes>>

(* After a failure there is no cell: one without a value.                   *)
EvaluateEnd ==
    /\ reader.row # 0 /\ Evaluated.v # Asks
    /\ LET v == Evaluated.v
           cell == [row |-> reader.row, expr |-> reader.expr, seen |-> reader.seen,
                    value |-> IF v.ok THEN <<Truncated(v)>> ELSE <<>>]
       IN  reader' = [reader EXCEPT !.row = 0, !.expr = NoExpr, !.seen = <<>>, !.cells = @ \cup {cell}]
    /\ UNCHANGED <<exprs, objects, writer, changes>>

(* The cell asked for, or the first behind it.                              *)
Found(cells, next, from) ==
    LET fit == {c \in cells : c.value # <<>> /\ IF next THEN c.row > from ELSE c.row = from}
    IN  {c \in fit : \A o \in fit : c.row <= o.row}

CellsEnd ==
    /\ reader.at = "reading" /\ reader.row = 0 /\ reader.todo = {}
    /\ reader' = [reader EXCEPT !.at = "done",
                                !.answer = SetToSeq(Found(reader.cells, reader.next, reader.from))]
    /\ UNCHANGED <<exprs, objects, writer, changes>>

Answered ==
    /\ reader.at = "done"
    /\ reader' = NoReader
    /\ UNCHANGED <<exprs, objects, writer, changes>>

(* add_expression (enabled or not) and remove_expression wait for the       *)
(* readers to leave.                                                        *)
WriterArrives(row, expr) ==
    /\ writer.at = "idle" /\ changes < MaxChanges
    /\ writer' = [at |-> "waiting", row |-> row, expr |-> expr]
    /\ changes' = changes + 1
    /\ UNCHANGED <<exprs, objects, reader>>

WriterRuns ==
    /\ writer.at = "waiting" /\ Writable
    /\ exprs' = [exprs EXCEPT ![writer.row] = writer.expr]
    /\ writer' = NoWriter
    /\ UNCHANGED <<objects, reader, changes>>

ObjectsChange ==
    /\ changes < MaxChanges
    /\ \E env \in ExprValues : env # objects /\ objects' = env
    /\ changes' = changes + 1
    /\ UNCHANGED <<exprs, reader, writer>>

ExprInit ==
    /\ exprs \in FirstTables
    /\ objects \in ExprValues
    /\ reader = NoReader /\ writer = NoWriter /\ changes = 0

ExprNext ==
    \/ \E next \in BOOLEAN, from \in Rows \cup {0} : CellsBegin(next, from)
    \/ \E row \in Rows : EvaluateBegin(row)
    \/ LookUp \/ EvaluateEnd \/ CellsEnd \/ Answered
    \/ \E row \in Rows :
         \/ \E text \in ExprTexts[row], enabled \in BOOLEAN :
              WriterArrives(row, [text |-> text, enabled |-> enabled])
         \/ WriterArrives(row, NoExpr)
    \/ WriterRuns \/ ObjectsChange
ExprSpec == ExprInit /\ [][ExprNext]_exprVars

----------------------------------------------------------------------------
(* The grammar of the comment above parse_expr, as a relation: the values   *)
(* that the tokens s denote as an expression, a term and a factor. (A       *)
(* leading `+`, which the code takes too, is added.) Each reference of a    *)
(* text is replaced by what was seen there, and by one if none was needed.  *)

Substituted(text, seen) ==
    [i \in DOMAIN text |->
       IF text[i][1] # "ref" THEN text[i]
       ELSE <<"seen", IF i \in DOMAIN seen THEN seen[i] ELSE Fraction(1, 1)>>]

RECURSIVE ExprDenotes(_)
RECURSIVE TermDenotes(_)
RECURSIVE FactorDenotes(_)

Split(s, i) == <<SubSeq(s, 1, i - 1), SubSeq(s, i + 1, Len(s))>>

ExprDenotes(s) ==
    TermDenotes(s) \cup
      UNION {{Apply(s[i][2], a, b) :
                a \in ExprDenotes(Split(s, i)[1]), b \in TermDenotes(Split(s, i)[2])} :
             i \in {j \in DOMAIN s : IsOp(s, j, {"+", "-"})}}

TermDenotes(s) ==
    FactorDenotes(s) \cup
      UNION {{Apply(s[i][2], a, b) :
                a \in TermDenotes(Split(s, i)[1]), b \in FactorDenotes(Split(s, i)[2])} :
             i \in {j \in DOMAIN s : IsOp(s, j, {"*", "/"})}}

FactorDenotes(s) ==
    CASE s = <<>> -> {}
      [] Len(s) = 1 /\ s[1][1] = "num" -> {Fraction(s[1][2], 1)}
      [] Len(s) = 1 /\ s[1][1] = "seen" -> {s[1][2]}
      [] Len(s) > 2 /\ s[1][1] = "lp" /\ s[Len(s)][1] = "rp" ->
           ExprDenotes(SubSeq(s, 2, Len(s) - 1))
      [] Len(s) > 1 /\ IsOp(s, 1, {"-"}) ->
           {Apply("-", Fraction(0, 1), v) : v \in FactorDenotes(Tail(s))}
      [] Len(s) > 1 /\ IsOp(s, 1, {"+"}) -> FactorDenotes(Tail(s))
      [] OTHER -> {}

(* "2 + 3 * 4" and its like, "errors in evaluation are simply omitted": a   *)
(* read shows of each row the one value its tokens denote in the grammar,   *)
(* each reference with the value its object had when it was looked up, and  *)
(* no cell for a row that is disabled, malformed or without a value; the    *)
(* rows it shows are of one state of the table.                             *)
CellsDenote ==
    \A c \in reader.cells :
      LET values == {v \in ExprDenotes(Substituted(c.expr.text, c.seen)) : c.expr.enabled /\ v.ok}
      IN  /\ {<<Truncated(v)>> : v \in values} = {c.value} \ {<<>>}
          /\ reader.at = "reading" => exprs[c.row] = c.expr

(* "Evaluate the expression ... against the current self-query state": not  *)
(* of one state, which no run checks. Two references of a text to the same  *)
(* object are two calls of h.get.                                           *)
OneSample ==
    \A c \in reader.cells :
      \A i, j \in DOMAIN c.seen : c.expr.text[i] = c.expr.text[j] => c.seen[i] = c.seen[j]
============================================================================
