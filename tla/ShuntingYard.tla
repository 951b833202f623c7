---------------------------- MODULE ShuntingYard ----------------------------
(***************************************************************************)
(* The expression evaluator, parseExp of shuntingyard.c: a stack of        *)
(* operators, a stack of values, and whether a value was read last.        *)
(*                                                                         *)
(* An expression is a sequence of tokens.  How the text is cut into them   *)
(* (prefixes, escapes, longest operator first) is left out.  Values are    *)
(* int64_t in the code; those met here stay below 2^15, where neither an   *)
(* int64_t nor the int of parseNumeric overflows.                          *)
(***************************************************************************)
EXTENDS Integers, SequencesExt

Num(v) == [kind |-> "number", value |-> v]
Sym(n) == [kind |-> "symbol", name |-> n]
Op(s)  == [kind |-> "operator", str |-> s]

operator_token(str, priority, args) ==
  [str |-> str, priority |-> priority, args |-> args]

\* The table, without the functions.  "(" is found where a unary operator may
\* stand, ")" where a binary one may.
operators ==
  LET Binary(priority, strs) == {operator_token(s, priority, 2) : s \in strs}
  IN {operator_token("(", 0, 1), operator_token(")", 0, 0)}
     \cup {operator_token(s, 11, 1) : s \in {"+", "-", "!", "~"}}
     \cup Binary(10, {"*", "/", "%"}) \cup Binary(9, {"+", "-"})
     \cup Binary(8, {"<<", ">>"}) \cup Binary(7, {">=", ">", "<=", "<"})
     \cup Binary(6, {"==", "!="}) \cup Binary(5, {"&"}) \cup Binary(4, {"^"})
     \cup Binary(3, {"|"}) \cup Binary(2, {"&&"}) \cup Binary(1, {"||"})

OPENPAREN   == operator_token("(", 0, 1)
CLOSEDPAREN == operator_token(")", 0, 0)
-----------------------------------------------------------------------------
(* The functions, as C computes them.                                      *)

Truth(b) == IF b THEN 1 ELSE 0
Abs(n) == IF n < 0 THEN -n ELSE n

\* Division truncates towards zero.
Quotient(a, b) == LET q == Abs(a) \div Abs(b) IN IF (a < 0) = (b < 0) THEN q ELSE -q

\* Bitwise operations on two's complement numbers of sixteen bits.
IntWeights == {2 ^ k : k \in 0..14}
BitSet(n) == {w \in IntWeights : (n \div w) % 2 = 1}
FromBits(set, negative) == SumSet(set) - IF negative THEN 2 ^ 15 ELSE 0

Unary(f, a) ==
  CASE f = "+" -> a
    [] f = "-" -> -a
    [] f = "!" -> Truth(a = 0)
    [] f = "~" -> -a - 1

Binary(f, a, b) ==
  CASE f = "*"  -> a * b
    [] f = "/"  -> Quotient(a, b)
    [] f = "%"  -> a - b * Quotient(a, b)
    [] f = "+"  -> a + b
    [] f = "-"  -> a - b
    [] f = "<<" -> a * 2 ^ b
    [] f = ">>" -> a \div 2 ^ b
    [] f = ">"  -> Truth(a > b)
    [] f = ">=" -> Truth(a >= b)
    [] f = "<"  -> Truth(a < b)
    [] f = "<=" -> Truth(a >= b)          \* f_le compares with >=
    [] f = "==" -> Truth(a = b)
    [] f = "!=" -> Truth(a # b)
    [] f = "&"  -> FromBits(BitSet(a) \cap BitSet(b), a < 0 /\ b < 0)
    [] f = "|"  -> FromBits(BitSet(a) \cup BitSet(b), a < 0 \/ b < 0)
    [] f = "^"  -> FromBits((BitSet(a) \cup BitSet(b)) \ (BitSet(a) \cap BitSet(b)),
                            (a < 0) # (b < 0))
    [] f = "&&" -> Truth(a # 0 /\ b # 0)
    [] f = "||" -> Truth(a # 0 \/ b # 0)
-----------------------------------------------------------------------------
(***************************************************************************)
(* The state of parseExp.  code is exitcode, or "SIGFPE" once a division   *)
(* by zero has ended the process.                                          *)
(***************************************************************************)
Start == [ops |-> <<>>, vals |-> <<>>, lastNumber |-> FALSE,
          code |-> "SHUNT_DONE"]

\* evalOperator; `failure` is the exit code its caller sets when it fails.
evalOperator(s, op, failure) ==
  LET n == Len(s.vals)
      rest == SubSeq(s.vals, 1, n - op.args)
  IN CASE op = OPENPAREN \/ n < op.args -> [s EXCEPT !.code = failure]
       [] op # OPENPAREN /\ op.args = 1 /\ n >= 1 ->
            [s EXCEPT !.vals = Append(rest, Unary(op.str, s.vals[n]))]
       [] op.args = 2 /\ n >= 2 /\ op.str \in {"/", "%"} /\ s.vals[n] = 0 ->
            [s EXCEPT !.code = "SIGFPE"]
       [] OTHER -> [s EXCEPT !.vals =
                      Append(rest, Binary(op.str, s.vals[n - 1], s.vals[n]))]

\* Operators popped and evaluated from the top down to the level given, or
\* until one fails.
Unwound(s, level, failure) ==
  LET popped[n \in 0..(Len(s.ops) - level)] ==
        IF n = 0 THEN s
        ELSE LET t == popped[n - 1]
             IN IF t.code # "SHUNT_DONE" THEN t
                ELSE evalOperator([t EXCEPT !.ops = Front(@)], Last(t.ops), failure)
  IN popped[Len(s.ops) - level]

\* The highest position whose operator is in S, or zero.
LastOf(ops, S) ==
  LET found == {k \in DOMAIN ops : ops[k] \in S}
  IN IF found = {} THEN 0 ELSE Max(found)

\* An operator first makes those before it that bind no weaker be evaluated.
PushOperator(s, op) ==
  LET level == LastOf(s.ops, {o \in operators : o.priority < op.priority})
      t == Unwound(s, level, "SHUNT_TOO_MANY_POP")
  IN [t EXCEPT !.ops = Append(@, op), !.lastNumber = FALSE]

\* Mutant: a parenthesis that closes nothing is ignored.
CloseParenLax(s) ==
  LET level == LastOf(s.ops, {OPENPAREN})
      Closed(t) == IF t.code # "SHUNT_DONE" \/ level = 0 THEN t
                   ELSE [t EXCEPT !.ops = Front(@)]
  IN Closed(Unwound([s EXCEPT !.lastNumber = TRUE], level,
                    "SHUNT_TOO_MANY_POP_PAREN"))

CloseParen(s) ==
  LET level == LastOf(s.ops, {OPENPAREN})
      Closed(t) == CASE t.code # "SHUNT_DONE" -> t
                     [] t.code = "SHUNT_DONE" /\ level = 0 ->
                          [t EXCEPT !.code = "SHUNT_MISMATCHED_CLOSE"]
                     [] OTHER -> [t EXCEPT !.ops = Front(@)]
  IN Closed(Unwound([s EXCEPT !.lastNumber = TRUE], level,
                    "SHUNT_TOO_MANY_POP_PAREN"))

PushValue(s, v) == [s EXCEPT !.vals = Append(@, v), !.lastNumber = TRUE]

\* One round of the loop; table is a function from names to values.
Feed(table, s, token) ==
  LET found == {op \in operators : token.kind = "operator" /\ op.str = token.str
                                   /\ (op.args = 1) = ~s.lastNumber}
  IN CASE s.code # "SHUNT_DONE" -> s
       [] s.code = "SHUNT_DONE" /\ ~s.lastNumber /\ token.kind = "number" ->
            PushValue(s, token.value)
       [] s.code = "SHUNT_DONE" /\ ~s.lastNumber /\ token.kind = "symbol"
          /\ token.name \in DOMAIN table -> PushValue(s, table[token.name])
       [] s.code = "SHUNT_DONE" /\ found = {OPENPAREN} ->
            [s EXCEPT !.ops = Append(@, OPENPAREN), !.lastNumber = FALSE]
       [] s.code = "SHUNT_DONE" /\ found = {CLOSEDPAREN} -> CloseParen(s)
       [] s.code = "SHUNT_DONE" /\ found \notin {{}, {OPENPAREN}, {CLOSEDPAREN}} ->
            PushOperator(s, CHOOSE op \in found : TRUE)
       [] OTHER -> [s EXCEPT !.code = "SHUNT_UNRECOGNIZED"]

\* What is left has been evaluated: exactly one value must remain.  The value
\* returned means something only when status is SHUNT_DONE.
Result(s) == [status |-> IF s.code # "SHUNT_DONE" \/ Len(s.vals) = 1 THEN s.code
                         ELSE IF s.vals = <<>> THEN "SHUNT_NO_VALUES"
                         ELSE "SHUNT_MISMATCHED_OPEN",
              value |-> IF s.vals = <<>> THEN 0 ELSE Last(s.vals)]

parseExp(table, expression) ==
  LET read[n \in 0..Len(expression)] ==
        IF n = 0 THEN Start ELSE Feed(table, read[n - 1], expression[n])
      Finished(s) == IF s.code = "SHUNT_DONE"
                     THEN Unwound(s, 0, "SHUNT_MISSING_VALUE") ELSE s
  IN Result(Finished(read[Len(expression)]))
=============================================================================
