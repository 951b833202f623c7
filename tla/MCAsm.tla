-------------------------------- MODULE MCAsm --------------------------------
(***************************************************************************)
(* The assembler on all short sources over a set of statements, and on one *)
(* definition for each expression of a set.                                *)
(***************************************************************************)
EXTENDS Assembler

Define(e)        == <<[op |-> "@define", name |-> "V", expr |-> e]>>
stm(op)          == [op |-> op, expr |-> <<>>]
put(op, e)       == [op |-> op, expr |-> e]
named(op, n, e)  == [op |-> op, name |-> n, expr |-> e]
Plus(a, b)       == <<a, Op("+"), b>>

Label1 == [op |-> "label", name |-> "L", expr |-> <<>>]

\* Statements a source may have in any order.
Pool == { Label1,
          named("@define", "A", <<Num(4)>>),
          named("@define", "B", Plus(Sym("A"), Sym("L"))),
          named("@static", "buf", <<Sym("L"), Op("+"), Num(4)>>),
          named("@static", "tab", <<Sym("A")>>),
          put("rdi", Plus(Sym("B"), Sym("A"))),
          put("pusha", Plus(Sym("buf"), Num(1))),
          put("rdp", <<Sym("FREE_MEM")>>),
          put("j", <<Sym("L")>>),
          put("@loc", <<Num(9)>>),
          [op |-> "@string", chars |-> <<104, 105>>, expr |-> <<>>],
          stm("brk") }

Short == UNION {[1..n -> Pool] : n \in 1..3}

\* The rest of the statements, limits and errors, in sources of their own.
Others ==
  { <<put("@memloc", <<Num(40000)>>), named("@static", "top", <<Num(25280)>>),
      stm("comment"), put("rdq", <<Sym("top")>>), put("goto", <<Sym("ISR")>>)>>,
    <<put("@memloc", <<Num(40000)>>), put("@memloc", <<Num(40000)>>)>>,
    <<named("@static", "a", <<Num(3)>>), named("@static", "b", <<Num(5)>>),
      put("@memloc", <<Num(33000)>>), named("@static", "c", <<Sym("b"), Op("-"), Sym("a")>>),
      put("rdp", <<Sym("c")>>), put("rdi", <<Sym("FREE_MEM")>>)>>,
    <<named("@static", "top", <<Num(32513)>>)>>,
    <<named("@static", "none", <<Num(0)>>), named("@static", "bad", <<Op("-"), Num(1)>>)>>,
    <<put("isc", <<Op("-"), Num(2)>>), put("isp", <<Num(2)>>), stm("text")>>,
    <<put("@assert", <<Sym("L"), Op("=="), Num(2)>>), put("rdi", <<Num(1)>>), Label1,
      put("@echo", <<Sym("L")>>)>>,
    <<put("@assert", <<Sym("L"), Op("!="), Num(0)>>), Label1, stm("comment")>>,
    <<put("@echo", <<Sym("L")>>), put("call", <<Sym("L")>>), Label1>>,
    <<put("goto", <<Sym("L")>>), [op |-> "st", mode |-> MM_P, expr |-> <<Num(17)>>],
      Label1, [op |-> "rd", reg |-> X, expr |-> <<>>]>>,
    <<put("j", <<Num(1024)>>), stm("nop")>>, <<put("j", <<Num(1025)>>), stm("nop")>>,
    <<put("rdi", <<Num(1), Op("/"), Num(0)>>)>>,
    <<put("rdi", <<Num(1), Op("/"), Num(0)>>), stm("nop")>>,
    <<put("rdi", <<Num(1), Op("/"), Num(0), Op("+"), Num(1)>>), stm("nop")>>,
    <<put("@loc", <<Num(1), Op("%"), Num(0)>>)>>,
    <<put("@loc", <<Num(32766)>>), put("rdi", <<Num(7)>>)>>,
    <<put("@loc", <<Num(32767)>>), put("rdi", <<Num(7)>>)>>,
    <<put("@loc", <<Num(40000)>>), stm("brk")>>, <<put("@loc", <<Num(70000)>>)>>,
    <<put("@loc", <<Num(32764)>>), [op |-> "@string", chars |-> <<65, 66>>, expr |-> <<>>]>>,
    <<put("@loc", <<Num(32764)>>), [op |-> "@string", chars |-> <<65, 66, 67>>, expr |-> <<>>]>>,
    <<put("@loc", <<Num(32767)>>), [op |-> "@string", chars |-> <<>>, expr |-> <<>>]>> }
-----------------------------------------------------------------------------
(* Expressions.                                                            *)

\* The binary operators of C by precedence, loosest first.
Levels == << {"||"}, {"&&"}, {"|"}, {"^"}, {"&"}, {"==", "!="},
             {"<", "<=", ">", ">="}, {"<<", ">>"}, {"+", "-"}, {"*", "/", "%"} >>
Binaries == UNION Range(Levels)
Unaries == {"+", "-", "!", "~"}

\* Two operators, grouped by precedence or by parentheses; a binary and a
\* unary one.  No shift by a negative number, which C leaves undefined.
Chains == UNION { { <<Num(7), Op(o), Num(2), Op(p), Num(3)>>,
                    <<Op("("), Num(7), Op(o), Num(2), Op(")"), Op(p), Num(3)>>,
                    <<Num(7), Op(o), Op("("), Num(2), Op(p), Num(3), Op(")")>> } :
                  <<o, p>> \in {q \in (Binaries \ {"<="}) \X (Binaries \ {"<="}) :
                               q[1] \in {"<<", ">>"} => q[2] # "-"} }
          \cup UNION { { <<Op(u), Num(5), Op(o), Num(3)>>,
                         <<Num(5), Op(o), Op(u), Num(3)>>,
                         <<Op(u), Op("("), Num(5), Op(o), Num(3), Op(")")>> } :
                       u \in Unaries, o \in Binaries \ {"<=", "<<", ">>"} }

\* What no precedence makes sense of.
Malformed == { <<>>, <<Num(1), Num(2)>>, <<Num(1), Op("+")>>, <<Op("*"), Num(1)>>,
               <<Op("("), Num(1)>>, <<Num(1), Op(")")>>, <<Op("("), Op(")")>>,
               <<Num(1), Op("*"), Op("+")>>, <<Op("("), Num(1), Op("+"), Op(")")>>,
               <<Op("("), Op("("), Num(1), Op(")")>>, <<Sym("nowhere")>>,
               <<Num(1), Op("("), Num(2), Op(")")>> }

AllSources == Short \cup Others \cup {Define(e) : e \in Chains \cup Malformed}

\* Parentheses open before position k.
Depth(e, k) == Cardinality({i \in 1..(k - 1) : e[i] = Op("(")})
               - Cardinality({i \in 1..(k - 1) : e[i] = Op(")")})

\* The value of a well-formed expression by C's grammar: cut at the last of
\* the loosest binary operators outside parentheses.
RECURSIVE CValue(_, _)
CValue(table, e) ==
  LET cuts == {k \in 2..Len(e) :
                 /\ e[k].kind = "operator" /\ e[k].str \in Binaries
                 /\ Depth(e, k) = 0
                 /\ e[k - 1].kind # "operator" \/ e[k - 1] = Op(")")}
      level(k) == CHOOSE n \in DOMAIN Levels : e[k].str \in Levels[n]
      loosest == {k \in cuts : \A l \in cuts : level(k) <= level(l)}
      cut == Max(loosest)
  IN CASE cuts # {} -> Binary(e[cut].str, CValue(table, SubSeq(e, 1, cut - 1)),
                                          CValue(table, SubSeq(e, cut + 1, Len(e))))
       [] cuts = {} /\ e[1] = Op("(") -> CValue(table, SubSeq(e, 2, Len(e) - 1))
       [] cuts = {} /\ e[1].kind = "operator" /\ e[1] # Op("(") ->
            Unary(e[1].str, CValue(table, Tail(e)))
       [] cuts = {} /\ e[1].kind = "number" -> e[1].value
       [] cuts = {} /\ e[1].kind = "symbol" -> table[e[1].name]
-----------------------------------------------------------------------------
(* Properties.                                                             *)

Names(s) == {k \in DOMAIN s : s[k].op \in {"label", "@define", "@static"}}
Distinct(s) == \A k, l \in Names(s) : k # l => s[k].name # s[l].name

\* When the assembler reports success, every operand in the image and every
\* @define has the value its expression has by C's rules under the names the
\* source gives, wherever those are placed and whether it was resolved at
\* once or later; every string is in place; and the image has no other bytes.
OperandsFinal ==
  status = "ok" /\ Distinct(source) =>
    /\ \A k \in DOMAIN source :
         source[k].op = "@define" =>
           resolved[source[k].name] = CValue(resolved, source[k].expr)
    /\ \A n \in DOMAIN emitted :
         LET s == source[emitted[n].by]
             v == IF s.op \in Operands THEN CValue(resolved, s.expr) ELSE 0
             bytes == IF s.op = "@string" THEN s.chars ELSE Code(s, emitted[n].from, v)
         IN \A i \in DOMAIN bytes : rom[emitted[n].from + i - 1] = bytes[i]
    /\ DOMAIN rom \subseteq UNION {e.from..(e.from + e.size - 1) : e \in Range(emitted)}

\* The names an expression uses; those known when statement k is laid out,
\* with or without the definitions.
Used(e) == {e[i].name : i \in {j \in DOMAIN e : e[j].kind = "symbol"}}
Above(s, k, ops) == {"ISR"} \cup {s[i].name : i \in {j \in 1..(k - 1) : s[j].op \in ops}}
Layout == {"@loc", "@memloc", "@static"}

\* The manual's rules: a layout macro depends on labels before it, any other
\* expression on labels anywhere and on definitions before it.
Ordered(s) ==
  /\ \A k \in DOMAIN s :
       /\ s[k].op \notin {"@loc", "@memloc", "@assert", "text"}
       /\ Used(s[k].expr) \subseteq
            IF s[k].op \in Layout THEN Above(s, k, {"label", "@static"})
            ELSE Above(s, k, {"@define"}) \cup Above(s, Len(s) + 1, {"label", "@static"})
                 \cup {"FREE_MEM"}
  /\ s \in Short

\* A source that keeps the manual's rules is assembled: nothing a deferred
\* operand waits for is missing when its turn comes.
AcceptsOrdered == phase = "done" /\ Ordered(source) => status = "ok"

\* An expression without a value never yields one, at whatever phase it is
\* evaluated: the source is refused.
RefusesMalformed ==
  phase = "done" /\ source \in {Define(e) : e \in Malformed} => status = "-7"

\* What the manual says of the layout phase: an expression whose prerequisites
\* are all evaluated is evaluated.  A @static may then use a @define above it.
DependsAbove(s) ==
  \A k \in DOMAIN s :
    /\ s[k].op # "@loc"
    /\ Used(s[k].expr) \subseteq Above(s, k, {"label", "@static", "@define"})
LayoutSeesDefines == phase = "done" /\ DependsAbove(source) => status = "ok"

=============================================================================
