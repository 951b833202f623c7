------------------------------- MODULE MCIsa -------------------------------
(***************************************************************************)
(* Lines and registers for NandyIsa: operands and registers at the edges   *)
(* of a byte, jumps at the edges of their range, addresses that cross a    *)
(* page.                                                                   *)
(***************************************************************************)
EXTENDS NandyIsa

Edges == {0, 1, 127, 128, 255}

\* Distances of a jump, of those the assembler accepts: the outermost two of
\* either side are the last one that is and the first one that is not.
Jumped == {d \in {-1024, -1023, -257, -256, 0, 2, 255, 256, 1024, 1025} :
             Reaches(0, d)}

Instructions ==
  {<<m>> : m \in NoOperand}
  \cup {<<m, r>> : m \in {"rd", "wr", "sw"}, r \in 0..7}
  \cup {<<m, r>> : m \in RegAlu, r \in {X, Y}}
  \cup {<<m, v>> : m \in ImmAlu, v \in Edges \cup {-1, -128}}
  \cup {<<m, d>> : m \in RelJumps, d \in Jumped}
  \cup {<<m, mode, n>> : m \in {"ld", "st"},
                         mode \in {MM_SP, MM_Q, MM_P, MM_PPRE}, n \in {0, 1, 15}}

Macros ==
  {<<m, a, b>> : m \in {"move", "swap"},
                 a \in {ACC, SP, X, PL, QH}, b \in {ACC, SP, Y, PH, QH}}
  \cup {<<m, v>> : m \in {"rdp", "rdq"}, v \in {0, 255, 256, 65535}}
  \cup {<<m, v>> : m \in {"call", "goto"}, v \in {1, 256, 5000, 65535}}
  \cup {<<"isp", v>> : v \in {-3, 1, 127}}
  \cup {<<"pusha", v>> : v \in {255, 40000}}

LiveLines == {l \in Instructions \cup Macros : l[1] \notin Shadowed}
\* The line starts in the last byte of a page.
MCOrigins == {1279}

\* Operands in x and y, a stack pointer in either half of its page, pointers
\* just below a boundary; the values tell the registers apart.
MCStarts ==
  {[INIT_STATE EXCEPT !.acc = a, !.x = b, !.y = 255 - b, !.carry = c,
                      !.sp = 2 + (b \div 2), !.p = 33023, !.q = 65534] :
     a \in Edges, b \in {0, 1, 128, 254}, c \in BOOLEAN}

=============================================================================
