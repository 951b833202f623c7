---------------------------- MODULE NMallocProofs ----------------------------
(***************************************************************************)
(* The reference allocator never hands out bytes twice, its chain of       *)
(* blocks stays whole at every moment of a call, and a request is met at   *)
(* the lowest run of free blocks with room: for every sequence of requests *)
(* of any sizes, where a char is signed and where it is not.               *)
(***************************************************************************)
EXTENDS NMalloc, NandyWordProofs

Heap == FREE_MEM..(MAX_MEM - 1)

\* Its bounds, which are multiples of 256.
LEMMA HeapRange ==
  /\ FREE_MEM = 256 * 128 /\ MAX_MEM = 256 * 255
  /\ \A a : a \in Heap <=> a \in Int /\ FREE_MEM <= a /\ a < MAX_MEM
  /\ FREE_MEM \in Heap /\ MAX_MEM \notin Heap
<1>1. FREE_MEM = 256 * 128 /\ MAX_MEM = 256 * 255
  BY DEF FREE_MEM, MAX_MEM
<1>2. FREE_MEM \in Int /\ MAX_MEM \in Int /\ FREE_MEM < MAX_MEM
  BY <1>1
<1>3. \A a : a \in Heap <=> a \in Int /\ FREE_MEM <= a /\ a < MAX_MEM
  BY <1>2 DEF Heap
<1> QED BY <1>1, <1>2, <1>3
-----------------------------------------------------------------------------
(* Headers.                                                                *)

\* What a header says, the sign of a char aside: the next block's address.
succ(m, b) == FREE_MEM + 256 * (m[b + 1] % 128) + m[b]

\* The two bytes of a header are known.
Headed(m, b) == /\ b \in DOMAIN m /\ b + 1 \in DOMAIN m
                /\ m[b] \in Byte /\ m[b + 1] \in Byte

\* A memory is a function on some addresses of the heap.
IsMem(m) == DOMAIN m \subseteq Heap

LEMMA LinkOf ==
  ASSUME NEW m, NEW b, Headed(m, b)
  PROVE  /\ succ(m, b) \in Int
         /\ Used(m, b) <=> m[b + 1] >= 128
         /\ Negative(m, b) <=> signed /\ m[b] >= 128
         /\ ~Negative(m, b) => link(m, b) = succ(m, b)
         /\ Negative(m, b) => link(m, b) \in Int /\ link(m, b) < 0
<1>1. m[b] \in Int /\ m[b + 1] \in Int /\ m[b] <= 255 /\ m[b] >= 0
  BY ByteRange DEF Headed
<1>2. At(m, b) = m[b] /\ At(m, b + 1) = m[b + 1]
  BY DEF Headed, At
<1>3. succ(m, b) \in Int
  BY <1>1, HeapRange DEF succ
<1>4. (Used(m, b) <=> m[b + 1] >= 128) /\ (Negative(m, b) <=> signed /\ m[b] >= 128)
  BY <1>2 DEF Used, Negative
<1>5. ASSUME Negative(m, b) PROVE link(m, b) \in Int /\ link(m, b) < 0
  BY <1>1, <1>2, <1>5 DEF link
<1>6. ~Negative(m, b) => link(m, b) = succ(m, b)
  BY <1>2 DEF link, succ
<1> QED BY <1>3, <1>4, <1>5, <1>6

\* Two memories that agree on a header agree on what it says.
LEMMA SameHeader ==
  ASSUME NEW m, NEW n, NEW b, Headed(m, b),
         b \in DOMAIN n, b + 1 \in DOMAIN n, n[b] = m[b], n[b + 1] = m[b + 1]
  PROVE  /\ Headed(n, b) /\ succ(n, b) = succ(m, b)
         /\ Used(n, b) <=> Used(m, b)
         /\ Negative(n, b) <=> Negative(m, b)
  BY DEF Headed, succ, Used, Negative, At

\* Writing a header: it says what was meant, and every other byte stays.
Written(n, m, i, next, used) ==
  /\ DOMAIN n = DOMAIN m \cup {i, i + 1}
  /\ \A a \in DOMAIN m \ {i, i + 1} : n[a] = m[a]
  /\ Headed(n, i) /\ succ(n, i) = next /\ (Used(n, i) <=> used)

LEMMA HeaderWritten ==
  ASSUME NEW m, NEW i \in Int, NEW next \in Int, FREE_MEM <= next, next <= MAX_MEM,
         NEW used \in BOOLEAN
  PROVE  Written(Header(m, i, next, used), m, i, next, used)
<1> DEFINE n == Header(m, i, next, used)
           up == (next \div 256) % 128
           hi == up + (IF used THEN 128 ELSE 0)
<1>1. /\ DOMAIN n = DOMAIN m \cup {i, i + 1}
      /\ \A a \in DOMAIN m \ {i, i + 1} : n[a] = m[a]
      /\ n[i] = next % 256 /\ n[i + 1] = hi
  BY DEF Header
<1>2. /\ next \div 256 \in Int /\ 128 <= next \div 256 /\ next \div 256 <= 255
      /\ next = 256 * (next \div 256) + (next % 256)
      /\ next % 256 \in 0..255
  BY HeapRange
<1>3. up \in 0..127 /\ up = next \div 256 - 128
  BY <1>2
<1>4. hi \in Int /\ hi % 128 = up /\ (hi >= 128 <=> used) /\ 0 <= hi /\ hi <= 255
  <2> HIDE DEF up
  <2>1. CASE used
    BY <1>3, <2>1
  <2>2. CASE ~used
    BY <1>3, <2>2
  <2> QED BY <2>1, <2>2
<1> HIDE DEF up, hi, n
<1>5. Headed(n, i)
  <2>1. next % 256 \in Byte
    BY <1>2, ByteRange
  <2>2. hi \in Byte
    BY <1>4, ByteRange
  <2> QED BY <1>1, <2>1, <2>2 DEF Headed
<1>6. succ(n, i) = next
  BY <1>1, <1>2, <1>3, <1>4, HeapRange DEF succ
<1>7. Used(n, i) <=> used
  BY <1>1, <1>4, <1>5, LinkOf
<1> QED BY <1>1, <1>5, <1>6, <1>7 DEF n, Written

\* A block handed out: the bytes behind its header are no longer known.
LEMMA HandedOut ==
  ASSUME NEW m, NEW i \in Int, NEW next \in Int
  PROVE  LET n == Handed(m, i, next)
         IN /\ DOMAIN n = {b \in DOMAIN m : b < i + 2 \/ b >= next}
            /\ \A a \in DOMAIN n : n[a] = m[a]
  BY DEF Handed
-----------------------------------------------------------------------------
(* The chain of blocks.                                                    *)

Ends(S) == S \cup {MAX_MEM}

\* The blocks that start at S follow one another from FREE_MEM to MAX_MEM, by
\* what their headers say, and headers do not overlap.
WellLinked(m, S) ==
  /\ IsMem(m) /\ S \subseteq Heap /\ FREE_MEM \in S
  /\ \A b \in S : Headed(m, b) /\ b + 2 <= succ(m, b) /\ succ(m, b) \in Ends(S)
  /\ \A b, c \in S : b < c => succ(m, b) <= c
  /\ \A c \in Ends(S) : c = FREE_MEM \/ \E b \in S : succ(m, b) = c

Few(S, n) == IsFiniteSet(S) /\ Cardinality(S) <= n

\* How far the links really lead: up to the first that is read as negative.
Reachable(m, S) == {b \in Ends(S) : \A c \in S : c < b => ~Negative(m, c)}

LEMMA EndsRange ==
  ASSUME NEW m, NEW S, WellLinked(m, S)
  PROVE  \A c \in Ends(S) : c \in Int /\ FREE_MEM <= c /\ c <= MAX_MEM
  BY HeapRange DEF WellLinked, Ends

\* One link: from a block that is reached to the next, or out of the memory.
LEMMA OneLink ==
  ASSUME NEW m, NEW S, WellLinked(m, S), NEW b \in Reachable(m, S)
  PROVE  /\ b = MAX_MEM => b \notin DOMAIN m
         /\ b # MAX_MEM => b \in S /\ b \in DOMAIN m
         /\ b \in S /\ ~Negative(m, b) =>
              link(m, b) = succ(m, b) /\ succ(m, b) \in Reachable(m, S)
         /\ b \in S /\ Negative(m, b) => link(m, b) \in Int /\ link(m, b) < 0
<1>1. b = MAX_MEM => b \notin DOMAIN m
  BY HeapRange DEF WellLinked, IsMem
<1>2. b # MAX_MEM => b \in S /\ b \in DOMAIN m
  BY DEF Reachable, Ends, WellLinked, Headed
<1>3. ASSUME b \in S, ~Negative(m, b)
      PROVE  link(m, b) = succ(m, b) /\ succ(m, b) \in Reachable(m, S)
  <2>1. Headed(m, b) /\ succ(m, b) \in Ends(S)
    BY <1>3 DEF WellLinked
  <2>2. ASSUME NEW c \in S, c < succ(m, b) PROVE ~Negative(m, c)
    <3>1. b \in Int /\ c \in Int /\ succ(m, b) \in Int
      BY <1>3, <2>1, EndsRange DEF Ends
    <3>2. ~(b < c)
      BY <1>3, <2>2, <3>1 DEF WellLinked
    <3>3. CASE c < b
      BY <3>3 DEF Reachable
    <3>4. CASE c = b
      BY <1>3, <3>4
    <3> QED BY <3>1, <3>2, <3>3, <3>4
  <2> QED BY <1>3, <2>1, <2>2, LinkOf DEF Reachable
<1>4. ASSUME b \in S, Negative(m, b)
      PROVE  link(m, b) \in Int /\ link(m, b) < 0
  BY <1>4, LinkOf DEF WellLinked
<1> QED BY <1>1, <1>2, <1>3, <1>4

LEMMA FirstReached ==
  ASSUME NEW m, NEW S, WellLinked(m, S)
  PROVE  FREE_MEM \in Reachable(m, S)
<1>1. FREE_MEM \in S /\ \A c \in S : c \in Int /\ FREE_MEM <= c
  BY HeapRange DEF WellLinked
<1>2. FREE_MEM \in Int
  BY HeapRange
<1> QED BY <1>1, <1>2 DEF Reachable, Ends

\* The walk of Blocks, with its places on the way.
Walked(m, f) == /\ f[0] = FREE_MEM
                /\ \A n \in 1..(MaxCalls + 1) :
                     f[n] = IF f[n - 1] \in DOMAIN m THEN link(m, f[n - 1]) ELSE f[n - 1]
Places(m, S) == Reachable(m, S) \cup {b \in Int : b < 0}

LEMMA BlocksWalked ==
  ASSUME NEW m, NEW S, WellLinked(m, S)
  PROVE  \E f \in [0..(MaxCalls + 1) -> Places(m, S)] :
           Walked(m, f) /\ Blocks(m) = {f[n] : n \in 0..(MaxCalls + 1)}
<1> DEFINE N == MaxCalls + 1
           V == Places(m, S)
           to(b) == IF b \in DOMAIN m THEN link(m, b) ELSE b
           step == [p \in Nat \X V |-> to(p[2])]
           body(f) == [n \in 0..N |-> IF n = 0 THEN FREE_MEM
                                      ELSE LET b == f[n - 1]
                                           IN IF b \in DOMAIN m THEN link(m, b) ELSE b]
           chain == CHOOSE f : f = body(f)
<1>1. N \in Nat
  BY CallsAssumption
<1>2. ASSUME NEW b \in V PROVE to(b) \in V
  <2>1. CASE b \in Int /\ b < 0
    <3>1. b \notin DOMAIN m
      BY <2>1, HeapRange DEF WellLinked, IsMem
    <3> QED BY <3>1
  <2>2. CASE b \in Reachable(m, S)
    BY <2>2, OneLink DEF Places
  <2> QED BY <2>1, <2>2 DEF Places
<1>3. FREE_MEM \in V
  BY FirstReached DEF Places
<1> HIDE DEF V, to
<1>4. step \in [Nat \X V -> V]
  BY <1>2
<1>5. PICK g \in [0..N -> V] : Iteration(g, FREE_MEM, step, N)
  <2> HIDE DEF N, step
  <2> QED BY <1>1, <1>3, <1>4, Iterated
<1>6. ASSUME NEW n \in 1..N PROVE g[n] = to(g[n - 1])
  <2>1. g[n - 1] \in V /\ n \in Nat
    BY <1>1
  <2> QED BY <1>5, <2>1 DEF Iteration
<1>7. g = body(g)
  BY <1>1, <1>5, <1>6 DEF to, Iteration
<1>8. chain = body(chain)
  <2> HIDE DEF body
  <2> QED BY <1>7, Zenon
<1>9. Blocks(m) = {chain[n] : n \in 0..N}
  BY DEF Blocks
<1> HIDE DEF chain
<1>10. /\ chain[0] = FREE_MEM
       /\ \A n \in 1..N : chain[n] = to(chain[n - 1])
  BY <1>1, <1>8 DEF to
<1>11. \A n \in 0..N : chain[n] \in V
  <2> DEFINE I == {n \in Nat : n <= N => chain[n] \in V}
  <2>1. 0 \in I
    BY <1>3, <1>10
  <2>2. ASSUME NEW n \in Nat, n \in I PROVE n + 1 \in I
    <3> SUFFICES ASSUME n + 1 <= N PROVE chain[n + 1] \in V
      OBVIOUS
    <3>1. n + 1 \in 1..N /\ (n + 1) - 1 = n /\ n <= N
      BY <1>1
    <3>2. chain[n] \in V
      BY <2>2, <3>1
    <3> QED BY <1>2, <1>10, <3>1, <3>2
  <2> HIDE DEF I
  <2>3. Nat \subseteq I
    BY <2>1, <2>2, NatInduct
  <2> QED BY <1>1, <2>3 DEF I
<1>12. chain \in [0..N -> V]
  BY <1>8, <1>11
<1> QED BY <1>9, <1>10, <1>12 DEF Walked, V, to

\* The blocks below a place.
Below(S, x) == {s \in S : s < x}

\* As long as the walk is in the heap it has passed one block per step.
LEMMA Passed ==
  ASSUME NEW m, NEW S, WellLinked(m, S), IsFiniteSet(S),
         NEW f \in [0..(MaxCalls + 1) -> Places(m, S)], Walked(m, f),
         NEW k \in 0..(MaxCalls + 1), f[k] \in S
  PROVE  Cardinality(Below(S, f[k])) = k
<1> DEFINE N == MaxCalls + 1
           I == {n \in Nat : n <= N /\ f[n] \in S => Cardinality(Below(S, f[n])) = n}
<1>0. N \in Nat
  BY CallsAssumption
<1>1. \A s \in S : s \in Int /\ FREE_MEM <= s
  BY HeapRange DEF WellLinked
<1>2. 0 \in I
  <2>1. Below(S, f[0]) = {}
    BY <1>1, HeapRange DEF Walked, Below
  <2> QED BY <2>1, FS_EmptySet
<1>3. ASSUME NEW n \in Nat, n \in I PROVE n + 1 \in I
  <2> SUFFICES ASSUME n + 1 <= N, f[n + 1] \in S
               PROVE  Cardinality(Below(S, f[n + 1])) = n + 1
    OBVIOUS
  <2>1. n + 1 \in 1..N /\ n + 1 - 1 = n /\ n \in 0..N
    BY <1>0
  <2>2. f[n + 1] = IF f[n] \in DOMAIN m THEN link(m, f[n]) ELSE f[n]
    BY <2>1 DEF Walked
  <2>3. f[n] \in Places(m, S) /\ 0 <= f[n + 1]
    BY <2>1, <1>1, HeapRange
  <2>4. f[n] \in Reachable(m, S)
    <3>1. ASSUME f[n] \in Int, f[n] < 0 PROVE FALSE
      <4>1. f[n] \notin DOMAIN m
        BY <3>1, HeapRange DEF WellLinked, IsMem
      <4> QED BY <2>2, <2>3, <3>1, <4>1
    <3> QED BY <2>3, <3>1 DEF Places
  <2>5. f[n] \in S /\ f[n] \in DOMAIN m
    <3>1. f[n] = MAX_MEM => f[n] \notin DOMAIN m /\ f[n + 1] = MAX_MEM
      BY <2>2, <2>4, OneLink
    <3>2. f[n] # MAX_MEM
      BY <3>1, HeapRange DEF WellLinked
    <3> QED BY <2>4, <3>2, OneLink
  <2>6. f[n + 1] = succ(m, f[n])
    <3>1. ~Negative(m, f[n])
      BY <2>2, <2>3, <2>4, <2>5, OneLink
    <3> QED BY <2>2, <2>4, <2>5, <3>1, OneLink
  <2>7. Below(S, f[n + 1]) = Below(S, f[n]) \cup {f[n]}
    <3>1. ASSUME NEW s \in S PROVE s < f[n + 1] <=> s < f[n] \/ s = f[n]
      <4>1. s \in Int /\ f[n] \in Int /\ f[n + 1] \in Int /\ f[n] < f[n + 1]
        BY <1>1, <2>5, <2>6 DEF WellLinked
      <4>2. f[n] < s => f[n + 1] <= s
        BY <2>5, <2>6 DEF WellLinked
      <4> QED BY <4>1, <4>2
    <3> QED BY <2>5, <3>1 DEF Below
  <2>8. Cardinality(Below(S, f[n])) = n
    BY <1>3, <2>1, <2>5
  <2>9. IsFiniteSet(Below(S, f[n])) /\ f[n] \notin Below(S, f[n])
    BY <1>1, <2>5, FS_Subset DEF Below
  <2> QED BY <2>7, <2>8, <2>9, FS_AddElement
<1> HIDE DEF I
<1>4. Nat \subseteq I
  BY <1>2, <1>3, NatInduct
<1> QED BY <1>0, <1>4 DEF I

\* The blocks a walk finds are those that are reachable, when it is long
\* enough for them.
LEMMA BlocksAre ==
  ASSUME NEW m, NEW S, WellLinked(m, S), Few(S, MaxCalls + 1)
  PROVE  /\ Reachable(m, S) \subseteq Blocks(m)
         /\ \A b \in Blocks(m) : b \in Reachable(m, S) \/ (b \in Int /\ b < 0)
<1> DEFINE N == MaxCalls + 1
<1>0. N \in Nat
  BY CallsAssumption
<1>1. PICK f \in [0..N -> Places(m, S)] :
        Walked(m, f) /\ Blocks(m) = {f[n] : n \in 0..N}
  BY BlocksWalked
<1>2. \A b \in Blocks(m) : b \in Reachable(m, S) \/ (b \in Int /\ b < 0)
  BY <1>1 DEF Places
<1>3. \A c \in Ends(S) : c \in Nat
  BY EndsRange, HeapRange
<1>4. Reachable(m, S) \subseteq Blocks(m)
  <2> DEFINE U == Reachable(m, S) \ Blocks(m)
  <2> SUFFICES ASSUME U # {} PROVE FALSE
    OBVIOUS
  <2>1. PICK t \in U : \A u \in U : t <= u
    BY <1>3, NatMin DEF Reachable
  <2>2. t # FREE_MEM
    BY <1>0, <1>1 DEF Walked
  <2>3. PICK p \in S : succ(m, p) = t
    BY <2>1, <2>2 DEF Reachable, WellLinked
  <2>4. p \in Nat /\ t \in Nat /\ p < t
    BY <1>3, <2>1, <2>3 DEF WellLinked, Ends, Reachable
  <2>5. p \in Reachable(m, S) /\ ~Negative(m, p)
    <3>1. \A c \in S : c \in Nat /\ (c < p => c < t)
      BY <1>3, <2>4 DEF Ends
    <3> QED BY <2>1, <2>3, <2>4, <3>1 DEF Reachable, Ends
  <2>6. PICK k \in 0..N : f[k] = p
    BY <1>1, <2>1, <2>4, <2>5
  <2>7. k < N
    <3> DEFINE B == Below(S, p)
    <3>1. IsFiniteSet(S) /\ IsFiniteSet(S \ {p}) /\ Cardinality(S \ {p}) = Cardinality(S) - 1
      BY FS_RemoveElement DEF Few
    <3>2. Cardinality(B) = k
      <4>1. /\ k \in 0..(MaxCalls + 1) /\ f[k] \in S /\ IsFiniteSet(S)
            /\ f \in [0..(MaxCalls + 1) -> Places(m, S)] /\ Walked(m, f)
        BY <1>1, <2>6, <3>1
      <4>2. Cardinality(Below(S, f[k])) = k
        BY <4>1, Passed
      <4> QED BY <2>6, <4>2
    <3>3. B \subseteq S \ {p}
      BY <2>4 DEF Below
    <3> HIDE DEF B
    <3>4. Cardinality(B) <= Cardinality(S) - 1
      BY <3>1, <3>3, FS_Subset
    <3>5. Cardinality(S) \in Nat /\ Cardinality(S) <= N
      BY <3>1, FS_CardinalityType DEF Few
    <3> QED BY <1>0, <3>2, <3>4, <3>5
  <2>8. f[k + 1] = t
    <3>1. k + 1 \in 1..N /\ (k + 1) - 1 = k
      BY <1>0, <2>7
    <3>2. f[k + 1] = IF p \in DOMAIN m THEN link(m, p) ELSE p
      BY <1>1, <2>6, <3>1 DEF Walked
    <3> QED BY <2>3, <2>5, <3>2, OneLink DEF WellLinked, Headed
  <2>9. t \in Blocks(m)
    BY <1>0, <1>1, <2>7, <2>8
  <2> QED BY <2>1, <2>9
<1> QED BY <1>2, <1>4
-----------------------------------------------------------------------------
(* What the writes of a call and of n_free do to the chain.                *)

\* Two headers do not overlap, and a link leads no further than a later block.
LEMMA Apart ==
  ASSUME NEW m, NEW S, WellLinked(m, S), NEW b \in S
  PROVE  /\ b \in Int /\ FREE_MEM <= b /\ b + 2 <= MAX_MEM
         /\ succ(m, b) \in Int /\ b + 2 <= succ(m, b) /\ succ(m, b) <= MAX_MEM
         /\ \A c \in S : /\ c # b => b # c + 1 /\ b + 1 # c /\ b + 1 # c + 1
                         /\ c < b => succ(m, c) <= b /\ c + 2 <= b
         /\ \A c \in Ends(S) : b < c => succ(m, b) <= c /\ b + 2 <= c
<1>1. \A c \in Ends(S) : c \in Int /\ FREE_MEM <= c /\ c <= MAX_MEM
  BY EndsRange
<1>2. \A c \in S : c \in Int /\ succ(m, c) \in Int /\ c + 2 <= succ(m, c) /\ succ(m, c) <= MAX_MEM
  BY <1>1, LinkOf DEF WellLinked, Ends
<1>3. MAX_MEM \in Int
  BY HeapRange
<1>4. b + 2 <= MAX_MEM /\ FREE_MEM <= b
  BY <1>1, <1>2, <1>3 DEF Ends
<1>5. ASSUME NEW c \in S, NEW d \in S, c < d PROVE succ(m, c) <= d /\ c + 2 <= d
  BY <1>2, <1>5 DEF WellLinked
<1>6. ASSUME NEW c \in Ends(S), b < c PROVE succ(m, b) <= c /\ b + 2 <= c
  <2>1. CASE c \in S
    BY <1>5, <1>6, <2>1
  <2>2. CASE c = MAX_MEM
    BY <1>2, <1>4, <2>2
  <2> QED BY <2>1, <2>2 DEF Ends
<1>7. ASSUME NEW c \in S, c # b PROVE b # c + 1 /\ b + 1 # c /\ b + 1 # c + 1
  <2>1. c \in Int /\ b \in Int
    BY <1>2
  <2>2. CASE c < b
    BY <1>5, <2>1, <2>2
  <2>3. CASE b < c
    BY <1>5, <2>1, <2>3
  <2> QED BY <1>7, <2>1, <2>2, <2>3
<1> QED BY <1>2, <1>4, <1>5, <1>6, <1>7

\* The blocks from i to j become one.
Spared(S, i, j) == {b \in S : b <= i \/ j <= b}

LEMMA Joined ==
  ASSUME NEW m, NEW S, WellLinked(m, S), NEW i \in S, NEW j \in Ends(S), i < j,
         NEW used \in BOOLEAN
  PROVE  LET n == Header(m, i, j, used)
             T == Spared(S, i, j)
         IN /\ WellLinked(n, T)
            /\ i \in T /\ j \in Ends(T) /\ succ(n, i) = j /\ (Used(n, i) <=> used)
            /\ DOMAIN n = DOMAIN m
            /\ \A b \in T : b # i => b \in S /\ n[b] = m[b] /\ n[b + 1] = m[b + 1]
<1> DEFINE n == Header(m, i, j, used)
           T == Spared(S, i, j)
<1>1. \A c \in Ends(S) : c \in Int /\ FREE_MEM <= c /\ c <= MAX_MEM
  BY EndsRange
<1>2. i \in Int /\ j \in Int /\ i + 2 <= j /\ Headed(m, i)
  BY <1>1, Apart DEF Ends, WellLinked
<1>3. /\ DOMAIN n = DOMAIN m \cup {i, i + 1}
      /\ \A a \in DOMAIN m \ {i, i + 1} : n[a] = m[a]
      /\ Headed(n, i) /\ succ(n, i) = j /\ (Used(n, i) <=> used)
  <2>1. FREE_MEM <= j /\ j <= MAX_MEM
    BY <1>1
  <2>2. Written(n, m, i, j, used)
    BY <1>2, <2>1, HeaderWritten
  <2> HIDE DEF n
  <2> QED BY <2>2 DEF Written
<1>4. DOMAIN n = DOMAIN m
  BY <1>2, <1>3 DEF Headed
<1> HIDE DEF n
<1>5. ASSUME NEW b \in T, b # i
      PROVE  /\ b \in S /\ n[b] = m[b] /\ n[b + 1] = m[b + 1]
             /\ Headed(n, b) /\ succ(n, b) = succ(m, b)
  <2>1. b \in S /\ Headed(m, b)
    BY DEF Spared, WellLinked
  <2>2. b \in Int /\ b # i + 1 /\ b + 1 # i /\ b + 1 # i + 1
    BY <1>5, <2>1, Apart
  <2>3. n[b] = m[b] /\ n[b + 1] = m[b + 1] /\ b \in DOMAIN n /\ b + 1 \in DOMAIN n
    BY <1>3, <1>4, <1>5, <2>1, <2>2 DEF Headed
  <2> QED BY <2>1, <2>3, SameHeader
<1>6. i \in T /\ FREE_MEM \in T /\ j \in Ends(T) /\ T \subseteq Heap
  <2>1. FREE_MEM \in S /\ FREE_MEM <= i /\ S \subseteq Heap
    BY Apart DEF WellLinked
  <2>2. T \subseteq S /\ i \in T /\ FREE_MEM \in T
    BY <1>2, <2>1 DEF Spared
  <2>3. j \in S => j \in T
    BY <1>2 DEF Spared
  <2> QED BY <2>1, <2>2, <2>3 DEF Ends
<1>7. ASSUME NEW b \in T, b # i PROVE succ(n, b) \in Ends(T) /\ b + 2 <= succ(n, b)
  <2>1. b \in S /\ succ(n, b) = succ(m, b) /\ (b <= i \/ j <= b)
    BY <1>5, <1>7 DEF Spared
  <2>2. succ(m, b) \in Ends(S) /\ b \in Int /\ succ(m, b) \in Int /\ b + 2 <= succ(m, b)
    BY <2>1, Apart DEF WellLinked
  <2>3. succ(m, b) <= i \/ j <= succ(m, b)
    <3>1. CASE b < i
      BY <2>1, <3>1, Apart
    <3>2. CASE j <= b
      BY <1>2, <2>2, <3>2
    <3> QED BY <1>2, <1>7, <2>1, <2>2, <3>1, <3>2
  <2> QED BY <2>1, <2>2, <2>3 DEF Ends, Spared
<1>8. ASSUME NEW b \in T, NEW c \in T, b < c PROVE succ(n, b) <= c
  <2>1. b \in S /\ c \in S /\ b \in Int /\ c \in Int
    BY <1>1 DEF Spared, Ends
  <2>2. CASE b = i
    BY <1>2, <1>3, <1>8, <2>1, <2>2 DEF Spared
  <2>3. CASE b # i
    BY <1>5, <1>8, <2>1, <2>3, Apart
  <2> QED BY <2>2, <2>3
<1>9. ASSUME NEW c \in Ends(T), c # FREE_MEM PROVE \E b \in T : succ(n, b) = c
  <2>1. c \in Ends(S) /\ c \in Int /\ (c <= i \/ j <= c)
    BY <1>1, <1>2 DEF Ends, Spared
  <2>2. PICK b \in S : succ(m, b) = c
    BY <1>9, <2>1 DEF WellLinked
  <2>3. b \in Int /\ b < c
    BY <2>2, Apart
  <2>4. CASE i <= b /\ b < j
    <3>1. c <= j
      BY <2>2, <2>4, Apart
    <3>2. c = j
      BY <1>2, <2>1, <2>3, <2>4, <3>1
    <3> QED BY <1>3, <1>6, <3>2
  <2>5. CASE b < i \/ j <= b
    <3>1. b \in T /\ b # i
      BY <1>2, <2>3, <2>5 DEF Spared
    <3> QED BY <1>5, <2>2, <3>1
  <2> QED BY <1>2, <2>3, <2>4, <2>5
<1>10. IsMem(n)
  BY <1>3, <1>4 DEF IsMem, WellLinked
<1> HIDE DEF T
<1>11. \A b \in T : Headed(n, b) /\ b + 2 <= succ(n, b) /\ succ(n, b) \in Ends(T)
  BY <1>2, <1>3, <1>5, <1>6, <1>7
<1>12. WellLinked(n, T)
  BY <1>6, <1>8, <1>9, <1>10, <1>11 DEF WellLinked
<1> QED BY <1>3, <1>4, <1>5, <1>6, <1>12 DEF n, T

\* The headers of S say the same in n as in m.
Keeps(n, m, S) == \A b \in S : /\ b \in DOMAIN n /\ b + 1 \in DOMAIN n
                               /\ n[b] = m[b] /\ n[b + 1] = m[b + 1]

LEMMA KeepsLinks ==
  ASSUME NEW m, NEW S, WellLinked(m, S), NEW n, IsMem(n), Keeps(n, m, S)
  PROVE  /\ WellLinked(n, S)
         /\ \A b \in S : /\ succ(n, b) = succ(m, b) /\ (Used(n, b) <=> Used(m, b))
                         /\ (Negative(n, b) <=> Negative(m, b))
<1>1. ASSUME NEW b \in S
      PROVE  /\ Headed(n, b) /\ succ(n, b) = succ(m, b)
             /\ (Used(n, b) <=> Used(m, b)) /\ (Negative(n, b) <=> Negative(m, b))
  <2>1. Headed(m, b)
    BY DEF WellLinked
  <2> QED BY <2>1, SameHeader DEF Keeps
<1> QED BY <1>1 DEF WellLinked

\* A block's own bytes go to the program.
LEMMA HandedLinked ==
  ASSUME NEW m, NEW S, WellLinked(m, S), NEW i \in S
  PROVE  LET n == Handed(m, i, succ(m, i))
         IN IsMem(n) /\ Keeps(n, m, S)
<1> DEFINE j == succ(m, i)
           n == Handed(m, i, j)
<1>1. /\ DOMAIN n = {b \in DOMAIN m : b < i + 2 \/ b >= j}
      /\ \A a \in DOMAIN n : n[a] = m[a]
  <2>1. i \in Int /\ j \in Int
    BY Apart
  <2> HIDE DEF j
  <2> QED BY <2>1, HandedOut
<1> HIDE DEF n
<1>2. ASSUME NEW b \in S PROVE b \in DOMAIN n /\ b + 1 \in DOMAIN n
  <2>1. b \in DOMAIN m /\ b + 1 \in DOMAIN m
    BY DEF WellLinked, Headed
  <2>2. b \in Int /\ i \in Int /\ j \in Int /\ (b < i \/ b = i \/ b >= j)
    <3>1. b \in Int /\ i \in Int /\ j \in Int
      BY Apart
    <3>2. i < b => j <= b
      BY Apart DEF Ends
    <3> QED BY <3>1, <3>2
  <2>3. (b < i + 2 /\ b + 1 < i + 2) \/ (b >= j /\ b + 1 >= j)
    BY <2>2
  <2> QED BY <1>1, <2>1, <2>3
<1>3. IsMem(n)
  BY <1>1 DEF IsMem, WellLinked
<1>4. Keeps(n, m, S)
  BY <1>1, <1>2 DEF Keeps
<1> QED BY <1>3, <1>4 DEF n

\* A block is cut in two at k.
LEMMA Cut ==
  ASSUME NEW m, NEW S, WellLinked(m, S), NEW i \in S, NEW k \in Int,
         i + 2 <= k, k + 2 <= succ(m, i)
  PROVE  LET n == Header(Header(m, i, k, TRUE), k, succ(m, i), FALSE)
         IN /\ WellLinked(n, S \cup {k})
            /\ succ(n, i) = k /\ Used(n, i) /\ ~Used(n, k)
            /\ Keeps(n, m, S \ {i})
<1> DEFINE j == succ(m, i)
           h == Header(m, i, k, TRUE)
           n == Header(h, k, j, FALSE)
           T == S \cup {k}
<1>1. /\ i \in Int /\ j \in Int /\ FREE_MEM <= i /\ j <= MAX_MEM /\ i + 2 <= j
      /\ FREE_MEM \in Int /\ MAX_MEM \in Int
  BY Apart, HeapRange
<1>2. Written(h, m, i, k, TRUE)
  <2>1. FREE_MEM <= k /\ k <= MAX_MEM
    BY <1>1
  <2> QED BY <1>1, <2>1, HeaderWritten
<1> HIDE DEF h
<1>3. Written(n, h, k, j, FALSE)
  <2>1. FREE_MEM <= j /\ j <= MAX_MEM
    BY <1>1
  <2> QED BY <1>1, <2>1, HeaderWritten
<1> HIDE DEF n
<1>4. Headed(n, i) /\ succ(n, i) = k /\ Used(n, i)
  <2>1. i # k /\ i # k + 1 /\ i + 1 # k /\ i + 1 # k + 1
    BY <1>1
  <2>2. Headed(h, i) /\ succ(h, i) = k /\ Used(h, i)
    BY <1>2 DEF Written
  <2>3. /\ i \in DOMAIN n /\ i + 1 \in DOMAIN n
        /\ n[i] = h[i] /\ n[i + 1] = h[i + 1]
    BY <1>3, <2>1, <2>2 DEF Written, Headed
  <2> QED BY <2>2, <2>3, SameHeader
<1>5. Headed(n, k) /\ succ(n, k) = j /\ ~Used(n, k)
  BY <1>3 DEF Written
<1>6. ASSUME NEW b \in S, b # i
      PROVE  /\ b \in DOMAIN n /\ b + 1 \in DOMAIN n
             /\ n[b] = m[b] /\ n[b + 1] = m[b + 1]
             /\ Headed(n, b) /\ succ(n, b) = succ(m, b)
             /\ b \in Int /\ (b + 2 <= i \/ j <= b)
  <2>1. Headed(m, b)
    BY DEF WellLinked
  <2>2. b \in Int /\ (b + 2 <= i \/ j <= b)
    BY <1>1, <1>6, Apart DEF Ends
  <2>3. /\ b # i /\ b # i + 1 /\ b + 1 # i /\ b + 1 # i + 1
        /\ b # k /\ b # k + 1 /\ b + 1 # k /\ b + 1 # k + 1
    BY <1>1, <2>2
  <2>4. /\ b \in DOMAIN h /\ b + 1 \in DOMAIN h
        /\ h[b] = m[b] /\ h[b + 1] = m[b + 1]
    BY <1>2, <2>1, <2>3 DEF Written, Headed
  <2>5. /\ b \in DOMAIN n /\ b + 1 \in DOMAIN n
        /\ n[b] = m[b] /\ n[b + 1] = m[b + 1]
    BY <1>3, <2>3, <2>4 DEF Written
  <2> QED BY <2>1, <2>2, <2>5, SameHeader
<1>7. IsMem(n) /\ T \subseteq Heap /\ FREE_MEM \in T
  <2>1. k \in Heap /\ k + 1 \in Heap
    BY <1>1, HeapRange
  <2>2. S \subseteq Heap /\ FREE_MEM \in S /\ DOMAIN m \subseteq Heap
        /\ i \in DOMAIN m /\ i + 1 \in DOMAIN m
    BY DEF WellLinked, IsMem, Headed
  <2> QED BY <1>2, <1>3, <2>1, <2>2 DEF Written, IsMem
<1>8. ASSUME NEW b \in T
      PROVE  Headed(n, b) /\ b + 2 <= succ(n, b) /\ succ(n, b) \in Ends(T)
  <2>1. CASE b = i
    BY <1>4, <2>1 DEF Ends
  <2>2. CASE b = k
    BY <1>5, <2>2 DEF Ends, WellLinked
  <2>3. CASE b \in S /\ b # i
    BY <1>6, <2>3 DEF Ends, WellLinked
  <2> QED BY <2>1, <2>2, <2>3
<1>9. ASSUME NEW b \in T, NEW c \in T, b < c PROVE succ(n, b) <= c
  <2>1. c = k \/ c = i \/ (c \in S /\ c \in Int /\ (c + 2 <= i \/ j <= c))
    BY <1>6
  <2>2. CASE b = i
    BY <1>1, <1>4, <1>9, <2>1, <2>2
  <2>3. CASE b = k
    BY <1>1, <1>5, <1>9, <2>1, <2>3
  <2>4. CASE b \in S /\ b # i
    <3>1. succ(n, b) = succ(m, b) /\ b \in Int /\ (b + 2 <= i \/ j <= b)
      BY <1>6, <2>4
    <3>2. c \in S => succ(m, b) <= c
      BY <1>9, <2>4 DEF WellLinked
    <3>3. c = k => b < i
      BY <1>1, <1>9, <3>1
    <3>4. b < i => succ(m, b) <= i /\ succ(m, b) \in Int
      BY <2>4, Apart
    <3> QED BY <1>1, <2>1, <3>1, <3>2, <3>3, <3>4
  <2> QED BY <2>2, <2>3, <2>4
<1>10. ASSUME NEW c \in Ends(T), c # FREE_MEM PROVE \E b \in T : succ(n, b) = c
  <2>1. CASE c = k
    BY <1>4, <2>1
  <2>2. CASE c # k
    <3>1. PICK b \in S : succ(m, b) = c
      BY <1>10, <2>2 DEF WellLinked, Ends
    <3>2. CASE b = i
      BY <1>5, <3>1, <3>2
    <3>3. CASE b # i
      BY <1>6, <3>1, <3>3
    <3> QED BY <3>2, <3>3
  <2> QED BY <2>1, <2>2
<1> HIDE DEF T
<1>11. WellLinked(n, T)
  BY <1>7, <1>8, <1>9, <1>10 DEF WellLinked
<1>12. Keeps(n, m, S \ {i})
  BY <1>6 DEF Keeps
<1> QED BY <1>4, <1>5, <1>11, <1>12 DEF n, h, T

\* A block is freed: its flag goes, and the link stays.
LEMMA Freed ==
  ASSUME NEW m, NEW S, WellLinked(m, S), NEW i \in S
  PROVE  LET n == [m EXCEPT ![i + 1] = @ % 128]
         IN WellLinked(n, S) /\ ~Used(n, i) /\ Keeps(n, m, S \ {i})
<1> DEFINE n == [m EXCEPT ![i + 1] = @ % 128]
<1>1. Headed(m, i) /\ i \in Int
  BY Apart DEF WellLinked
<1>2. /\ DOMAIN n = DOMAIN m /\ n[i + 1] = m[i + 1] % 128
      /\ \A a \in DOMAIN m : a # i + 1 => n[a] = m[a]
  BY <1>1 DEF Headed
<1> HIDE DEF n
<1>3. m[i + 1] \in Int /\ 0 <= m[i + 1] /\ m[i + 1] <= 255
  BY <1>1, ByteRange DEF Headed
<1>4. /\ m[i + 1] % 128 \in Int /\ 0 <= m[i + 1] % 128 /\ m[i + 1] % 128 < 128
      /\ (m[i + 1] % 128) % 128 = m[i + 1] % 128
  BY <1>3
<1>5. m[i + 1] % 128 \in Byte
  BY <1>4, ByteRange
<1>6. /\ i \in DOMAIN m /\ i + 1 \in DOMAIN m /\ m[i] \in Byte /\ n[i] = m[i]
  BY <1>1, <1>2 DEF Headed
<1>7. Headed(n, i) /\ succ(n, i) = succ(m, i) /\ ~Used(n, i)
  <2>1. Headed(n, i)
    BY <1>2, <1>5, <1>6 DEF Headed
  <2>2. succ(n, i) = succ(m, i)
    BY <1>2, <1>4, <1>6 DEF succ
  <2> QED BY <2>1, <2>2, <1>2, <1>4, LinkOf
<1>8. ASSUME NEW b \in S, b # i
      PROVE  /\ b \in DOMAIN n /\ b + 1 \in DOMAIN n
             /\ n[b] = m[b] /\ n[b + 1] = m[b + 1]
             /\ Headed(n, b) /\ succ(n, b) = succ(m, b)
  <2>1. Headed(m, b)
    BY DEF WellLinked
  <2>2. b # i + 1 /\ b + 1 # i + 1
    BY <1>8, Apart
  <2>3. /\ b \in DOMAIN n /\ b + 1 \in DOMAIN n
        /\ n[b] = m[b] /\ n[b + 1] = m[b + 1]
    BY <1>2, <2>1, <2>2 DEF Headed
  <2> QED BY <2>1, <2>3, SameHeader
<1>9. \A b \in S : Headed(n, b) /\ succ(n, b) = succ(m, b)
  BY <1>7, <1>8
<1>10. WellLinked(n, S)
  BY <1>2, <1>9 DEF WellLinked, IsMem
<1>11. Keeps(n, m, S \ {i})
  BY <1>8 DEF Keeps
<1> QED BY <1>7, <1>10, <1>11 DEF n

\* A header is written over.
LEMMA WrittenOver ==
  ASSUME NEW m, NEW i, i \in DOMAIN m, i + 1 \in DOMAIN m, NEW j, NEW k, NEW u, NEW v
  PROVE  Header(Header(m, i, j, u), i, k, v) = Header(m, i, k, v)
<1> DEFINE h == Header(m, i, j, u)
<1>1. DOMAIN h = DOMAIN m /\ \A a \in DOMAIN m : a # i /\ a # i + 1 => h[a] = m[a]
  BY DEF Header
<1> HIDE DEF h
<1>2. Header(h, i, k, v) = Header(m, i, k, v)
  BY <1>1 DEF Header
<1> QED BY <1>2 DEF h

\* What Claim does to the chain: the run becomes one used block, and what is
\* left of it, when that is enough, a free one behind.
Claims(n, m, S, T, i, j, sz) ==
  /\ WellLinked(n, T) /\ Spared(S, i, j) \subseteq T
  /\ i \in T /\ Used(n, i) /\ succ(n, i) - (i + 2 + sz) \in 0..3
  /\ Keeps(n, m, Spared(S, i, j) \ {i})
  /\ \A b \in T \ Spared(S, i, j) : ~Used(n, b)
  /\ \E k : T \subseteq S \cup {k}

LEMMA Claimed ==
  ASSUME NEW m, NEW S, WellLinked(m, S), NEW i \in S, NEW j \in Ends(S),
         NEW sz \in Nat, sz + 2 < j - i
  PROVE  \E T \in SUBSET Heap : Claims(Claim(m, i, j, sz), m, S, T, i, j, sz)
<1> DEFINE k == i + sz + 2
           m1 == Header(m, i, j, TRUE)
           W == Spared(S, i, j)
           n == Claim(m, i, j, sz)
<1>1. i \in Int /\ j \in Int /\ i < j
  BY EndsRange DEF Ends
<1>2. /\ WellLinked(m1, W) /\ i \in W /\ succ(m1, i) = j /\ Used(m1, i)
      /\ Keeps(m1, m, W \ {i})
  <2>1. ASSUME NEW u \in BOOLEAN
        PROVE  LET h == Header(m, i, j, u)
               IN /\ WellLinked(h, W) /\ i \in W /\ succ(h, i) = j /\ (Used(h, i) <=> u)
                  /\ \A b \in W : b # i => b \in S /\ h[b] = m[b] /\ h[b + 1] = m[b + 1]
    BY <1>1, Joined
  <2>2. /\ WellLinked(m1, W) /\ i \in W /\ succ(m1, i) = j /\ (Used(m1, i) <=> TRUE)
        /\ \A b \in W : b # i => b \in S /\ m1[b] = m[b] /\ m1[b + 1] = m[b + 1]
    BY <2>1, Zenon
  <2> HIDE DEF m1, W
  <2>3. Keeps(m1, m, W \ {i})
    BY <2>2 DEF Keeps, WellLinked, Headed
  <2> QED BY <2>2, <2>3
<1>3. W \subseteq S
  BY DEF Spared
<1>4. CASE sz + 4 + MIN_ALLOC < j - i
  <2> DEFINE c == Header(Header(m, i, k, TRUE), k, j, FALSE)
             d == Header(Header(m1, i, k, TRUE), k, succ(m1, i), FALSE)
             T == W \cup {k}
  <2>1. n = Handed(c, i, k)
    BY <1>4 DEF Claim
  <2>2. c = d
    <3>1. i \in DOMAIN m /\ i + 1 \in DOMAIN m
      BY DEF WellLinked, Headed
    <3>2. Header(m1, i, k, TRUE) = Header(m, i, k, TRUE)
      <4> HIDE DEF k
      <4>1. \A u, v : Header(Header(m, i, j, u), i, k, v) = Header(m, i, k, v)
        BY <3>1, WrittenOver
      <4> QED BY <4>1, Zenon
    <3> HIDE DEF m1
    <3> QED BY <1>2, <3>2
  <2>3. /\ WellLinked(c, T) /\ succ(c, i) = k /\ Used(c, i) /\ ~Used(c, k)
        /\ Keeps(c, m1, W \ {i})
    <3> HIDE DEF m1, W, c
    <3>1. k \in Int /\ i + 2 <= k /\ k + 2 <= succ(m1, i)
      BY <1>1, <1>2, <1>4 DEF MIN_ALLOC
    <3> HIDE DEF k
    <3>2. WellLinked(d, T) /\ succ(d, i) = k /\ Used(d, i) /\ ~Used(d, k)
          /\ Keeps(d, m1, W \ {i})
      BY <1>2, <3>1, Cut
    <3> QED BY <2>2, <3>2
  <2> HIDE DEF c, d, m1, W, n
  <2>4. IsMem(n) /\ Keeps(n, c, T)
    BY <1>2, <2>1, <2>3, HandedLinked
  <2>5. /\ WellLinked(n, T)
        /\ \A b \in T : succ(n, b) = succ(c, b) /\ (Used(n, b) <=> Used(c, b))
    BY <2>3, <2>4, KeepsLinks
  <2>6. Keeps(n, m, W \ {i})
    BY <1>2, <2>3, <2>4 DEF Keeps
  <2>7. succ(n, i) - (i + 2 + sz) \in 0..3
    BY <1>1, <1>2, <2>3, <2>5
  <2>8. T \subseteq Heap
    BY <2>5 DEF WellLinked
  <2>9. \A b \in T \ W : ~Used(n, b)
    BY <2>3, <2>5
  <2>10. \E x : T \subseteq S \cup {x}
    BY <1>3
  <2>11. W \subseteq T /\ i \in T /\ Used(n, i)
    BY <1>2, <2>3, <2>5
  <2> HIDE DEF T, k
  <2>12. Claims(n, m, S, T, i, j, sz)
    BY <2>5, <2>6, <2>7, <2>9, <2>10, <2>11 DEF Claims, W
  <2> QED BY <2>8, <2>12 DEF n
<1>5. CASE ~(sz + 4 + MIN_ALLOC < j - i)
  <2>1. n = Handed(m1, i, succ(m1, i))
    <3>1. n = Handed(m1, i, j)
      BY <1>5 DEF Claim
    <3> QED BY <1>2, <3>1
  <2> HIDE DEF n, m1, W
  <2>2. IsMem(n) /\ Keeps(n, m1, W)
    BY <1>2, <2>1, HandedLinked
  <2>3. /\ WellLinked(n, W)
        /\ \A b \in W : succ(n, b) = succ(m1, b) /\ (Used(n, b) <=> Used(m1, b))
    BY <1>2, <2>2, KeepsLinks
  <2>4. Keeps(n, m, W \ {i})
    BY <1>2, <2>2 DEF Keeps
  <2>5. succ(n, i) - (i + 2 + sz) \in 0..3
    <3>1. sz + 5 >= j - i
      BY <1>1, <1>5 DEF MIN_ALLOC
    <3> QED BY <1>1, <1>2, <2>3, <3>1
  <2>6. W \subseteq Heap /\ W \subseteq S \cup {i}
    BY <1>3, <2>3 DEF WellLinked
  <2>7. Claims(n, m, S, W, i, j, sz)
    BY <1>2, <2>3, <2>4, <2>5, <2>6 DEF Claims, W
  <2> QED BY <2>6, <2>7 DEF n
<1> QED BY <1>4, <1>5
-----------------------------------------------------------------------------
(* The inductive invariant.                                                *)

TypeOK ==
  /\ signed \in BOOLEAN /\ calls \in 0..MaxCalls
  /\ at \in {"program", "search", "coalesce", "lost"}
  /\ walk = [sz |-> walk.sz, index |-> walk.index, next |-> walk.next,
              before |-> walk.before]
  /\ walk.sz \in Nat /\ walk.index \in Int /\ walk.next \in Int

\* The used blocks are the ones handed out, each with room for what was asked
\* and at most three bytes more.
Holds(m, S, l) == LET b == l[1] - 2
                  IN b \in S /\ Used(m, b) /\ succ(m, b) - (l[1] + l[2]) \in 0..3
Accounted(m, S, L) ==
  /\ L \subseteq Int \X Nat
  /\ \A l \in L : Holds(m, S, l)
  /\ \A b \in S : Used(m, b) => \E l \in L : l[1] = b + 2
  /\ \A k, l \in L : k[1] = l[1] => k = l

Bad(m, S) == \E b \in S : Negative(m, b)

\* Free blocks only, from i to j.
Free(m, S, i, j) == \A b \in S : i <= b /\ b < j => ~Used(m, b)

\* From index on nothing has changed since the call: S0 were the blocks then.
Ahead(m, S, before, S0, index) ==
  /\ WellLinked(before, S0) /\ S \subseteq S0
  /\ \A b \in S0 : index <= b =>
       b \in S /\ m[b] = before[b] /\ m[b + 1] = before[b + 1]

\* Below index there was no room.
Behind(before, S0, index, sz) ==
  \A b \in S0 : b < index =>
    /\ ~Negative(before, b)
    /\ \A j \in Ends(S0) : Free(before, S0, b, j) => j - b <= sz + 2

\* From index to next there are free blocks.
Taken(before, S0, index, next) ==
  /\ index < next /\ Free(before, S0, index, next)
  /\ \A b \in S0 : index <= b /\ b < next => ~Negative(before, b)

Searched(S, S0) ==
  /\ Ahead(mem, S, walk.before, S0, walk.index)
  /\ Behind(walk.before, S0, walk.index, walk.sz)

\* A place outside of the memory was read from a link.
Astray(S, i) == i < 0 /\ Bad(mem, S)

Inv(S, S0) ==
  /\ WellLinked(mem, S)
  /\ Accounted(mem, S, live)
  /\ Few(S, IF at = "program" THEN calls + 1 ELSE calls)
  /\ at \in {"search", "coalesce"} =>
       Few(S0, calls) /\ Accounted(walk.before, S0, live)
  /\ at = "search" => \/ walk.index \in Ends(S) /\ Searched(S, S0)
                      \/ Astray(S, walk.index)
  /\ at = "coalesce" =>
       /\ walk.index \in S /\ ~Used(mem, walk.index) /\ Searched(S, S0)
       /\ \/ walk.next \in Ends(S) /\ Taken(walk.before, S0, walk.index, walk.next)
          \/ Astray(S, walk.next)
  /\ at = "lost" => Bad(mem, S)

IInv == TypeOK /\ \E S, S0 \in SUBSET Heap : Inv(S, S0)

LEMMA InitInv == Init => IInv
<1> SUFFICES ASSUME Init PROVE IInv
  OBVIOUS
<1>1. /\ signed \in BOOLEAN /\ live = {} /\ at = "program" /\ calls = 0
      /\ walk = [sz |-> 0, index |-> FREE_MEM, next |-> FREE_MEM, before |-> NoBytes]
      /\ mem = Header(NoBytes, FREE_MEM, MAX_MEM, FALSE)
  BY SignednessAssumption DEF Init, NoWalk
<1>2. TypeOK
  BY <1>1, CallsAssumption, HeapRange DEF TypeOK
<1> DEFINE S == {FREE_MEM}
<1>3. FREE_MEM \in Int /\ MAX_MEM \in Int /\ FREE_MEM + 2 <= MAX_MEM /\ S \subseteq Heap
      /\ FREE_MEM + 1 \in Heap
  BY HeapRange
<1>4. Written(mem, NoBytes, FREE_MEM, MAX_MEM, FALSE)
  <2>1. FREE_MEM <= MAX_MEM /\ MAX_MEM <= MAX_MEM
    BY <1>3
  <2> QED BY <1>1, <1>3, <2>1, HeaderWritten
<1>5. /\ DOMAIN mem = {FREE_MEM, FREE_MEM + 1}
      /\ Headed(mem, FREE_MEM) /\ succ(mem, FREE_MEM) = MAX_MEM /\ ~Used(mem, FREE_MEM)
  BY <1>4 DEF Written, NoBytes
<1>6. WellLinked(mem, S)
  BY <1>3, <1>5 DEF WellLinked, IsMem, Ends
<1>7. Accounted(mem, S, live)
  BY <1>1, <1>5 DEF Accounted
<1>8. Few(S, calls + 1)
  <2>1. IsFiniteSet(S) /\ Cardinality(S) = 1
    BY FS_Singleton
  <2>2. calls + 1 = 1
    BY <1>1
  <2> HIDE DEF S
  <2> QED BY <2>1, <2>2 DEF Few
<1>9. Inv(S, S)
  BY <1>1, <1>6, <1>7, <1>8 DEF Inv
<1> QED BY <1>2, <1>3, <1>9 DEF IInv

\* Fewer blocks than before are few, and one more is one more.
LEMMA FewBlocks ==
  ASSUME NEW S, NEW n \in Int, Few(S, n), NEW T
  PROVE  /\ Few(S, n + 1)
         /\ T \subseteq S => Few(T, n)
         /\ \A k : T \subseteq S \cup {k} => Few(T, n + 1)
<1>1. IsFiniteSet(S) /\ Cardinality(S) \in Nat /\ Cardinality(S) <= n
  BY FS_CardinalityType DEF Few
<1>2. Few(S, n + 1)
  BY <1>1 DEF Few
<1>3. ASSUME T \subseteq S PROVE Few(T, n)
  <2>1. IsFiniteSet(T) /\ Cardinality(T) \in Nat /\ Cardinality(T) <= Cardinality(S)
    BY <1>1, <1>3, FS_Subset, FS_CardinalityType
  <2> QED BY <1>1, <2>1 DEF Few
<1>4. ASSUME NEW k, T \subseteq S \cup {k} PROVE Few(T, n + 1)
  <2>1. /\ IsFiniteSet(S \cup {k}) /\ Cardinality(S \cup {k}) \in Nat
        /\ Cardinality(S \cup {k}) <= Cardinality(S) + 1
    <3>1. IsFiniteSet(S \cup {k}) /\ Cardinality(S \cup {k}) \in Nat
      BY <1>1, FS_AddElement, FS_CardinalityType
    <3>2. k \notin S => Cardinality(S \cup {k}) = Cardinality(S) + 1
      BY <1>1, FS_AddElement
    <3>3. ASSUME k \in S PROVE Cardinality(S \cup {k}) = Cardinality(S)
      <4>1. S \cup {k} = S
        BY <3>3
      <4> QED BY <4>1
    <3> QED BY <1>1, <3>1, <3>2, <3>3
  <2>2. IsFiniteSet(T) /\ Cardinality(T) \in Nat /\ Cardinality(T) <= Cardinality(S \cup {k})
    BY <1>4, <2>1, FS_Subset, FS_CardinalityType
  <2> QED BY <1>1, <2>1, <2>2 DEF Few
<1> QED BY <1>2, <1>3, <1>4

LEMMA n_mallocInv ==
  ASSUME TypeOK, NEW S, NEW S0, Inv(S, S0), NEW sz \in Sizes, n_malloc(sz)
  PROVE  TypeOK' /\ Inv(S, S)'
<1>1. /\ calls < MaxCalls /\ calls' = calls + 1 /\ at = "program" /\ at' = "search"
      /\ walk' = [sz |-> sz, index |-> FREE_MEM, next |-> FREE_MEM, before |-> mem]
      /\ signed' = signed /\ mem' = mem /\ live' = live
  BY DEF n_malloc
<1>2. sz \in Nat /\ FREE_MEM \in Int
  BY SizesAssumption, HeapRange
<1>3. TypeOK'
  BY <1>1, <1>2, CallsAssumption DEF TypeOK
<1>4. WellLinked(mem, S) /\ Accounted(mem, S, live) /\ Few(S, calls + 1)
  BY <1>1 DEF Inv
<1>5. \A b \in S : ~(b < FREE_MEM)
  BY <1>4, EndsRange, HeapRange DEF Ends
<1>6. /\ walk'.index = FREE_MEM /\ walk'.sz = sz /\ walk'.before = mem
  BY <1>1
<1>7. Ahead(mem, S, mem, S, FREE_MEM) /\ FREE_MEM \in Ends(S)
  BY <1>4 DEF Ahead, Ends, WellLinked
<1>8. Behind(mem, S, FREE_MEM, sz)'
  BY <1>5 DEF Behind
<1> QED BY <1>1, <1>3, <1>4, <1>6, <1>7, <1>8
        DEF Inv, Searched, Accounted, Ahead, WellLinked

\* From index on, the blocks are those there were at the call.
LEMMA AheadSame ==
  ASSUME NEW m, NEW S, NEW before, NEW S0, NEW index \in Int,
         WellLinked(m, S), Ahead(m, S, before, S0, index),
         NEW b \in S0, index <= b
  PROVE  /\ b \in S /\ b \in Int /\ succ(before, b) = succ(m, b)
         /\ Used(before, b) <=> Used(m, b)
         /\ Negative(before, b) <=> Negative(m, b)
<1>1. /\ b \in S /\ Headed(m, b) /\ Headed(before, b)
      /\ before[b] = m[b] /\ before[b + 1] = m[b + 1]
  BY DEF Ahead, WellLinked
<1>2. b \in DOMAIN before /\ b + 1 \in DOMAIN before
  BY <1>1 DEF Headed
<1>3. b \in Int
  BY <1>1, EndsRange DEF Ends
<1> QED BY <1>1, <1>2, <1>3, SameHeader

\* The block that follows: no other block at the call lies before it.
LEMMA NoneBetween ==
  ASSUME NEW m, NEW S, NEW before, NEW S0, NEW index \in Int,
         WellLinked(m, S), Ahead(m, S, before, S0, index),
         NEW b \in S, index <= b
  PROVE  \A c \in S0 : c < succ(m, b) => c <= b
<1>1. WellLinked(before, S0) /\ b \in S0
  BY DEF Ahead
<1>2. succ(before, b) = succ(m, b)
  BY <1>1, AheadSame
<1>3. b \in Int /\ succ(m, b) \in Int
  BY Apart
<1> SUFFICES ASSUME NEW c \in S0, c < succ(m, b), ~(c <= b) PROVE FALSE
  OBVIOUS
<1>4. c \in Int
  BY <1>1, EndsRange DEF Ends
<1>5. succ(before, b) <= c
  BY <1>1, <1>3, <1>4, Apart DEF Ends
<1> QED BY <1>2, <1>3, <1>4, <1>5

\* A free block that follows free blocks.
LEMMA TakenOn ==
  ASSUME NEW m, NEW S, NEW before, NEW S0, NEW index \in Int,
         WellLinked(m, S), Ahead(m, S, before, S0, index),
         NEW b \in S, index <= b, ~Used(m, b), ~Negative(m, b),
         \A c \in S0 : index <= c /\ c < b => ~Used(before, c) /\ ~Negative(before, c)
  PROVE  Taken(before, S0, index, succ(m, b))
<1>1. b \in Int /\ succ(m, b) \in Int /\ index < succ(m, b)
  BY Apart
<1>2. ASSUME NEW c \in S0, index <= c, c < succ(m, b)
      PROVE  ~Used(before, c) /\ ~Negative(before, c)
  <2>1. c <= b /\ c \in Int
    BY <1>2, AheadSame, NoneBetween
  <2>2. CASE c = b
    BY <1>2, <2>2, AheadSame
  <2>3. CASE c < b
    BY <1>2, <2>3
  <2> QED BY <1>1, <2>1, <2>2, <2>3
<1> QED BY <1>1, <1>2 DEF Taken, Free

\* A block whose link is negative is one that leads astray.
LEMMA LinkFrom ==
  ASSUME NEW S, WellLinked(mem, S), NEW b \in S
  PROVE  /\ ~Negative(mem, b) => link(mem, b) = succ(mem, b) /\ succ(mem, b) \in Ends(S)
         /\ Negative(mem, b) => link(mem, b) \in Int /\ Astray(S, link(mem, b))
<1>1. Headed(mem, b) /\ succ(mem, b) \in Ends(S)
  BY DEF WellLinked
<1> QED BY <1>1, LinkOf DEF Astray, Bad

LEMMA PassInv ==
  ASSUME TypeOK, NEW S, NEW S0, Inv(S, S0), Pass
  PROVE  TypeOK' /\ Inv(S, S0)'
<1>m. PICK m, before : mem = m /\ walk.before = before
  OBVIOUS
<1>i. PICK i \in Int, sz \in Nat : walk.index = i /\ walk.sz = sz
  BY DEF TypeOK
<1>1. /\ at = "search" /\ at' = at /\ Used(m, i) /\ i >= 0 /\ i + 1 < MAX_MEM
      /\ signed' = signed /\ mem' = m /\ live' = live /\ calls' = calls
      /\ walk' = [walk EXCEPT !.index = link(mem, i)]
  BY <1>m, <1>i DEF Pass, Searching
<1>3. /\ WellLinked(m, S) /\ Accounted(m, S, live) /\ Few(S, calls)
      /\ Few(S0, calls) /\ Accounted(before, S0, live)
      /\ i \in Ends(S) /\ Ahead(m, S, before, S0, i) /\ Behind(before, S0, i, sz)
  BY <1>m, <1>i, <1>1 DEF Inv, Astray, Searched
<1>4. i \in S
  BY <1>1, <1>3, HeapRange DEF Ends
<1>6. WellLinked(before, S0) /\ i \in S0
  BY <1>3, <1>4 DEF Ahead
<1>7. PICK x \in Int : link(mem, i) = x
  BY <1>m, <1>3, <1>4, LinkFrom, EndsRange
<1>2. /\ walk'.index = x /\ walk'.sz = sz /\ walk'.next = walk.next
      /\ walk'.before = before
      /\ walk' = [sz |-> walk'.sz, index |-> walk'.index, next |-> walk'.next,
                  before |-> walk'.before]
  BY <1>m, <1>i, <1>1, <1>7 DEF TypeOK
<1>8. TypeOK'
  BY <1>i, <1>1, <1>2, <1>7 DEF TypeOK
<1>9. Negative(m, i) => x < 0 /\ Bad(m, S)
  BY <1>m, <1>3, <1>4, <1>7, LinkFrom DEF Astray
<1>10. ASSUME ~Negative(m, i)
       PROVE  x \in Ends(S) /\ Ahead(m, S, before, S0, x) /\ Behind(before, S0, x, sz)
  <2>1. x = succ(m, i) /\ x \in Ends(S)
    BY <1>m, <1>3, <1>4, <1>7, <1>10, LinkFrom
  <2>2. i < x
    BY <1>3, <1>4, <2>1, Apart
  <2>3. Ahead(m, S, before, S0, x)
    <3>1. \A b \in S0 : b \in Int
      BY <1>6, EndsRange DEF Ends
    <3> QED BY <1>3, <2>2, <3>1 DEF Ahead
  <2>4. ASSUME NEW b \in S0, b < x
        PROVE  /\ ~Negative(before, b)
               /\ \A j \in Ends(S0) : Free(before, S0, b, j) => j - b <= sz + 2
    <3>1. b <= i /\ b \in Int
      BY <1>3, <1>4, <1>6, <2>1, <2>4, NoneBetween, EndsRange DEF Ends
    <3>2. CASE b < i
      BY <1>3, <3>2 DEF Behind
    <3>3. CASE b = i
      <4>1. ~Negative(before, b) /\ Used(before, b)
        BY <1>1, <1>3, <1>6, <1>10, <3>3, AheadSame
      <4>2. ASSUME NEW j \in Ends(S0), Free(before, S0, b, j) PROVE j - b <= sz + 2
        <5>1. j \in Int
          BY <1>6, EndsRange
        <5>2. ~(b < j)
          BY <3>1, <4>1, <4>2 DEF Free
        <5> QED BY <3>1, <5>1, <5>2
      <4> QED BY <4>1, <4>2
    <3> QED BY <3>1, <3>2, <3>3
  <2>5. Behind(before, S0, x, sz)
    BY <2>4 DEF Behind
  <2> QED BY <2>1, <2>3, <2>5
<1>11. \/ x \in Ends(S) /\ Ahead(m, S, before, S0, x)' /\ Behind(before, S0, x, sz)'
       \/ x < 0 /\ Bad(m, S)'
  <2>1. CASE Negative(m, i)
    BY <1>1, <1>9, <2>1 DEF Bad, Negative
  <2>2. CASE ~Negative(m, i)
    BY <1>1, <1>10, <2>2 DEF Behind, Ahead, Negative
  <2> QED BY <2>1, <2>2
<1>12. \/ walk'.index \in Ends(S) /\ Searched(S, S0)'
       \/ Astray(S, walk.index)'
  BY <1>1, <1>2, <1>11 DEF Searched, Astray, Bad, Behind, Ahead
<1> QED BY <1>1, <1>2, <1>3, <1>8, <1>12 DEF Inv

\* Start and Coalesce go on to the block behind a free one, at b.
LEMMA NextInv ==
  ASSUME TypeOK, NEW S, NEW S0, Inv(S, S0), at' = "coalesce",
         UNCHANGED <<signed, mem, live, calls>>,
         walk' = [walk EXCEPT !.next = walk'.next],
         NEW m, NEW before, NEW i \in Int, NEW sz \in Nat, NEW b \in S,
         mem = m, walk.before = before, walk.index = i, walk.sz = sz,
         walk'.next = link(mem, b),
         i \in S, ~Used(m, i), Ahead(m, S, before, S0, i), Behind(before, S0, i, sz),
         Few(S, calls), Few(S0, calls), Accounted(before, S0, live), i <= b, ~Used(m, b),
         \A c \in S0 : i <= c /\ c < b => ~Used(before, c) /\ ~Negative(before, c)
  PROVE  TypeOK' /\ Inv(S, S0)'
<1>1. WellLinked(m, S) /\ Accounted(m, S, live)
  BY DEF Inv
<1>2. PICK x \in Int : link(mem, b) = x
  BY <1>1, LinkFrom, EndsRange
<1>3. /\ walk'.index = i /\ walk'.sz = sz /\ walk'.next = x
      /\ walk'.before = before
      /\ walk' = [sz |-> walk'.sz, index |-> walk'.index, next |-> walk'.next,
                  before |-> walk'.before]
  BY <1>2 DEF TypeOK
<1>4. TypeOK'
  BY <1>2, <1>3 DEF TypeOK
<1>5. Negative(m, b) => x < 0 /\ Bad(m, S)
  BY <1>1, <1>2, LinkFrom DEF Astray
<1>6. ASSUME ~Negative(m, b) PROVE x \in Ends(S) /\ Taken(before, S0, i, x)
  <2>1. x = succ(m, b) /\ x \in Ends(S)
    BY <1>1, <1>2, <1>6, LinkFrom
  <2> QED BY <1>1, <1>6, <2>1, TakenOn
<1>7. \/ x \in Ends(S) /\ Taken(before, S0, i, x)'
      \/ x < 0 /\ Bad(m, S)'
  BY <1>5, <1>6 DEF Bad, Taken, Free, Negative
<1>8. Searched(S, S0)'
  BY <1>3 DEF Searched, Behind, Ahead, Negative
<1>9. \/ walk'.next \in Ends(S) /\ Taken(walk.before, S0, walk.index, walk.next)'
      \/ Astray(S, walk.next)'
  BY <1>3, <1>7 DEF Astray, Bad, Taken, Free
<1> QED BY <1>1, <1>3, <1>4, <1>8, <1>9 DEF Inv

LEMMA StartInv ==
  ASSUME TypeOK, NEW S, NEW S0, Inv(S, S0), Start
  PROVE  TypeOK' /\ Inv(S, S0)'
<1>m. PICK m, before : mem = m /\ walk.before = before
  OBVIOUS
<1>i. PICK i \in Int, sz \in Nat : walk.index = i /\ walk.sz = sz
  BY DEF TypeOK
<1>1. /\ at = "search" /\ at' = "coalesce" /\ ~Used(m, i) /\ i >= 0 /\ i + 1 < MAX_MEM
      /\ UNCHANGED <<signed, mem, live, calls>>
      /\ walk' = [walk EXCEPT !.next = link(mem, i)]
  BY <1>m, <1>i DEF Start, Searching
<1>2. walk' = [walk EXCEPT !.next = walk'.next] /\ walk'.next = link(mem, i)
  BY <1>1 DEF TypeOK
<1>3. /\ WellLinked(m, S) /\ Few(S, calls)
      /\ Few(S0, calls) /\ Accounted(before, S0, live)
      /\ i \in Ends(S) /\ Ahead(m, S, before, S0, i) /\ Behind(before, S0, i, sz)
  BY <1>m, <1>i, <1>1 DEF Inv, Astray, Searched
<1>4. i \in S
  BY <1>1, <1>3, HeapRange DEF Ends
<1>5. \A c \in S0 : ~(i <= c /\ c < i)
  BY <1>3, EndsRange DEF Ahead, Ends
<1> QED BY <1>m, <1>i, <1>1, <1>2, <1>3, <1>4, <1>5, NextInv

LEMMA CoalesceInv ==
  ASSUME TypeOK, NEW S, NEW S0, Inv(S, S0), Coalesce
  PROVE  TypeOK' /\ Inv(S, S0)'
<1>m. PICK m, before : mem = m /\ walk.before = before
  OBVIOUS
<1>i. PICK i \in Int, sz \in Nat : walk.index = i /\ walk.sz = sz
  BY DEF TypeOK
<1>j. PICK j \in Int : walk.next = j
  BY DEF TypeOK
<1>1. /\ at = "coalesce" /\ at' = at /\ ~Used(m, j) /\ j >= 0 /\ j + 1 < MAX_MEM
      /\ UNCHANGED <<signed, mem, live, calls>>
      /\ walk' = [walk EXCEPT !.next = link(mem, j)]
  BY <1>m, <1>j DEF Coalesce, Joins
<1>2. walk' = [walk EXCEPT !.next = walk'.next] /\ walk'.next = link(mem, j)
  BY <1>1 DEF TypeOK
<1>3. /\ WellLinked(m, S) /\ Few(S, calls)
      /\ Few(S0, calls) /\ Accounted(before, S0, live)
      /\ i \in S /\ ~Used(m, i) /\ Ahead(m, S, before, S0, i) /\ Behind(before, S0, i, sz)
      /\ j \in Ends(S) /\ Taken(before, S0, i, j)
  BY <1>m, <1>i, <1>j, <1>1 DEF Inv, Astray, Searched
<1>4. j \in S
  BY <1>1, <1>3, HeapRange DEF Ends
<1>5. /\ i <= j
      /\ \A c \in S0 : i <= c /\ c < j => ~Used(before, c) /\ ~Negative(before, c)
  BY <1>3 DEF Taken, Free
<1> QED BY <1>m, <1>i, <1>1, <1>2, <1>3, <1>4, <1>5, NextInv

\* No used block comes, goes or changes: the allocations are accounted for.
LEMMA StillAccounted ==
  ASSUME NEW m, NEW S, NEW L, Accounted(m, S, L), NEW n, NEW T,
         \A b \in T : Used(n, b) => b \in S /\ Used(m, b),
         \A b \in S : Used(m, b) => b \in T /\ Used(n, b) /\ succ(n, b) = succ(m, b)
  PROVE  Accounted(n, T, L)
<1>1. ASSUME NEW l \in L PROVE Holds(n, T, l)
  <2>1. Holds(m, S, l)
    BY DEF Accounted
  <2> QED BY <2>1 DEF Holds
<1> QED BY <1>1 DEF Accounted

LEMMA KeepInv ==
  ASSUME TypeOK, NEW S \in SUBSET Heap, NEW S0, Inv(S, S0), Keep
  PROVE  TypeOK' /\ \E T \in SUBSET Heap : Inv(T, S0)'
<1>m. PICK m, n, before : mem = m /\ mem' = n /\ walk.before = before
  OBVIOUS
<1>i. PICK i \in Int, j \in Int, sz \in Nat : walk.index = i /\ walk.next = j /\ walk.sz = sz
  BY DEF TypeOK
<1>1. /\ at = "coalesce" /\ at' = "search" /\ j >= 0
      /\ ~(j + 1 < MAX_MEM /\ ~Used(m, j)) /\ ~(sz + 2 < j - i)
      /\ UNCHANGED <<signed, live, calls>>
      /\ n = Header(m, i, j, FALSE)
      /\ walk' = [walk EXCEPT !.index = j]
  BY <1>m, <1>i DEF Keep, Coalesced, Joins, Room
<1>2. /\ WellLinked(m, S) /\ Accounted(m, S, live) /\ Few(S, calls)
      /\ Few(S0, calls) /\ Accounted(before, S0, live)
      /\ i \in S /\ ~Used(m, i) /\ Ahead(m, S, before, S0, i) /\ Behind(before, S0, i, sz)
      /\ j \in Ends(S) /\ Taken(before, S0, i, j)
  BY <1>m, <1>i, <1>1 DEF Inv, Astray, Searched
<1>3. WellLinked(before, S0) /\ i < j /\ S \subseteq S0
  BY <1>2 DEF Ahead, Taken
<1> DEFINE T == Spared(S, i, j)
<1>4. /\ WellLinked(n, T) /\ i \in T /\ j \in Ends(T) /\ ~Used(n, i)
      /\ \A b \in T : b # i => b \in S /\ n[b] = m[b] /\ n[b + 1] = m[b + 1]
  <2>1. \A u \in BOOLEAN :
          LET h == Header(m, i, j, u)
          IN /\ WellLinked(h, T) /\ i \in T /\ j \in Ends(T) /\ (Used(h, i) <=> u)
             /\ \A b \in T : b # i => b \in S /\ h[b] = m[b] /\ h[b + 1] = m[b + 1]
    BY <1>2, <1>3, Joined
  <2> HIDE DEF T
  <2> QED BY <1>1, <2>1, Zenon
<1>5. \A b \in S : b \in Int /\ (b \in T <=> b <= i \/ j <= b)
  BY <1>2, EndsRange DEF Spared, Ends
<1> HIDE DEF T
<1>6. ASSUME NEW b \in T, b # i
      PROVE  b \in S /\ (Used(n, b) <=> Used(m, b)) /\ succ(n, b) = succ(m, b)
  <2>1. /\ b \in S /\ n[b] = m[b] /\ n[b + 1] = m[b + 1] /\ Headed(m, b) /\ Headed(n, b)
    BY <1>2, <1>4, <1>6 DEF WellLinked
  <2> QED BY <2>1, SameHeader DEF Headed
<1>7. Accounted(n, T, live)
  <2>1. ASSUME NEW b \in S, Used(m, b) PROVE b \in T /\ b # i
    <3>1. ~(i <= b /\ b < j)
      <4> SUFFICES ASSUME i <= b, b < j PROVE FALSE
        OBVIOUS
      <4>1. b \in S0 /\ ~Used(before, b)
        BY <1>2, <1>3 DEF Taken, Free
      <4> QED BY <1>2, <2>1, <4>1, AheadSame
    <3> QED BY <1>2, <1>5, <2>1, <3>1
  <2> QED BY <1>2, <1>4, <1>6, <2>1, StillAccounted
<1>8. Few(T, calls)
  <2>1. T \subseteq S
    BY <1>4, <1>6, <1>2
  <2>2. calls \in Int
    BY CallsAssumption DEF TypeOK
  <2> QED BY <1>2, <2>1, <2>2, FewBlocks
<1>9. /\ walk'.index = j /\ walk'.sz = sz /\ walk'.next = walk.next
      /\ walk'.before = before
      /\ walk' = [sz |-> walk'.sz, index |-> walk'.index, next |-> walk'.next,
                  before |-> walk'.before]
  BY <1>m, <1>i, <1>1 DEF TypeOK
<1>10. TypeOK'
  BY <1>i, <1>1, <1>9 DEF TypeOK
<1>11. Ahead(n, T, before, S0, j)
  <2>1. T \subseteq S0
    BY <1>2, <1>3, <1>4, <1>6
  <2>2. ASSUME NEW b \in S0, j <= b
        PROVE  b \in T /\ n[b] = before[b] /\ n[b + 1] = before[b + 1]
    <3>1. i <= b /\ i # b
      BY <1>3, <2>2, EndsRange DEF Ends
    <3>2. b \in S /\ m[b] = before[b] /\ m[b + 1] = before[b + 1]
      BY <1>2, <3>1 DEF Ahead
    <3> QED BY <1>4, <1>5, <2>2, <3>1, <3>2
  <2> QED BY <1>3, <2>1, <2>2 DEF Ahead
<1>12. j < MAX_MEM => j \in S0 /\ Used(before, j)
  <2> SUFFICES ASSUME j < MAX_MEM PROVE j \in S0 /\ Used(before, j)
    OBVIOUS
  <2>1. j \in S
    BY <1>2, HeapRange DEF Ends
  <2>2. j + 1 < MAX_MEM
    BY <1>2, <2>1, Apart, HeapRange
  <2> QED BY <1>1, <1>2, <1>3, <2>1, <2>2, AheadSame
<1>13. ASSUME NEW b \in S0, b < j
       PROVE  /\ ~Negative(before, b)
              /\ \A k \in Ends(S0) : Free(before, S0, b, k) => k - b <= sz + 2
  <2>1. b \in Int
    BY <1>3, EndsRange DEF Ends
  <2>2. CASE b < i
    BY <1>2, <2>2 DEF Behind
  <2>3. CASE i <= b
    <3>1. ~Negative(before, b)
      BY <1>2, <1>13, <2>3 DEF Taken
    <3>2. ASSUME NEW k \in Ends(S0), Free(before, S0, b, k) PROVE k - b <= sz + 2
      <4>1. k \in Int /\ k <= MAX_MEM /\ MAX_MEM \in Int
        BY <1>3, EndsRange, HeapRange
      <4>2. ~(j < k)
        BY <1>12, <1>13, <2>1, <3>2, <4>1 DEF Free
      <4> QED BY <1>1, <2>1, <2>3, <4>1, <4>2
    <3> QED BY <3>1, <3>2
  <2> QED BY <2>1, <2>2, <2>3
<1>14. Ahead(n, T, before, S0, j)' /\ Behind(before, S0, j, sz)'
  BY <1>1, <1>11, <1>13 DEF Behind, Negative
<1>15. Searched(T, S0)'
  BY <1>m, <1>9, <1>14 DEF Searched, Behind, Ahead
<1>16. Inv(T, S0)'
  BY <1>m, <1>1, <1>2, <1>4, <1>7, <1>8, <1>9, <1>15 DEF Inv
<1>17. T \in SUBSET Heap
  BY <1>4 DEF WellLinked
<1> QED BY <1>10, <1>16, <1>17

LEMMA TakeInv ==
  ASSUME TypeOK, NEW S \in SUBSET Heap, NEW S0, Inv(S, S0), Take
  PROVE  TypeOK' /\ \E T \in SUBSET Heap : Inv(T, T)'
<1>m. PICK m, n, before, L : mem = m /\ mem' = n /\ walk.before = before /\ live = L
  OBVIOUS
<1>i. PICK i \in Int, j \in Int, sz \in Nat : walk.index = i /\ walk.next = j /\ walk.sz = sz
  BY DEF TypeOK
<1> DEFINE l0 == <<i + 2, sz>>
<1>1. /\ at = "coalesce" /\ at' = "program" /\ j >= 0 /\ sz + 2 < j - i
      /\ UNCHANGED <<signed, calls>>
      /\ n = Claim(m, i, j, sz)
      /\ live' = L \cup {l0} /\ walk' = NoWalk
  BY <1>m, <1>i DEF Take, Coalesced, Room, Return
<1>2. /\ WellLinked(m, S) /\ Accounted(m, S, L) /\ Few(S, calls)
      /\ i \in S /\ ~Used(m, i) /\ Ahead(m, S, before, S0, i)
      /\ j \in Ends(S) /\ Taken(before, S0, i, j)
  BY <1>m, <1>i, <1>1 DEF Inv, Astray, Searched
<1>3. WellLinked(before, S0) /\ i < j /\ S \subseteq S0
  BY <1>2 DEF Ahead, Taken
<1>4. PICK T \in SUBSET Heap : Claims(n, m, S, T, i, j, sz)
  BY <1>1, <1>2, Claimed
<1>5. \A b \in S : b \in Int /\ (b \in Spared(S, i, j) <=> b <= i \/ j <= b)
  BY <1>2, EndsRange DEF Spared, Ends
<1>6. /\ WellLinked(n, T) /\ i \in T /\ Used(n, i) /\ succ(n, i) - (i + 2 + sz) \in 0..3
      /\ \E k : T \subseteq S \cup {k}
  BY <1>4 DEF Claims
<1>7. ASSUME NEW b \in Spared(S, i, j), b # i
      PROVE  b \in S /\ b \in T /\ (Used(n, b) <=> Used(m, b)) /\ succ(n, b) = succ(m, b)
  <2>1. /\ b \in S /\ b \in T /\ n[b] = m[b] /\ n[b + 1] = m[b + 1]
    BY <1>4, <1>7 DEF Claims, Keeps, Spared
  <2>2. Headed(m, b) /\ Headed(n, b)
    BY <1>2, <1>6, <2>1 DEF WellLinked
  <2> QED BY <2>1, <2>2, SameHeader DEF Headed
<1>8. ASSUME NEW b \in T, b # i, Used(n, b) PROVE b \in Spared(S, i, j)
  BY <1>4, <1>8 DEF Claims
<1>9. ASSUME NEW b \in S, Used(m, b) PROVE b \in Spared(S, i, j) /\ b # i
  <2>1. ~(i <= b /\ b < j)
    <3> SUFFICES ASSUME i <= b, b < j PROVE FALSE
      OBVIOUS
    <3>1. b \in S0 /\ ~Used(before, b)
      BY <1>2, <1>3 DEF Taken, Free
    <3> QED BY <1>2, <1>9, <3>1, AheadSame
  <2> QED BY <1>2, <1>5, <1>9, <2>1
<1> HIDE DEF l0
<1>10. l0 \in Int \X Nat /\ l0[1] = i + 2 /\ l0[2] = sz
  BY DEF l0
<1>11. ASSUME NEW l \in L
       PROVE  l \in Int \X Nat /\ Holds(n, T, l) /\ l[1] # i + 2
  <2>1. l \in Int \X Nat /\ Holds(m, S, l)
    BY <1>2 DEF Accounted
  <2> DEFINE b == l[1] - 2
  <2>2. b \in S /\ Used(m, b) /\ succ(m, b) - (l[1] + l[2]) \in 0..3
    BY <2>1 DEF Holds
  <2>3. b \in Spared(S, i, j) /\ b # i
    BY <1>9, <2>2
  <2>4. b \in T /\ Used(n, b) /\ succ(n, b) = succ(m, b)
    BY <1>7, <2>2, <2>3
  <2> QED BY <2>1, <2>2, <2>3, <2>4 DEF Holds
<1>12. Holds(n, T, l0)
  BY <1>6, <1>10 DEF Holds
<1>13. Accounted(n, T, L \cup {l0})
  <2>1. \A l \in L \cup {l0} : l \in Int \X Nat /\ Holds(n, T, l)
    BY <1>10, <1>11, <1>12
  <2>2. ASSUME NEW b \in T, Used(n, b) PROVE \E l \in L \cup {l0} : l[1] = b + 2
    <3>1. CASE b = i
      BY <1>10, <3>1
    <3>2. CASE b # i
      <4>1. b \in S /\ Used(m, b)
        BY <1>7, <1>8, <2>2, <3>2
      <4> QED BY <1>2, <4>1 DEF Accounted
    <3> QED BY <3>1, <3>2
  <2>3. \A k, l \in L \cup {l0} : k[1] = l[1] => k = l
    BY <1>2, <1>10, <1>11 DEF Accounted
  <2> QED BY <2>1, <2>2, <2>3 DEF Accounted
<1>14. Few(T, calls + 1)
  <2>1. calls \in Int
    BY CallsAssumption DEF TypeOK
  <2> QED BY <1>2, <1>6, <2>1, FewBlocks
<1>15. TypeOK'
  BY <1>1, HeapRange DEF TypeOK, NoWalk
<1>16. Inv(T, T)'
  BY <1>m, <1>1, <1>6, <1>13, <1>14 DEF Inv
<1> QED BY <1>15, <1>16

LEMMA FailInv ==
  ASSUME TypeOK, NEW S, NEW S0, Inv(S, S0), Fail
  PROVE  TypeOK' /\ Inv(S, S0)'
<1>1. /\ at = "search" /\ at' = "program" /\ walk' = NoWalk
      /\ UNCHANGED <<signed, mem, live, calls>>
  BY DEF Fail, Return
<1>2. WellLinked(mem, S) /\ Accounted(mem, S, live) /\ Few(S, calls)
  BY <1>1 DEF Inv
<1>3. Few(S, calls + 1)
  <2>1. calls \in Int
    BY CallsAssumption DEF TypeOK
  <2> QED BY <1>2, <2>1, FewBlocks
<1>4. TypeOK'
  BY <1>1, HeapRange DEF TypeOK, NoWalk
<1> QED BY <1>1, <1>2, <1>3, <1>4 DEF Inv

LEMMA LoseInv ==
  ASSUME TypeOK, NEW S, NEW S0, Inv(S, S0), Lose
  PROVE  TypeOK' /\ Inv(S, S0)'
<1>1. /\ at' = "lost" /\ UNCHANGED <<signed, mem, live, walk, calls>>
      /\ (at = "search" /\ walk.index < 0) \/ (at = "coalesce" /\ walk.next < 0)
  BY DEF Lose
<1>2. WellLinked(mem, S) /\ Accounted(mem, S, live) /\ Few(S, calls)
  BY <1>1 DEF Inv
<1>3. \A x \in Ends(S) : x \in Int /\ ~(x < 0)
  BY <1>2, EndsRange, HeapRange
<1>4. Bad(mem, S)
  BY <1>1, <1>3 DEF Inv, Astray
<1>5. Bad(mem, S)'
  BY <1>1, <1>4 DEF Bad, Negative
<1>6. TypeOK'
  BY <1>1 DEF TypeOK
<1> QED BY <1>1, <1>2, <1>5, <1>6 DEF Inv

LEMMA n_freeInv ==
  ASSUME TypeOK, NEW S, NEW S0, Inv(S, S0), NEW l0 \in live, n_free(l0[1])
  PROVE  TypeOK' /\ Inv(S, S0)'
<1>m. PICK m, n, L : mem = m /\ mem' = n /\ live = L
  OBVIOUS
<1> DEFINE i == l0[1] - 2
<1>1. /\ at = "program" /\ at' = at /\ calls < MaxCalls /\ calls' = calls + 1
      /\ signed' = signed /\ walk' = walk
      /\ n = [m EXCEPT ![l0[1] - 1] = @ % 128]
      /\ live' = {l \in L : l[1] # l0[1]}
  BY <1>m DEF n_free
<1>2. WellLinked(m, S) /\ Accounted(m, S, L) /\ Few(S, calls + 1)
  BY <1>m, <1>1 DEF Inv
<1>3. l0 \in Int \X Nat /\ Holds(m, S, l0)
  BY <1>m, <1>2 DEF Accounted
<1>4. l0[1] \in Int /\ i \in S /\ l0[1] - 1 = i + 1
  BY <1>3 DEF Holds
<1> HIDE DEF i
<1>5. WellLinked(n, S) /\ ~Used(n, i) /\ Keeps(n, m, S \ {i})
  BY <1>1, <1>2, <1>4, Freed
<1>6. ASSUME NEW b \in S, b # i
      PROVE  (Used(n, b) <=> Used(m, b)) /\ succ(n, b) = succ(m, b)
  <2>1. n[b] = m[b] /\ n[b + 1] = m[b + 1]
    BY <1>5, <1>6 DEF Keeps
  <2>2. Headed(m, b) /\ Headed(n, b)
    BY <1>2, <1>5 DEF WellLinked
  <2> QED BY <2>1, <2>2, SameHeader DEF Headed
<1>7. ASSUME NEW l \in L, l[1] # l0[1] PROVE Holds(n, S, l)
  <2>1. Holds(m, S, l) /\ l[1] \in Int
    BY <1>2 DEF Accounted
  <2>2. l[1] - 2 # i
    BY <1>4, <1>7, <2>1 DEF i
  <2> QED BY <1>6, <2>1, <2>2 DEF Holds
<1>8. ASSUME NEW b \in S, Used(n, b) PROVE \E l \in L : l[1] # l0[1] /\ l[1] = b + 2
  <2>1. b # i /\ b \in Int
    BY <1>2, <1>5, <1>8, EndsRange DEF Ends
  <2>2. Used(m, b)
    BY <1>6, <1>8, <2>1
  <2>3. PICK l \in L : l[1] = b + 2
    BY <1>2, <2>2 DEF Accounted
  <2> QED BY <1>4, <2>1, <2>3 DEF i
<1>9. Accounted(n, S, live')
  BY <1>1, <1>2, <1>7, <1>8 DEF Accounted
<1>10. Few(S, calls' + 1)
  <2>1. calls \in Int
    BY CallsAssumption DEF TypeOK
  <2> QED BY <1>1, <1>2, <2>1, FewBlocks
<1>11. TypeOK'
  BY <1>1, CallsAssumption DEF TypeOK
<1> QED BY <1>m, <1>1, <1>5, <1>9, <1>10, <1>11 DEF Inv

LEMMA StutterInv ==
  ASSUME TypeOK, NEW S, NEW S0, Inv(S, S0), UNCHANGED vars
  PROVE  TypeOK' /\ Inv(S, S0)'
<1>1. UNCHANGED <<signed, mem, live, at, walk, calls>>
  BY DEF vars
<1>2. TypeOK'
  BY <1>1 DEF TypeOK
<1>3. Searched(S, S0) => Searched(S, S0)'
  BY <1>1 DEF Searched, Ahead, Behind, Negative
<1>4. Bad(mem, S) => Bad(mem, S)'
  BY <1>1 DEF Bad, Negative
<1>5. Taken(walk.before, S0, walk.index, walk.next)
        => Taken(walk.before, S0, walk.index, walk.next)'
  BY <1>1 DEF Taken, Free, Negative
<1> QED BY <1>1, <1>2, <1>3, <1>4, <1>5 DEF Inv, Astray

\* The blocks are a chain from one end of the heap to the other at every
\* moment; a call has found the blocks it looked at as they are, and no room
\* behind it.
THEOREM Invariant == Spec => []IInv
<1>1. ASSUME IInv, [Next]_vars PROVE IInv'
  <2>1. PICK S \in SUBSET Heap, S0 \in SUBSET Heap : TypeOK /\ Inv(S, S0)
    BY <1>1 DEF IInv
  <2>2. SUFFICES TypeOK' /\ \E T, T0 \in SUBSET Heap : Inv(T, T0)'
    BY DEF IInv
  <2>3. CASE \E sz \in Sizes : n_malloc(sz)
    BY <2>1, <2>3, n_mallocInv
  <2>4. CASE Pass
    BY <2>1, <2>4, PassInv
  <2>5. CASE Start
    BY <2>1, <2>5, StartInv
  <2>6. CASE Coalesce
    BY <2>1, <2>6, CoalesceInv
  <2>7. CASE Take
    BY <2>1, <2>7, TakeInv
  <2>8. CASE Keep
    BY <2>1, <2>8, KeepInv
  <2>9. CASE Fail
    BY <2>1, <2>9, FailInv
  <2>10. CASE Lose
    BY <2>1, <2>10, LoseInv
  <2>11. CASE \E l \in live : n_free(l[1])
    BY <2>1, <2>11, n_freeInv
  <2>12. CASE UNCHANGED vars
    BY <2>1, <2>12, StutterInv
  <2> QED BY <1>1, <2>3, <2>4, <2>5, <2>6, <2>7, <2>8, <2>9, <2>10, <2>11, <2>12 DEF Next
<1> QED BY <1>1, InitInv, PTL DEF Spec
-----------------------------------------------------------------------------
(* What follows from it.                                                   *)

\* What was handed out lies in the heap and apart from the rest.
THEOREM Disjoint == Spec => []NoneOverlap
<1>1. ASSUME IInv PROVE NoneOverlap
  <2>1. PICK S \in SUBSET Heap : WellLinked(mem, S) /\ Accounted(mem, S, live)
    BY <1>1 DEF IInv, Inv
  <2>2. ASSUME NEW l \in live
        PROVE  LET b == l[1] - 2
               IN /\ l[1] \in Int /\ l[2] \in Nat /\ b \in S /\ b \in Int
                  /\ succ(mem, b) \in Int /\ l[1] + l[2] <= succ(mem, b)
                  /\ FREE_MEM <= b /\ succ(mem, b) <= MAX_MEM
                  /\ Extent(l).from = b /\ Extent(l).to = l[1] + l[2]
    <3>1. l \in Int \X Nat /\ Holds(mem, S, l)
      BY <2>1 DEF Accounted
    <3>2. l[1] - 2 \in S /\ succ(mem, l[1] - 2) - (l[1] + l[2]) \in 0..3
      BY <3>1 DEF Holds
    <3> QED BY <2>1, <3>1, <3>2, Apart DEF Extent
  <2>3. ASSUME NEW l \in live PROVE FREE_MEM <= Extent(l).from /\ Extent(l).to <= MAX_MEM
    BY <2>2, HeapRange
  <2>4. ASSUME NEW k \in live, NEW l \in live, k[1] < l[1]
        PROVE  Extent(k).to <= Extent(l).from
    <3>1. k[1] - 2 < l[1] - 2
      BY <2>2, <2>4
    <3>2. succ(mem, k[1] - 2) <= l[1] - 2
      BY <2>1, <2>2, <3>1 DEF WellLinked
    <3> QED BY <2>2, <3>2
  <2>5. ASSUME NEW k \in live, NEW l \in live
        PROVE  k = l \/ k[1] < l[1] \/ l[1] < k[1]
    <3>1. k[1] \in Int /\ l[1] \in Int
      BY <2>2
    <3>2. k[1] = l[1] => k = l
      BY <2>1 DEF Accounted
    <3> QED BY <3>1, <3>2
  <2> QED BY <2>3, <2>4, <2>5 DEF NoneOverlap
<1> QED BY <1>1, Invariant, PTL

\* With no link read as negative every block is reached.
LEMMA AllReached ==
  ASSUME NEW m, NEW S, WellLinked(m, S), Few(S, MaxCalls + 1),
         \A b \in Starts(m) : ~Negative(m, b)
  PROVE  Starts(m) = S /\ MAX_MEM \in Blocks(m) /\ ~Bad(m, S)
<1>1. /\ Reachable(m, S) \subseteq Blocks(m)
      /\ \A b \in Blocks(m) : b \in Reachable(m, S) \/ (b \in Int /\ b < 0)
  BY BlocksAre
<1>2. S \subseteq Nat /\ S \subseteq Heap /\ MAX_MEM \notin Heap /\ \A x \in Heap : ~(x < 0)
  BY HeapRange DEF WellLinked
<1>3. Starts(m) = Blocks(m) \cap Heap
  BY DEF Starts, Heap
<1>4. ASSUME Bad(m, S) PROVE FALSE
  <2> DEFINE U == {b \in S : Negative(m, b)}
  <2>1. U # {} /\ U \in SUBSET Nat
    BY <1>2, <1>4 DEF Bad
  <2>2. PICK u \in U : \A v \in U : u <= v
    BY <2>1, NatMin
  <2>3. ASSUME NEW c \in S, c < u PROVE ~Negative(m, c)
    BY <1>2, <2>2, <2>3
  <2>4. u \in Reachable(m, S)
    BY <2>2, <2>3 DEF Reachable, Ends
  <2>5. u \in Starts(m)
    BY <1>1, <1>2, <1>3, <2>2, <2>4
  <2> QED BY <2>2, <2>5
<1>5. Reachable(m, S) = Ends(S)
  BY <1>4 DEF Bad, Reachable
<1>6. MAX_MEM \in Blocks(m)
  BY <1>1, <1>5 DEF Ends
<1>7. Starts(m) = S
  BY <1>1, <1>2, <1>3, <1>5 DEF Ends
<1> QED BY <1>4, <1>6, <1>7

\* The links lead from one end of the heap to the other over blocks that are
\* accounted for, unless one of them is read as negative.
THEOREM ChainWhole == Spec => []LinksLead
<1>1. ASSUME IInv PROVE LinksLead
  <2>1. PICK S \in SUBSET Heap, S0 \in SUBSET Heap : TypeOK /\ Inv(S, S0)
    BY <1>1 DEF IInv
  <2>2. /\ WellLinked(mem, S) /\ Accounted(mem, S, live)
        /\ at = "lost" => Bad(mem, S)
    BY <2>1 DEF Inv
  <2>3. Few(S, MaxCalls + 1)
    <3>1. calls \in Int /\ MaxCalls \in Int /\ calls <= MaxCalls
      BY <2>1, CallsAssumption DEF TypeOK
    <3>2. IsFiniteSet(S) /\ Cardinality(S) \in Nat /\ Cardinality(S) <= calls + 1
      <4>1. Few(S, IF at = "program" THEN calls + 1 ELSE calls)
        BY <2>1 DEF Inv
      <4>2. Few(S, calls + 1)
        BY <3>1, <4>1, FewBlocks
      <4> QED BY <4>2, FS_CardinalityType DEF Few
    <3> QED BY <3>1, <3>2 DEF Few
  <2> SUFFICES ASSUME \A b \in Starts(mem) : ~Negative(mem, b)
               PROVE  /\ at # "lost" /\ MAX_MEM \in Blocks(mem)
                      /\ \A b \in Starts(mem) : b \in DOMAIN mem /\ b + 1 \in DOMAIN mem
                      /\ {l[1] - 2 : l \in live} = {b \in Starts(mem) : Used(mem, b)}
                      /\ \A b \in Starts(mem) : Used(mem, b) => Fits(b)
    BY DEF LinksLead
  <2>4. Starts(mem) = S /\ MAX_MEM \in Blocks(mem) /\ ~Bad(mem, S)
    BY <2>2, <2>3, AllReached
  <2>5. \A b \in S : b \in DOMAIN mem /\ b + 1 \in DOMAIN mem
    BY <2>2 DEF WellLinked, Headed
  <2>6. ASSUME NEW l \in live
        PROVE  /\ l[1] \in Int /\ l[1] - 2 \in S /\ Used(mem, l[1] - 2)
               /\ succ(mem, l[1] - 2) - (l[1] + l[2]) \in 0..3
    BY <2>2 DEF Accounted, Holds
  <2>7. ASSUME NEW b \in S, Used(mem, b)
        PROVE  \E l \in live : l[1] = b + 2 /\ l[1] - 2 = b
    <3>1. b \in Int
      BY <2>2, EndsRange DEF Ends
    <3> QED BY <2>2, <2>7, <3>1 DEF Accounted
  <2>8. {l[1] - 2 : l \in live} = {b \in S : Used(mem, b)}
    BY <2>6, <2>7
  <2>9. ASSUME NEW b \in S, Used(mem, b) PROVE Fits(b)
    <3>1. link(mem, b) = succ(mem, b)
      BY <2>2, <2>4, LinkFrom DEF Bad
    <3> QED BY <2>6, <2>7, <2>9, <3>1 DEF Fits
  <2> QED BY <2>2, <2>4, <2>5, <2>8, <2>9
<1> QED BY <1>1, Invariant, PTL

\* A run with room is one among the blocks there are, reached or not.
LEMMA RoomyRun ==
  ASSUME NEW m, NEW S, WellLinked(m, S), Few(S, MaxCalls + 1), NEW sz,
         NEW i \in Roomy(m, sz)
  PROVE  i \in S /\ \E j \in Ends(S) : Free(m, S, i, j) /\ i < j /\ sz + 2 < j - i
<1>1. /\ \A b \in Blocks(m) : b \in Reachable(m, S) \/ (b \in Int /\ b < 0)
      /\ Reachable(m, S) \subseteq Blocks(m)
  BY BlocksAre
<1>2. S \subseteq Heap /\ MAX_MEM \notin Heap /\ \A x \in Heap : x \in Int /\ ~(x < 0)
  BY HeapRange DEF WellLinked
<1>3. Starts(m) = Blocks(m) \cap Heap
  BY DEF Starts, Heap
<1>4. i \in S /\ i \in Int
  BY <1>1, <1>2, <1>3 DEF Roomy, Reachable, Ends
<1>5. PICK j \in Blocks(m) : Run(m, i, j) /\ sz + 2 < j - i
  BY DEF Roomy
<1>6. j \in Reachable(m, S) /\ i < j /\ j \in Int
  <2>1. i < j
    BY <1>5 DEF Run
  <2>2. ~(j < 0)
    BY <1>1, <1>2, <1>4, <2>1, EndsRange DEF Reachable
  <2> QED BY <1>1, <2>1, <2>2, EndsRange DEF Reachable
<1>7. ASSUME NEW b \in S, i <= b, b < j PROVE ~Used(m, b)
  <2>1. \A c \in S : c \in Int
    BY <1>2
  <2>2. b \in Reachable(m, S)
    BY <1>6, <1>7, <2>1 DEF Reachable, Ends
  <2>3. b \in Starts(m)
    BY <1>1, <1>2, <1>3, <2>2
  <2> QED BY <1>5, <1>7, <2>3 DEF Run
<1> QED BY <1>4, <1>5, <1>6, <1>7 DEF Free, Reachable

\* A run of free blocks that is reached is one the walk of Blocks finds.
LEMMA RunFound ==
  ASSUME NEW m, NEW S, WellLinked(m, S), Few(S, MaxCalls + 1), NEW sz,
         NEW i \in S, NEW j \in Ends(S), Taken(m, S, i, j), sz + 2 < j - i,
         \A b \in S : b < i => ~Negative(m, b)
  PROVE  i \in Roomy(m, sz)
<1>1. /\ Reachable(m, S) \subseteq Blocks(m)
      /\ \A b \in Blocks(m) : b \in Reachable(m, S) \/ (b \in Int /\ b < 0)
  BY BlocksAre
<1>2. S \subseteq Heap /\ MAX_MEM \notin Heap /\ \A x \in Heap : x \in Int /\ ~(x < 0)
  BY HeapRange DEF WellLinked
<1>3. Starts(m) = Blocks(m) \cap Heap
  BY DEF Starts, Heap
<1>4. i \in Starts(m)
  BY <1>1, <1>2, <1>3 DEF Reachable, Ends
<1>5. j \in Blocks(m)
  <2>1. ASSUME NEW c \in S, c < j PROVE ~Negative(m, c)
    <3>1. c \in Int /\ i \in Int
      BY <1>2
    <3> QED BY <2>1, <3>1 DEF Taken
  <2> QED BY <1>1, <2>1 DEF Reachable
<1>6. Starts(m) \subseteq S
  BY <1>1, <1>2, <1>3 DEF Reachable, Ends
<1>7. Run(m, i, j)
  BY <1>6 DEF Run, Taken, Free
<1> QED BY <1>4, <1>5, <1>7 DEF Roomy

\* What a call gives back.
Lowest == LET roomy == Roomy(walk.before, walk.sz)
          IN IF roomy = {} THEN got' = 0
             ELSE got' - 2 \in roomy /\ \A i \in roomy : got' - 2 <= i

LEMMA LowestStep ==
  ASSUME IInv, [Next]_vars, Returns
  PROVE  Lowest
<1>1. PICK S \in SUBSET Heap, S0 \in SUBSET Heap : TypeOK /\ Inv(S, S0)
  BY DEF IInv
<1>m. PICK m, before : mem = m /\ walk.before = before
  OBVIOUS
<1>i. PICK i \in Int, j \in Int, sz \in Nat : walk.index = i /\ walk.next = j /\ walk.sz = sz
  BY <1>1 DEF TypeOK
<1>2. at \in {"search", "coalesce"} => Few(S0, MaxCalls + 1)
  <2> SUFFICES ASSUME at \in {"search", "coalesce"} PROVE Few(S0, MaxCalls + 1)
    OBVIOUS
  <2>1. Few(S0, calls) /\ calls \in Int /\ MaxCalls \in Int /\ calls <= MaxCalls
    BY <1>1, CallsAssumption DEF Inv, TypeOK
  <2>2. Cardinality(S0) \in Nat
    BY <2>1, FS_CardinalityType DEF Few
  <2> QED BY <2>1, <2>2 DEF Few
<1> DEFINE roomy == Roomy(before, sz)
<1>3. Lowest <=> IF roomy = {} THEN got' = 0
                 ELSE got' - 2 \in roomy /\ \A k \in roomy : got' - 2 <= k
  BY <1>m, <1>i DEF Lowest
<1>4. CASE Take
  <2>1. /\ at = "coalesce" /\ j >= 0 /\ sz + 2 < j - i /\ got' = i + 2
    BY <1>i, <1>4 DEF Take, Coalesced, Room, Return
  <2>2. /\ i \in S /\ Ahead(m, S, before, S0, i) /\ Behind(before, S0, i, sz)
        /\ j \in Ends(S) /\ Taken(before, S0, i, j)
    BY <1>1, <1>m, <1>i, <2>1 DEF Inv, Astray, Searched
  <2>3. WellLinked(before, S0) /\ i \in S0 /\ j \in Ends(S0) /\ Few(S0, MaxCalls + 1)
    BY <1>2, <2>1, <2>2 DEF Ahead, Ends
  <2>4. i \in roomy
    <3>1. \A b \in S0 : b < i => ~Negative(before, b)
      BY <2>2 DEF Behind
    <3> QED BY <2>1, <2>2, <2>3, <3>1, RunFound
  <2>5. ASSUME NEW k \in roomy PROVE i <= k
    <3>1. k \in S0 /\ \E x \in Ends(S0) : Free(before, S0, k, x) /\ k < x /\ sz + 2 < x - k
      BY <2>3, RoomyRun
    <3>2. k \in Int /\ \A x \in Ends(S0) : x \in Int
      BY <2>3, <3>1, EndsRange DEF Ends
    <3>3. ~(k < i)
      BY <2>2, <3>1, <3>2 DEF Behind
    <3> QED BY <3>2, <3>3
  <2>6. got' - 2 = i
    BY <2>1
  <2> QED BY <1>3, <2>4, <2>5, <2>6
<1>5. CASE Fail
  <2>1. at = "search" /\ i + 1 >= MAX_MEM /\ got' = 0
    BY <1>i, <1>5 DEF Fail, Return
  <2>2. /\ WellLinked(m, S) /\ i \in Ends(S)
        /\ Ahead(m, S, before, S0, i) /\ Behind(before, S0, i, sz)
    BY <1>1, <1>m, <1>i, <2>1, HeapRange DEF Inv, Astray, Searched
  <2>3. WellLinked(before, S0) /\ Few(S0, MaxCalls + 1)
    BY <1>2, <2>1, <2>2 DEF Ahead
  <2>4. i = MAX_MEM
    <3>1. i \in S => i + 2 <= MAX_MEM
      BY <2>2, Apart
    <3> QED BY <2>1, <2>2, <3>1, HeapRange DEF Ends
  <2>5. ASSUME NEW k \in roomy PROVE FALSE
    <3>1. k \in S0 /\ \E x \in Ends(S0) : Free(before, S0, k, x) /\ k < x /\ sz + 2 < x - k
      BY <2>3, RoomyRun
    <3>2. k \in Int /\ k < MAX_MEM /\ \A x \in Ends(S0) : x \in Int
      BY <2>3, <3>1, EndsRange, HeapRange DEF Ends, WellLinked
    <3> QED BY <2>2, <2>4, <3>1, <3>2 DEF Behind
  <2> QED BY <1>3, <2>1, <2>5
<1>6. Take \/ Fail
  BY DEF Returns, Next, n_malloc, Pass, Searching, Start, Coalesce, Keep, Lose,
              n_free, vars
<1> QED BY <1>4, <1>5, <1>6

\* A request is met at the lowest run with room for it, and refused when there
\* is none, whichever way the memory came to be cut.
THEOREM LowestRun == Spec => FirstFit
<1>1. IInv /\ [Next]_vars => [Returns => Lowest]_vars
  BY LowestStep
<1>2. [][Returns => Lowest]_vars => FirstFit
  BY PTL DEF FirstFit, Lowest
<1> QED BY <1>1, <1>2, Invariant, PTL DEF Spec

\* What test_allocator.c:26 says is so where a char is unsigned: once all is
\* freed, all of the memory is had again.
WholeUnsigned ==
  [][ ~signed /\ at' # at /\ at' \in {"program", "lost"} /\ live = {} /\ walk.sz = WHOLE
        => at' = "program" /\ got' = FREE_MEM + 2 ]_vars

THEOREM WholeOnceUnsigned == Spec => WholeUnsigned
<1> DEFINE Whole == ~signed /\ at' # at /\ at' \in {"program", "lost"} /\ live = {}
                      /\ walk.sz = WHOLE
                    => at' = "program" /\ got' = FREE_MEM + 2
<1>1. ASSUME IInv, [Next]_vars, ~signed, at' # at, at' \in {"program", "lost"},
             live = {}, walk.sz = WHOLE
      PROVE  at' = "program" /\ got' = FREE_MEM + 2
  <2>1. PICK S \in SUBSET Heap, S0 \in SUBSET Heap : TypeOK /\ Inv(S, S0)
    BY <1>1 DEF IInv
  <2>2. \A m, b : ~Negative(m, b)
    BY <1>1 DEF Negative
  <2>3. Take \/ Fail \/ Lose
    BY <1>1 DEF Next, n_malloc, Pass, Searching, Start, Coalesce, Keep, n_free, vars
  <2>4. ~Lose
    <3>1. Lose => TypeOK' /\ Inv(S, S0)' /\ at' = "lost" /\ signed' = signed
      BY <2>1, LoseInv DEF Lose
    <3>2. Lose => Bad(mem, S)'
      BY <3>1 DEF Inv
    <3> QED BY <1>1, <3>1, <3>2 DEF Bad, Negative
  <2>5. at' = "program" /\ at # "program" /\ Returns
    BY <1>1, <2>3, <2>4 DEF Take, Coalesced, Fail, Return, Returns
  <2>6. at \in {"search", "coalesce"}
    BY <2>3, <2>4 DEF Take, Coalesced, Fail
  <2>m. PICK m, before : mem = m /\ walk.before = before
    OBVIOUS
  <2>7. Few(S0, calls) /\ Accounted(before, S0, {}) /\ WellLinked(before, S0)
    <3>1. \/ Searched(S, S0)
          \/ at = "search" /\ walk.index < 0 /\ Bad(mem, S)
      BY <2>1, <2>6 DEF Inv, Astray
    <3>2. Searched(S, S0)
      BY <2>2, <3>1 DEF Bad
    <3> QED BY <1>1, <2>1, <2>6, <2>m, <3>2 DEF Inv, Searched, Ahead
  <2>8. Few(S0, MaxCalls + 1)
    <3>1. calls \in Int /\ MaxCalls \in Int /\ calls <= MaxCalls
      BY <2>1, CallsAssumption DEF TypeOK
    <3>2. Cardinality(S0) \in Nat
      BY <2>7, FS_CardinalityType DEF Few
    <3> QED BY <2>7, <3>1, <3>2 DEF Few
  <2>9. FREE_MEM \in Roomy(before, WHOLE)
    <3>1. \A b \in S0 : ~Used(before, b)
      BY <2>7 DEF Accounted
    <3>2. FREE_MEM \in S0 /\ MAX_MEM \in Ends(S0) /\ FREE_MEM < MAX_MEM
      BY <2>7, HeapRange DEF WellLinked, Ends
    <3>3. Taken(before, S0, FREE_MEM, MAX_MEM)
      BY <2>2, <3>1, <3>2 DEF Taken, Free
    <3>4. WHOLE + 2 < MAX_MEM - FREE_MEM
      BY HeapRange DEF WHOLE
    <3> QED BY <2>2, <2>7, <2>8, <3>2, <3>3, <3>4, RunFound
  <2>10. \A i \in Roomy(before, WHOLE) : i \in Int /\ FREE_MEM <= i
    <3>1. Roomy(before, WHOLE) \subseteq Heap
      BY DEF Roomy, Starts, Heap
    <3> QED BY <3>1, HeapRange
  <2>11. Lowest
    BY <1>1, <2>5, LowestStep
  <2>12. got' - 2 \in Roomy(before, WHOLE) /\ got' - 2 <= FREE_MEM
    BY <1>1, <2>m, <2>9, <2>11 DEF Lowest
  <2>13. got' \in Int
    BY <2>1, <2>3, <2>4 DEF Take, Fail, Return, TypeOK
  <2>14. got' = FREE_MEM + 2
    <3>1. got' - 2 \in Int /\ FREE_MEM \in Int /\ FREE_MEM <= got' - 2
      BY <2>10, <2>12, HeapRange
    <3>2. got' - 2 <= FREE_MEM
      BY <2>12
    <3>3. \A g, f \in Int : f <= g - 2 /\ g - 2 <= f => g = f + 2
      OBVIOUS
    <3> QED BY <2>13, <3>1, <3>2, <3>3
  <2> QED BY <2>5, <2>14
<1>2. IInv /\ [Next]_vars => [Whole]_vars
  BY <1>1
<1>3. [][Whole]_vars => WholeUnsigned
  BY PTL DEF WholeUnsigned
<1> QED BY <1>2, <1>3, Invariant, PTL DEF Spec
=============================================================================
