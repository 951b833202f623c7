------------------------------ MODULE NMalloc ------------------------------
(***************************************************************************)
(* The reference allocator (src/ReferenceImplementations/src/n_malloc.c).  *)
(*                                                                         *)
(* The heap is a chain of blocks, each led by two bytes: the low byte of   *)
(* the next block's address, and its upper seven bits below the flag that  *)
(* says whether the block is used.  mem holds the bytes that are known:    *)
(* a program may write anything into a block it was given.                 *)
(*                                                                         *)
(* One action per round of n_malloc's two loops, so that what holds of the *)
(* blocks is said of every moment of a call.                               *)
(***************************************************************************)
EXTENDS Integers, FiniteSets

CONSTANTS Sizes,         \* what is asked for
          MaxCalls,
          Signedness     \* whether a char is signed where this is built

ASSUME SizesAssumption == Sizes \subseteq Nat
ASSUME CallsAssumption == MaxCalls \in Nat
ASSUME SignednessAssumption == Signedness \subseteq BOOLEAN

MAX_MEM   == 65280
FREE_MEM  == 32768
MIN_ALLOC == 1

VARIABLES signed,
          mem,
          live,      \* history: the allocations <<address, size>> not yet freed
          at,        \* "program", a loop of n_malloc, or "lost" outside the memory
          walk,      \* the request, index and next; history: mem at the call
          got,       \* what n_malloc returned last
          calls

vars == <<signed, mem, live, at, walk, got, calls>>

NoBytes == [a \in {} |-> 0]
NoWalk == [sz |-> 0, index |-> FREE_MEM, next |-> FREE_MEM, before |-> NoBytes]
-----------------------------------------------------------------------------
(* Blocks.                                                                 *)

At(m, i) == IF i \in DOMAIN m THEN m[i] ELSE 0
Used(m, i) == At(m, i + 1) >= 128

\* 0x8000 | upper << 8 | lower: a negative char has all upper bits set.
Negative(m, i) == signed /\ At(m, i) >= 128
link(m, i) == IF Negative(m, i) THEN At(m, i) - 256
              ELSE FREE_MEM + 256 * (At(m, i + 1) % 128) + At(m, i)

Header(m, i, next, used) ==
  [a \in DOMAIN m \cup {i, i + 1} |->
     CASE a = i -> next % 256
       [] a = i + 1 -> ((next \div 256) % 128) + (IF used THEN 128 ELSE 0)
       [] OTHER -> m[a]]

\* A block handed out is the program's from its third byte on.
Handed(m, i, next) == [a \in {b \in DOMAIN m : b < i + 2 \/ b >= next} |-> m[a]]

\* Mutant: one byte short of the header.
ClaimShort(m, index, next, sz) ==
  LET nextaddr == index + sz + 1
  IN IF sz + 4 + MIN_ALLOC < next - index
     THEN Handed(Header(Header(m, index, nextaddr, TRUE), nextaddr, next, FALSE),
                 index, nextaddr)
     ELSE Handed(Header(m, index, next, TRUE), index, next)

Claim(m, index, next, sz) ==
  LET nextaddr == index + sz + 2
  IN IF sz + 4 + MIN_ALLOC < next - index
     THEN Handed(Header(Header(m, index, nextaddr, TRUE), nextaddr, next, FALSE),
                 index, nextaddr)
     ELSE Handed(Header(m, index, next, TRUE), index, next)
-----------------------------------------------------------------------------
(* n_malloc.                                                               *)

n_malloc(sz) ==
  /\ at = "program" /\ calls < MaxCalls
  /\ calls' = calls + 1
  /\ at' = "search"
  /\ walk' = [sz |-> sz, index |-> FREE_MEM, next |-> FREE_MEM, before |-> mem]
  /\ UNCHANGED <<signed, mem, live, got>>

Return(r) == /\ at' = "program" /\ got' = r
             /\ walk' = NoWalk
             /\ UNCHANGED <<signed, calls>>

\* The outer loop looks at the block at index; a used one is passed.
Searching == at = "search" /\ walk.index >= 0 /\ walk.index + 1 < MAX_MEM

Pass == /\ Searching /\ Used(mem, walk.index)
        /\ walk' = [walk EXCEPT !.index = link(mem, @)]
        /\ UNCHANGED <<signed, mem, live, at, got, calls>>

Start == /\ Searching /\ ~Used(mem, walk.index)
         /\ at' = "coalesce"
         /\ walk' = [walk EXCEPT !.next = link(mem, walk.index)]
         /\ UNCHANGED <<signed, mem, live, got, calls>>

\* Mutant: a block is joined to the one that follows it, not to all.
JoinsOne(next) == /\ next + 1 < MAX_MEM /\ ~Used(mem, next)
                  /\ next = link(mem, walk.index)

\* The inner loop takes in the free blocks that follow.
Joins(next) == next + 1 < MAX_MEM /\ ~Used(mem, next)

Coalesce == /\ at = "coalesce" /\ walk.next >= 0
            /\ Joins(walk.next)
            /\ walk' = [walk EXCEPT !.next = link(mem, @)]
            /\ UNCHANGED <<signed, mem, live, at, got, calls>>

Coalesced == at = "coalesce" /\ walk.next >= 0 /\ ~Joins(walk.next)
Room == walk.sz + 2 < walk.next - walk.index

Take == /\ Coalesced /\ Room
        /\ mem' = Claim(mem, walk.index, walk.next, walk.sz)
        /\ live' = live \cup {<<walk.index + 2, walk.sz>>}
        /\ Return(walk.index + 2)

\* Too small: the run is kept as one block.
Keep == /\ Coalesced /\ ~Room
        /\ mem' = Header(mem, walk.index, walk.next, FALSE)
        /\ walk' = [walk EXCEPT !.index = walk.next]
        /\ at' = "search"
        /\ UNCHANGED <<signed, live, got, calls>>

Fail == /\ at = "search" /\ walk.index + 1 >= MAX_MEM
        /\ Return(0)
        /\ UNCHANGED <<mem, live>>

\* The next byte looked at lies before the memory.
Lose == /\ \/ at = "search" /\ walk.index < 0
           \/ at = "coalesce" /\ walk.next < 0
        /\ at' = "lost"
        /\ UNCHANGED <<signed, mem, live, walk, got, calls>>
-----------------------------------------------------------------------------
(* The program.                                                            *)

\* n_malloc_init.
Init == /\ signed \in Signedness
        /\ mem = Header(NoBytes, FREE_MEM, MAX_MEM, FALSE)
        /\ live = {}
        /\ at = "program" /\ walk = NoWalk /\ got = 0
        /\ calls = 0

n_free(addr) ==
  /\ at = "program" /\ calls < MaxCalls
  /\ calls' = calls + 1
  /\ mem' = [mem EXCEPT ![addr - 1] = @ % 128]
  /\ live' = {l \in live : l[1] # addr}
  /\ UNCHANGED <<signed, at, walk, got>>

Next == \/ \E sz \in Sizes : n_malloc(sz)
        \/ Pass \/ Start \/ Coalesce \/ Take \/ Keep \/ Fail \/ Lose
        \/ \E l \in live : n_free(l[1])

Spec == Init /\ [][Next]_vars
-----------------------------------------------------------------------------
\* The blocks of a memory: from FREE_MEM on, as far as the links lead.  A call
\* cuts at most one block in two.
Blocks(m) ==
  LET chain[n \in 0..(MaxCalls + 1)] ==
        IF n = 0 THEN FREE_MEM
        ELSE LET b == chain[n - 1] IN IF b \in DOMAIN m THEN link(m, b) ELSE b
  IN {chain[n] : n \in 0..(MaxCalls + 1)}

Starts(m) == Blocks(m) \cap (FREE_MEM..(MAX_MEM - 1))

\* What was handed out never overlaps anything else that is: a block with its
\* two bytes of header lies in the heap, apart from the others.
Extent(l) == [from |-> l[1] - 2, to |-> l[1] + l[2]]
NoneOverlap ==
  /\ \A l \in live : FREE_MEM <= Extent(l).from /\ Extent(l).to <= MAX_MEM
  /\ \A k, l \in live : k = l \/ Extent(k).to <= Extent(l).from
                              \/ Extent(l).to <= Extent(k).from

\* At every moment the links lead from the start of the heap to its end,
\* through bytes no program may have written, and the used blocks on the way
\* are those that were handed out, with room for what was asked and at most
\* three bytes more.  Only where char is signed, and the low byte of a link is
\* 128 or more, does a walk leave the memory.
Fits(b) == LET next == link(mem, b)
           IN \E l \in live : l[1] = b + 2 /\ next - (l[1] + l[2]) \in 0..3
LinksLead ==
  \/ \E b \in Starts(mem) : Negative(mem, b)
  \/ /\ at # "lost"
     /\ MAX_MEM \in Blocks(mem)
     /\ \A b \in Starts(mem) : b \in DOMAIN mem /\ b + 1 \in DOMAIN mem
     /\ {l[1] - 2 : l \in live} = {b \in Starts(mem) : Used(mem, b)}
     /\ \A b \in Starts(mem) : Used(mem, b) => Fits(b)

\* A request is met at the lowest run of free blocks with room for it, however
\* the run came to be cut into blocks, and refused when there is none.
Run(m, i, j) == i < j /\ \A b \in Starts(m) : i <= b /\ b < j => ~Used(m, b)
Roomy(m, sz) == {i \in Starts(m) : \E j \in Blocks(m) : Run(m, i, j) /\ sz + 2 < j - i}
Returns == at # "program" /\ at' = "program"
FirstFit ==
  [][ Returns => LET roomy == Roomy(walk.before, walk.sz)
                 IN IF roomy = {} THEN got' = 0
                    ELSE got' - 2 \in roomy /\ \A i \in roomy : got' - 2 <= i ]_vars

\* test_allocator.c:26 asks for all of the memory once everything is freed.
WHOLE == MAX_MEM - FREE_MEM - 3
WholeAgain ==
  [][ at' # at /\ at' \in {"program", "lost"} /\ live = {} /\ walk.sz = WHOLE
        => at' = "program" /\ got' = FREE_MEM + 2 ]_vars
=============================================================================
