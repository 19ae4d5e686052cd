------------------------------- MODULE Mutator -------------------------------
(***************************************************************************)
(* mutator/mutator.go and mutator/mutators_byteslice.go: the mutations of  *)
(* a byte slice.  A slice is an array of the heap, a length and a          *)
(* capacity, with indices from 0 as in the code.  Every mutation works in  *)
(* place: it shifts bytes with copy (memmove), some use the bytes between  *)
(* length and capacity as scratch space, and none of them allocates.  The  *)
(* early returns of a mutator are its guards, its random choices are       *)
(* existential, and MutateBytes is the choice of one that applies: one     *)
(* that does not apply returns before it writes, and the loop goes on.     *)
(*                                                                         *)
(* Bytes are tokens: a byte that a mutation computes or draws is Fresh,    *)
(* the others are the tokens the array was filled with.                    *)
(***************************************************************************)
EXTENDS Integers, Sequences, FiniteSets, Functions

CONSTANTS Fresh,      \* a byte that a mutation makes up
          MaxShuffle  \* bound on the bytes ShuffleBytes permutes

ASSUME MutatorAssumption == MaxShuffle \in Nat

VARIABLES
    heap,  \* heap[a][i]: byte i of array a
    b,     \* the slice being mutated: its array, length and capacity
    mut    \* the mutation that was applied, "none" before

mutatorVars == <<heap, b, mut>>

InsertLimit == 1024    \* longest insertion of random bytes
ConstantLimit == 4096  \* longest insertion of one byte repeated

Smaller(x, y) == IF x < y THEN x ELSE y
Larger(x, y) == IF x < y THEN y ELSE x

Mem == heap[b.arr]
Indices == 0..(b.len - 1)
PairsOfIndices == {p \in Indices \X Indices : p[1] # p[2]}

\* Whichever preference for short ranges the draw expresses, the result is at
\* least one and at most n; it is one for n = 0.
ChooseLen(n) == 1..Larger(1, n)

\* copy of n bytes within an array; the ranges may overlap.
Copy(mem, dst, src, n) ==
    [i \in DOMAIN mem |-> IF i \in dst..(dst + n - 1) THEN mem[src + i - dst] ELSE mem[i]]

Put(mem, dst, n, byte) ==
    [i \in DOMAIN mem |-> IF i \in dst..(dst + n - 1) THEN byte ELSE mem[i]]

Becomes(name, mem, len) ==
    /\ heap' = [heap EXCEPT ![b.arr] = mem]
    /\ b' = [b EXCEPT !.len = len]
    /\ mut' = name

RemoveBytes ==
    /\ b.len > 1
    /\ \E pos \in Indices : \E n \in ChooseLen(b.len - pos) :
         Becomes("remove", Copy(Mem, pos, pos + n, b.len - pos - n), b.len - n)

\* Room for n more bytes, one byte of the capacity always unused.
HasRoom(n) == b.len + n < b.cap

Opened(pos, n) == Copy(Mem, pos + n, pos, b.len - pos)

InsertRandomBytes ==
    \E pos \in 0..b.len : \E n \in {k \in ChooseLen(InsertLimit) : HasRoom(k)} :
        Becomes("insert", Put(Opened(pos, n), pos, n, Fresh), b.len + n)

\* The block is parked behind its final end while the bytes are shifted.
DuplicateBytes ==
    /\ b.len > 1
    /\ \E p \in PairsOfIndices : \E n \in {k \in ChooseLen(b.len - p[1]) : HasRoom(2 * k)} :
         LET src == p[1]
             dst == p[2]
             parked == Copy(Mem, b.len + n, src, n)
             shifted == Copy(parked, dst + n, dst, b.len - dst)
         IN  Becomes("duplicate", Copy(shifted, dst, b.len + n, n), b.len + n)

OverwriteBytes ==
    /\ b.len > 1
    /\ \E p \in PairsOfIndices : \E n \in ChooseLen(b.len - p[1] - 1) :
         Becomes("overwrite", Copy(Mem, p[2], p[1], Smaller(n, b.len - p[2])), b.len)

BitFlip ==
    \E pos \in Indices : Becomes("byte", Put(Mem, pos, 1, Fresh), b.len)

XORByte ==
    \E pos \in Indices : Becomes("byte", Put(Mem, pos, 1, Fresh), b.len)

SwapByte ==
    /\ b.len > 1
    /\ \E p \in PairsOfIndices :
         Becomes("swap", [Mem EXCEPT ![p[1]] = Mem[p[2]], ![p[2]] = Mem[p[1]]], b.len)

ArithmeticUint8 ==
    \E pos \in Indices : Becomes("byte", Put(Mem, pos, 1, Fresh), b.len)

\* Adding or subtracting 1..35 changes the low byte, and others as far as the
\* carry goes: up from the first byte or down from the last, by byte order.
ArithmeticUint(width) ==
    /\ b.len >= width
    /\ \E pos \in 0..(b.len - width), carried \in 1..width :
         \E first \in {pos, pos + width - carried} :
             Becomes("word", Put(Mem, first, carried, Fresh), b.len)

OverwriteInteresting(width) ==
    /\ b.len >= width
    /\ \E pos \in 0..(b.len - width) : Becomes("word", Put(Mem, pos, width, Fresh), b.len)

InsertConstantBytes ==
    /\ b.len > 1
    /\ \E dst \in Indices : \E n \in {k \in ChooseLen(ConstantLimit) : HasRoom(k)} :
         Becomes("insert", Put(Opened(dst, n), dst, n, Fresh), b.len + n)

OverwriteConstantBytes ==
    /\ b.len > 1
    /\ \E dst \in Indices : \E n \in ChooseLen(b.len - dst) :
         Becomes("constant", Put(Mem, dst, n, Fresh), b.len)

\* The swaps from the end of the range give every order of its bytes.
ShuffleBytes ==
    /\ b.len > 1
    /\ \E dst \in Indices : \E n \in {k \in ChooseLen(b.len - dst) : k > 2 /\ k <= MaxShuffle} :
         \E order \in Bijection(dst..(dst + n - 1), dst..(dst + n - 1)) :
             Becomes("shuffle",
                     [i \in DOMAIN Mem |-> IF i \in DOMAIN order THEN Mem[order[i]] ELSE Mem[i]],
                     b.len)

Swapped(src, dst, n) ==
    LET parked == Copy(Mem, b.len, dst, n)
    IN  Copy(Copy(parked, dst, src, n), src, b.len, n)

\* Mutant of SwapBytes: blocks that overlap are swapped too.
SwapBytesOverlapping ==
    /\ b.len > 1
    /\ \E p \in PairsOfIndices : \E n \in ChooseLen(b.len - Larger(p[1], p[2]) - 1) :
         /\ HasRoom(n)
         /\ Becomes("swap", Swapped(p[1], p[2], n), b.len)

\* Blocks that touch count as intersecting.
SwapBytes ==
    /\ b.len > 1
    /\ \E p \in PairsOfIndices : \E n \in ChooseLen(b.len - Larger(p[1], p[2]) - 1) :
         /\ Smaller(p[1], p[2]) + n < Larger(p[1], p[2])
         /\ HasRoom(n)
         /\ Becomes("swap", Swapped(p[1], p[2], n), b.len)

MutateBytes ==
    \/ RemoveBytes \/ InsertRandomBytes \/ DuplicateBytes \/ OverwriteBytes
    \/ BitFlip \/ XORByte \/ SwapByte \/ ArithmeticUint8
    \/ \E width \in {2, 4, 8} : ArithmeticUint(width)
    \/ \E width \in {1, 2, 4} : OverwriteInteresting(width)
    \/ InsertConstantBytes \/ OverwriteConstantBytes
    \/ ShuffleBytes \/ SwapBytes

-----------------------------------------------------------------------------
(* What each mutation is meant to do, said of the contents before and after *)
(* without the arrays they are in.                                          *)

Content(s) == [i \in 1..s.len |-> heap[s.arr][i - 1]]

\* The first p elements and those after the first q.
Around(s, p, q) == SubSeq(s, 1, p) \o SubSeq(s, q + 1, Len(s))

Blocks(s) == {SubSeq(s, i, j) : i \in 1..Len(s), j \in 1..Len(s)}

\* A block of what Block allows stands in new and nowhere in old.
Inserts(old, new, Block(_)) ==
    \E p \in 0..Len(old) : LET q == p + Len(new) - Len(old) IN
        q > p /\ Around(new, p, q) = old /\ Block(SubSeq(new, p + 1, q))

\* A block of what Block allows takes the place of as many bytes.
Overwrites(old, new, Block(_)) ==
    /\ Len(new) = Len(old)
    /\ \E p, q \in 0..Len(old) :
         p < q /\ Around(new, p, q) = Around(old, p, q) /\ Block(SubSeq(new, p + 1, q))

Invented(block, longest) ==
    Len(block) <= longest /\ \A i \in DOMAIN block : block[i] = Fresh

Occurrences(s, x) == Cardinality({i \in DOMAIN s : s[i] = x})

Reorders(old, new) ==
    /\ Len(new) = Len(old)
    /\ \A i \in DOMAIN old : Occurrences(old, old[i]) = Occurrences(new, old[i])

\* Two blocks of the same length change places, the rest stays.
SwapsBlocks(old, new) ==
    \E i, j \in DOMAIN old, n \in 1..Len(old) :
        /\ i + n <= j /\ j + n - 1 <= Len(old)
        /\ new = SubSeq(old, 1, i - 1) \o SubSeq(old, j, j + n - 1)
                 \o SubSeq(old, i + n, j - 1) \o SubSeq(old, i, i + n - 1)
                 \o SubSeq(old, j + n, Len(old))

IsEdit(name, old, new) ==
    CASE name = "remove"    -> Inserts(new, old, LAMBDA block : TRUE)
      [] name = "insert"    -> Inserts(old, new, LAMBDA block : Invented(block, ConstantLimit))
      [] name = "duplicate" -> Inserts(old, new, LAMBDA block : block \in Blocks(old))
      [] name = "overwrite" -> Overwrites(old, new, LAMBDA block : block \in Blocks(old))
      [] name = "byte"      -> Overwrites(old, new, LAMBDA block : Invented(block, 1))
      [] name = "word"      -> Overwrites(old, new, LAMBDA block : Invented(block, 8))
      [] name = "constant"  -> Overwrites(old, new, LAMBDA block : Invented(block, Len(old)))
      [] name = "shuffle"   -> Reorders(old, new)
      [] name = "swap"      -> SwapsBlocks(old, new)
=============================================================================
