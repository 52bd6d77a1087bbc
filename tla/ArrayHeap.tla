----------------------------- MODULE ArrayHeap -----------------------------
(***************************************************************************)
(* The representation of FLAG arrays (runtime/array.go) and vectors        *)
(* (runtime/vector.go, the same code under another tag).                   *)
(*                                                                         *)
(* An array is a window on a block of items: it starts after off items of  *)
(* block, the slice behind it has size items, and the array has the first  *)
(* len of them.  The length travels in the value, not in the block, so     *)
(* arrays of different lengths can share a block.  The heap is the         *)
(* sequence of all blocks.                                                 *)
(***************************************************************************)
EXTENDS Integers, Sequences, FiniteSetsExt

CONSTANT Zero   \* what Go puts in the unused part of a new block

\* The items an array has at the moment.
Contents(heap, a) == [i \in 1 .. a.len |-> heap[a.block][a.off + i]]

GrownCapacity(length) == Max({length + length \div 2, 2, length + 1})

\* The items of a followed by zeroes, size of them in all.
Grown(heap, a, size) ==
    [i \in 1 .. size |-> IF i <= a.len THEN heap[a.block][a.off + i] ELSE Zero]

Whole(block, size, len) == [block |-> block, off |-> 0, size |-> size, len |-> len]

\* NewArray
NewHeap(heap, items) == Append(heap, items)
NewValue(heap, items) == Whole(Len(heap) + 1, Len(items), Len(items))

\* An append writes into the block when the slice has unused items.
HasRoom(a) == a.len < a.size

\* Mutant: the item is written over the last one.
AppendHeapOffByOne(heap, a, item) ==
    IF HasRoom(a)
    THEN [heap EXCEPT ![a.block][a.off + a.len] = item]
    ELSE Append(heap, [Grown(heap, a, GrownCapacity(a.len)) EXCEPT ![a.len + 1] = item])

\* ArrayAppend: the heap it leaves and the value it returns.
AppendHeap(heap, a, item) ==
    IF HasRoom(a)
    THEN [heap EXCEPT ![a.block][a.off + a.len + 1] = item]
    ELSE Append(heap, [Grown(heap, a, GrownCapacity(a.len)) EXCEPT ![a.len + 1] = item])

AppendValue(heap, a) ==
    IF HasRoom(a)
    THEN [a EXCEPT !.len = @ + 1]
    ELSE Whole(Len(heap) + 1, GrownCapacity(a.len), a.len + 1)

\* ArrayAssoc copies the slice behind the array, its unused items included.
AssocHeap(heap, a, index, item) ==
    Append(heap, [i \in 1 .. a.size |->
                     IF i = index THEN item ELSE heap[a.block][a.off + i]])

AssocValue(heap, a) == Whole(Len(heap) + 1, a.size, a.len)

\* Mutant: the rest of an array keeps the unused items behind it.
RestValueRoomy(a) ==
    IF a.len = 0 THEN [a EXCEPT !.size = 0]
    ELSE [a EXCEPT !.off = @ + 1, !.size = @ - 1, !.len = @ - 1]

\* ArrayRest: a window that ends where the array ends.
RestValue(a) ==
    IF a.len = 0 THEN [a EXCEPT !.size = 0]
    ELSE [a EXCEPT !.off = @ + 1, !.size = a.len - 1, !.len = @ - 1]
=============================================================================
