------------------------------- MODULE Arrays -------------------------------
(***************************************************************************)
(* A program that makes arrays and keeps them all: every array it has ever *)
(* got may be used again, with conj, assoc and rest, in any order.  The    *)
(* state records beside each array what it was when it was made.           *)
(***************************************************************************)
EXTENDS ArrayHeap

CONSTANTS Items,      \* what the program puts in arrays
          MaxLength,  \* bound: items in an array
          MaxLiteral, \* bound: items in a literal
          MaxArrays   \* bound: arrays made

ASSUME ArraysAssumption == /\ Zero \notin Items
                           /\ MaxLength \in Nat
                           /\ MaxLiteral \in 0 .. MaxLength
                           /\ MaxArrays \in Nat

VARIABLES heap,      \* the blocks
          arrays,    \* the arrays, in the order they were made
          made,      \* made[i]: the items of arrays[i] when it was made
          extended,  \* the arrays that have been the argument of an append
          reused     \* some array has been the argument of two appends

vars == <<heap, arrays, made, extended, reused>>

ArrayType == [block : Nat, off : Nat, size : Nat, len : Nat]

\* A window that lies inside its block.
WellFormed(a) == /\ a.block \in DOMAIN heap
                 /\ a.len <= a.size
                 /\ a.off + a.size <= Len(heap[a.block])

TypeOK ==
    /\ heap \in Seq(Seq(Items \cup {Zero}))
    /\ arrays \in Seq(ArrayType)
    /\ \A i \in DOMAIN arrays : WellFormed(arrays[i])
    /\ made \in Seq(Seq(Items))
    /\ Len(made) = Len(arrays)
    /\ extended \subseteq DOMAIN arrays
    /\ reused \in BOOLEAN

Init == /\ heap = << >>
        /\ arrays = << >>
        /\ made = << >>
        /\ extended = {}
        /\ reused = FALSE

\* The program gets one more array, which is meant to have these items.
Got(a, items) == /\ Len(arrays) < MaxArrays
                 /\ Len(items) <= MaxLength
                 /\ arrays' = Append(arrays, a)
                 /\ made' = Append(made, items)

Make(items) ==
    /\ Got(NewValue(heap, items), items)
    /\ heap' = NewHeap(heap, items)
    /\ UNCHANGED <<extended, reused>>

\* conj of one item, and assoc at the index after the last.
Conj(i, item) ==
    /\ Got(AppendValue(heap, arrays[i]), Append(Contents(heap, arrays[i]), item))
    /\ heap' = AppendHeap(heap, arrays[i], item)
    /\ extended' = extended \cup {i}
    /\ reused' = (reused \/ i \in extended)

Assoc(i, index, item) ==
    /\ Got(AssocValue(heap, arrays[i]),
           [Contents(heap, arrays[i]) EXCEPT ![index] = item])
    /\ heap' = AssocHeap(heap, arrays[i], index, item)
    /\ UNCHANGED <<extended, reused>>

Rest(i) ==
    /\ Got(RestValue(arrays[i]), [k \in 1 .. arrays[i].len - 1 |-> Contents(heap, arrays[i])[k + 1]])
    /\ UNCHANGED <<heap, extended, reused>>

Next ==
    \/ \E n \in 0 .. MaxLiteral : \E items \in [1 .. n -> Items] : Make(items)
    \/ \E i \in DOMAIN arrays :
        \/ \E item \in Items : Conj(i, item)
        \/ \E index \in 1 .. arrays[i].len, item \in Items : Assoc(i, index, item)
        \/ Rest(i)

Spec == Init /\ [][Next]_vars

-----------------------------------------------------------------------------
(* Properties.                                                             *)

\* Array i still has the items it was made with.
Intact(i) == Contents(heap, arrays[i]) = made[i]

\* A program that appends to no array twice sees immutable arrays, although
\* appends write into blocks that other arrays, longer and shorter ones and
\* the rests of both, look into.
ImmutableIfNotReused == ~reused => \A i \in DOMAIN arrays : Intact(i)

\* The first array made in a block: made by a literal, by assoc or by an append
\* that had to grow, so not by rest or by an append in place.
First(i) == \A j \in DOMAIN arrays : arrays[j].block = arrays[i].block => i <= j

\* However a program reuses its arrays, one that was made in a block of its own
\* never changes: only arrays that came out of an append in place, and their
\* rests, are at risk.
FirstsIntact == \A i \in DOMAIN arrays : First(i) => Intact(i)

\* Whatever has happened to the arrays before, an operation returns what it
\* should and leaves the items of its own argument as they are.
ResultsRight ==
    [][LET n == Len(arrays')
       IN  n > Len(arrays) =>
             /\ Contents(heap', arrays'[n]) = made'[n]
             /\ \A i \in extended' \ extended :
                    Contents(heap', arrays[i]) = Contents(heap, arrays[i])]_vars

\* Every array is immutable.
Immutable == \A i \in DOMAIN arrays : Intact(i)
=============================================================================
