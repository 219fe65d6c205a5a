---------------------------- MODULE ConfigStore ----------------------------
(***************************************************************************)
(* What an update of a name=value partition promises (spec.md 4.3), as a   *)
(* store of record lists, one per partition name.                          *)
(*                                                                         *)
(* An update "name=value" of partition p replaces the first record of p    *)
(* whose name is "name" by the assignment.  It fails NotFound when p or    *)
(* the record does not exist (no variable is ever created) and fails       *)
(* InsufficientSpace, changing nothing, when the new record list with its  *)
(* terminating empty record does not fit into p's data capacity.           *)
(***************************************************************************)
EXTENDS Integers, Sequences, SequencesExt

CONSTANTS
    Parts,        \* names of the partitions of the store
    Cap,          \* Cap[p]: bytes of p after its header
    EQ,           \* the byte '='
    Assignments   \* the assignments "name=value" (byte sequences) offered

VARIABLES
    store,        \* store[p]: p's records, each a byte sequence
    result        \* outcome of the last update

avars == <<store, result>>

\* The name of a record or assignment: its bytes before the first '='.
NameOf(r) == LET e == SelectInSeq(r, LAMBDA c : c = EQ)
             IN IF e = 0 THEN r ELSE SubSeq(r, 1, e - 1)

HasName(r, n) == SelectInSeq(r, LAMBDA c : c = EQ) # 0 /\ NameOf(r) = n

\* Bytes the records take: each with its NUL, then the empty record.
EncodedLen(recs) == FoldLeft(LAMBDA acc, r : acc + Len(r) + 1, 0, recs) + 1

Fits(recs, p) == EncodedLen(recs) <= Cap[p]

Init ==
    /\ \A p \in Parts : Fits(store[p], p)
    /\ result = "none"

Update(p, a) ==
    LET n == NameOf(a)
        recs == IF p \in Parts THEN store[p] ELSE << >>
        k == SelectInSeq(recs, LAMBDA r : HasName(r, n))
        new == [recs EXCEPT ![k] = a]
        fits == k # 0 /\ Fits(new, p)
    IN  \/ /\ k = 0
           /\ result' = "notfound"
           /\ UNCHANGED store
        \/ /\ k # 0
           /\ ~fits
           /\ result' = "nospace"
           /\ UNCHANGED store
        \/ /\ fits
           /\ store' = [store EXCEPT ![p] = new]
           /\ result' = "ok"

Next == \E p \in Parts \cup {"absent"}, a \in Assignments : Update(p, a)

Spec == Init /\ [][Next]_avars
=============================================================================
