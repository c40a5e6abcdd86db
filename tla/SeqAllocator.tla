----------------------------- MODULE SeqAllocator -----------------------------
(***************************************************************************)
(* src/src/discovery/seq-allocator.ts: the numbers (session_seq) of one    *)
(* session's rows.  An allocator is the record [nextSeq, entries]; entries *)
(* maps the keys that have a number to it.                                 *)
(***************************************************************************)
EXTENDS Naturals

EmptyAllocator == [nextSeq |-> 1, entries |-> [k \in {} |-> 0]]

Known(alloc) == DOMAIN alloc.entries

\* Mutant: the number is handed out and not remembered.
GetOrAssignForgetting(alloc, key) ==
    IF key \in Known(alloc) THEN alloc
    ELSE [alloc EXCEPT !.nextSeq = @ + 1,
                       !.entries = [k \in Known(alloc) \cup {key} |->
                                      IF k \in Known(alloc) THEN alloc.entries[k] ELSE 1]]

GetOrAssign(alloc, key) ==
    IF key \in Known(alloc) THEN alloc
    ELSE [alloc EXCEPT !.nextSeq = @ + 1,
                       !.entries = [k \in Known(alloc) \cup {key} |->
                                      IF k \in Known(alloc) THEN alloc.entries[k]
                                      ELSE alloc.nextSeq]]

\* The number is alloc.nextSeq; it cannot be looked up again.
AllocAnonymous(alloc) == [alloc EXCEPT !.nextSeq = @ + 1]

\* What an allocator never loses: every number is given once, and the next
\* one is above all that were given.
Injective(alloc) ==
    /\ \A k \in Known(alloc) : alloc.entries[k] \in 1 .. alloc.nextSeq - 1
    /\ \A j, k \in Known(alloc) : alloc.entries[j] = alloc.entries[k] => j = k
===============================================================================
