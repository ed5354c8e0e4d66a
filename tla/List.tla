-------------------------------- MODULE List --------------------------------
(***************************************************************************)
(* The doubly linked list of framework/common/list.c, pointer by pointer:  *)
(* every walk is by a cursor, the address of the pointer to the node an    *)
(* index names, and every update writes through it.  Positive indexes walk *)
(* from the head, negative ones from the tail.                             *)
(***************************************************************************)
EXTENDS Integers, Sequences, FiniteSets

CONSTANTS
    Node,        \* the nodes there are to allocate, each with its own data
    Nil,         \* NULL
    Index,       \* the indexes callers use
    MinLeft      \* bound: the nodes removals leave in the list

ASSUME NodeAssumption == IsFiniteSet(Node) /\ Nil \notin Node
ASSUME IndexAssumption == Index \subseteq Int
ASSUME BoundAssumption == MinLeft \in Nat

HeadPtr == <<"head", Nil>>
TailPtr == <<"tail", Nil>>
Out == <<"out", Nil>>             \* a cursor that ran out of the list
NoIter == 0

VARIABLES
    ptr,         \* what each pointer in memory points to
    size,        \* list->size
    used,        \* the nodes allocated so far
    iter,        \* iter->neg_idx, NoIter when there is no iterator
    call,        \* the last operation and its arguments
    ret,         \* the node it returned
    fault,       \* a NULL pointer was followed
    seen,        \* history: the nodes the iteration returned
    whole        \* history: the nodes when it began; Nil once others insert or remove


vars == <<ptr, size, used, iter, call, ret, fault, seen, whole>>

Loc == {HeadPtr, TailPtr} \cup {<<f, x>> : f \in {"next", "prev"}, x \in Node}
NextOf(x) == <<"next", x>>
PrevOf(x) == <<"prev", x>>

\* *cursor, where there is one.
At(c) == IF c = Out THEN Nil ELSE ptr[c]

\* The cursors of index 0, 1, ... and of index -1, -2, ...
Fwd[i \in Nat] ==
    IF i = 0 THEN HeadPtr
    ELSE IF At(Fwd[i - 1]) = Nil THEN Out ELSE NextOf(At(Fwd[i - 1]))
Back[i \in Nat] ==
    IF i = 0 THEN TailPtr
    ELSE IF At(Back[i - 1]) = Nil THEN Out ELSE PrevOf(At(Back[i - 1]))

list_cursor(i) == IF i >= 0 THEN Fwd[i] ELSE Back[-i - 1]
list_get(i) == At(list_cursor(i))

Contents == [i \in 1 .. size |-> At(Fwd[i - 1])]

TypeOK ==
    /\ ptr \in [Loc -> Node \cup {Nil}]
    /\ size \in 0 .. Cardinality(used)
    /\ used \subseteq Node
    /\ iter \in -Cardinality(Node) - 1 .. 0
    /\ ret \in Node \cup {Nil}
    /\ fault \in BOOLEAN
    /\ seen \in Seq(Node)
    /\ whole = Nil \/ whole \in Seq(Node)

Init ==
    /\ ptr = [c \in Loc |-> Nil]
    /\ size = 0 /\ used = {} /\ iter = NoIter
    /\ call = <<"new">> /\ ret = Nil /\ fault = FALSE
    /\ seen = <<>> /\ whole = Nil

-----------------------------------------------------------------------------
(***************************************************************************)
(* Insertion and removal through a cursor.                                 *)
(***************************************************************************)

\* Before node y, which cursor c points to, or behind it for a negative index.
Link(i, c, x, y) ==
    IF i >= 0
      THEN [ptr EXCEPT ![PrevOf(x)] = ptr[PrevOf(y)], ![NextOf(x)] = y, ![PrevOf(y)] = x, ![c] = x]
      ELSE [ptr EXCEPT ![NextOf(x)] = ptr[NextOf(y)], ![PrevOf(x)] = y, ![NextOf(y)] = x, ![c] = x]

\* Where the cursor points to NULL: at the other end.
LinkEnd(i, c, x) ==
    LET last == ptr[TailPtr]
        first == ptr[HeadPtr]
    IN IF i >= 0
         THEN IF last = Nil THEN [ptr EXCEPT ![c] = x, ![TailPtr] = x]
              ELSE [ptr EXCEPT ![c] = x, ![PrevOf(x)] = last, ![NextOf(last)] = x, ![TailPtr] = x]
         ELSE IF first = Nil THEN [ptr EXCEPT ![c] = x, ![HeadPtr] = x]
              ELSE [ptr EXCEPT ![c] = x, ![NextOf(x)] = first, ![PrevOf(first)] = x, ![HeadPtr] = x]

\* list_insert: x is a fresh node.
Put(i, x) ==
    LET c == list_cursor(i) IN
    /\ x \in Node \ used
    /\ IF c = Out
         THEN UNCHANGED <<ptr, size, used>>
         ELSE /\ ptr' = IF ptr[c] = Nil THEN LinkEnd(i, c, x) ELSE Link(i, c, x, ptr[c])
              /\ size' = size + 1
              /\ used' = used \cup {x}

\* Mutant: the successor keeps pointing back to the removed node.
Unlink_one_way(i, c, y) ==
    IF i >= 0
      THEN IF ptr[NextOf(y)] # Nil THEN [ptr EXCEPT ![c] = ptr[NextOf(y)]]
           ELSE [ptr EXCEPT ![TailPtr] = ptr[PrevOf(y)], ![NextOf(ptr[PrevOf(y)])] = Nil]
      ELSE IF ptr[PrevOf(y)] # Nil
             THEN [ptr EXCEPT ![NextOf(ptr[PrevOf(y)])] = ptr[NextOf(y)], ![c] = ptr[PrevOf(y)]]
             ELSE [ptr EXCEPT ![HeadPtr] = ptr[NextOf(y)]]

\* Node y, which cursor c points to, goes.
Unlink(i, c, y) ==
    LET n == ptr[NextOf(y)]
        p == ptr[PrevOf(y)]
    IN IF i >= 0
         THEN IF n # Nil THEN [ptr EXCEPT ![PrevOf(n)] = p, ![c] = n]
              ELSE [ptr EXCEPT ![TailPtr] = p, ![NextOf(p)] = Nil]
         ELSE IF p # Nil THEN [ptr EXCEPT ![NextOf(p)] = n, ![c] = p]
              ELSE IF n # Nil THEN [ptr EXCEPT ![HeadPtr] = n, ![PrevOf(n)] = Nil]
              ELSE [ptr EXCEPT ![HeadPtr] = n]

\* list_remove.  The only node has no predecessor whose next could be cleared.
Take(i) ==
    LET c == list_cursor(i)
        y == At(c)
    IN IF y = Nil
         THEN ret' = Nil /\ UNCHANGED <<ptr, size, fault>>
         ELSE /\ size > MinLeft
              /\ IF i >= 0 /\ ptr[NextOf(y)] = Nil /\ ptr[PrevOf(y)] = Nil
                   THEN fault' = TRUE /\ ret' = Nil /\ UNCHANGED <<ptr, size>>
                   ELSE /\ ptr' = Unlink(i, c, y)
                        /\ size' = size - 1
                        /\ ret' = y /\ UNCHANGED fault

-----------------------------------------------------------------------------
(***************************************************************************)
(* The operations of list.h, also while an iterator is open.               *)
(***************************************************************************)
list_insert(i, x) ==
    /\ ~fault
    /\ call' = <<"insert", i, x>>
    /\ Put(i, x)
    /\ whole' = Nil
    /\ ret' = Nil /\ UNCHANGED <<iter, fault, seen>>

list_remove(i) ==
    /\ ~fault
    /\ call' = <<"remove", i>>
    /\ Take(i)
    /\ whole' = Nil
    /\ UNCHANGED <<used, iter, seen>>

list_get_(i) ==
    /\ ~fault
    /\ call' = <<"get", i>>
    /\ ret' = list_get(i)
    /\ UNCHANGED <<ptr, size, used, iter, fault, seen, whole>>

\* The negative index at which an iteration over the list meets x; -1, the end
\* of the iteration, when it does not.
Meets(x) ==
    LET hits == {k \in -size .. -1 : list_get(k) = x} IN
    IF hits = {} THEN -1 ELSE CHOOSE k \in hits : \A j \in hits : k <= j

list_get__data(x) ==
    /\ ~fault
    /\ call' = <<"find", x>>
    /\ ret' = IF list_get(Meets(x)) = x THEN x ELSE Nil
    /\ UNCHANGED <<ptr, size, used, iter, fault, seen, whole>>

\* node is returned also when the loop ended without a match.
list_remove__data(x) ==
    /\ ~fault
    /\ call' = <<"remove_data", x>>
    /\ IF size > 0 /\ list_get(Meets(x)) = x
         THEN Take(Meets(x))
         ELSE ret' = (IF size = 0 THEN Nil ELSE list_get(-1)) /\ UNCHANGED <<ptr, size, fault>>
    /\ whole' = Nil
    /\ UNCHANGED <<used, iter, seen>>

(***************************************************************************)
(* Iterators.                                                              *)
(***************************************************************************)
list_iter ==
    /\ ~fault
    /\ call' = <<"iter">>
    /\ iter' = -1 * size - 1
    /\ ret' = Nil /\ seen' = <<>> /\ whole' = Contents
    /\ UNCHANGED <<ptr, size, used, fault>>

list_iter_has_next ==
    /\ size # 0
    /\ LET node == list_get(iter) IN IF node = Nil THEN TRUE ELSE ptr[NextOf(node)] # Nil

\* Mutant: every other node.
list_iter_next_twice ==
    /\ ~fault /\ iter # NoIter
    /\ list_iter_has_next
    /\ call' = <<"next">>
    /\ iter' = IF iter < -2 THEN iter + 2 ELSE iter + 1
    /\ ret' = list_get(iter')
    /\ seen' = IF ret' = Nil THEN seen ELSE Append(seen, ret')
    /\ UNCHANGED <<ptr, size, used, fault, whole>>

list_iter_next ==
    /\ ~fault /\ iter # NoIter
    /\ list_iter_has_next
    /\ call' = <<"next">>
    /\ iter' = iter + 1
    /\ ret' = list_get(iter')
    /\ seen' = IF ret' = Nil THEN seen ELSE Append(seen, ret')
    /\ UNCHANGED <<ptr, size, used, fault, whole>>

list_iter_free ==
    /\ ~fault /\ iter # NoIter
    /\ ~list_iter_has_next
    /\ call' = <<"done">>
    /\ iter' = NoIter
    /\ ret' = Nil /\ seen' = <<>> /\ whole' = Nil
    /\ UNCHANGED <<ptr, size, used, fault>>

list_iter_remove ==
    /\ ~fault /\ iter # NoIter
    /\ call' = <<"iter_remove">>
    /\ Take(iter)
    /\ UNCHANGED <<used, iter, seen, whole>>

\* Mutant: behind the current node.
list_iter_prepend_behind(x) ==
    /\ ~fault /\ iter # NoIter
    /\ call' = <<"iter_prepend", x>>
    /\ Put(iter, x)
    /\ ret' = Nil /\ UNCHANGED <<iter, fault, seen, whole>>

list_iter_prepend(x) ==
    /\ ~fault /\ iter # NoIter
    /\ call' = <<"iter_prepend", x>>
    /\ Put(iter - 1, x)
    /\ ret' = Nil /\ UNCHANGED <<iter, fault, seen, whole>>

list_iter_append(x) ==
    /\ ~fault /\ iter # NoIter
    /\ call' = <<"iter_append", x>>
    /\ Put(iter, x)
    /\ ret' = Nil /\ UNCHANGED <<iter, fault, seen, whole>>

-----------------------------------------------------------------------------
Next ==
    \/ \E i \in Index, x \in Node : list_insert(i, x)
    \/ \E i \in Index : list_remove(i)
    \/ \E i \in Index : list_get_(i)
    \/ \E x \in Node : list_get__data(x)
    \/ \E x \in Node : list_remove__data(x)
    \/ list_iter
    \/ list_iter_next
    \/ list_iter_free
    \/ list_iter_remove
    \/ \E x \in Node : list_iter_prepend(x)
    \/ \E x \in Node : list_iter_append(x)

Spec == Init /\ [][Next]_vars

-----------------------------------------------------------------------------
(***************************************************************************)
(* Properties.                                                             *)
(***************************************************************************)

\* The diagram of list.h: the way from the head and the way from the tail lead
\* over the same nodes, and both end behind size of them, whatever was removed
\* where (list.c:158-195); the counts and the iterator stay in their ranges.
WellFormed ==
    /\ TypeOK
    /\ \A i \in 0 .. size - 1 :
          At(Fwd[i]) # Nil /\ At(Fwd[i]) = At(Back[size - 1 - i])
    /\ At(Fwd[size]) = Nil /\ At(Back[size]) = Nil

\* An iteration that nobody but its own iterator disturbs returns the nodes the
\* list had when it began, each once and in order, also when the iterator
\* removes what it stands on and inserts before and behind it.
IterationComplete ==
    whole # Nil /\ iter # NoIter /\ ~list_iter_has_next => seen = whole

\* The list is the sequence of ListSeq, operation by operation, results and
\* iterator included.
Sequence == INSTANCE ListSeq WITH
    s <- Contents,
    rest <- IF iter = NoIter THEN -1 ELSE -1 - iter

SequenceSpec == Sequence!Spec
=============================================================================
