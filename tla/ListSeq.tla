------------------------------ MODULE ListSeq -------------------------------
(***************************************************************************)
(* What a list promises (the diagram at the head of common/list.h): it is  *)
(* a sequence; index i >= 0 counts from the head, i < 0 from the tail; an  *)
(* insertion puts the element before position i, or behind position i < 0; *)
(* an index that names nothing changes nothing.  An iterator remembers how *)
(* many elements lie between it and the tail.                              *)
(***************************************************************************)
EXTENDS Integers, SequencesExt

CONSTANTS Node, Nil, Index

VARIABLES
    s,           \* the elements
    rest,        \* elements the iterator has not reached; -1 without iterator
    call,        \* the last operation and its arguments
    ret          \* the element it returned

vars == <<s, rest, call, ret>>

Init == s = <<>> /\ rest = -1 /\ call = <<"new">> /\ ret = Nil

\* How many elements precede a gap, or an element.
Gap(i) == IF i >= 0 THEN i ELSE Len(s) + 1 + i
Position(i) == IF i >= 0 THEN i + 1 ELSE Len(s) + 1 + i

PutAt(i, x) ==
    s' = IF Gap(i) \in 0 .. Len(s) THEN InsertAt(s, Gap(i) + 1, x) ELSE s

TakeAt(i) ==
    IF Position(i) \in 1 .. Len(s)
      THEN s' = RemoveAt(s, Position(i)) /\ ret' = s[Position(i)]
      ELSE UNCHANGED s /\ ret' = Nil

Insert(i, x) ==
    /\ call' = <<"insert", i, x>>
    /\ PutAt(i, x)
    /\ ret' = Nil /\ UNCHANGED rest

Delete(i) ==
    /\ call' = <<"remove", i>>
    /\ TakeAt(i)
    /\ UNCHANGED rest

Get(i) ==
    /\ call' = <<"get", i>>
    /\ ret' = IF Position(i) \in 1 .. Len(s) THEN s[Position(i)] ELSE Nil
    /\ UNCHANGED <<s, rest>>

Find(x) ==
    /\ call' = <<"find", x>>
    /\ ret' = IF Contains(s, x) THEN x ELSE Nil
    /\ UNCHANGED <<s, rest>>

\* A miss returns the last element, which stays in the list.
RemoveData(x) ==
    /\ call' = <<"remove_data", x>>
    /\ IF Contains(s, x)
         THEN ret' = x /\ \E i \in 1 .. Len(s) : s[i] = x /\ s' = RemoveAt(s, i)
         ELSE ret' = (IF s = <<>> THEN Nil ELSE Last(s)) /\ UNCHANGED s
    /\ UNCHANGED rest

Iter ==
    /\ call' = <<"iter">>
    /\ rest' = Len(s)
    /\ ret' = Nil /\ UNCHANGED s

IterNext ==
    /\ rest > 0
    /\ call' = <<"next">>
    /\ rest' = rest - 1
    /\ ret' = IF rest <= Len(s) THEN s[Len(s) - rest + 1] ELSE Nil
    /\ UNCHANGED s

IterFree ==
    /\ rest = 0 \/ s = <<>>
    /\ call' = <<"done">>
    /\ rest' = -1
    /\ ret' = Nil /\ UNCHANGED s

\* What the iterator stands on is the element in front of the rest.
IterRemove == rest >= 0 /\ call' = <<"iter_remove">> /\ TakeAt(-1 - rest) /\ UNCHANGED rest
IterPrepend(x) == rest >= 0 /\ call' = <<"iter_prepend", x>> /\ PutAt(-2 - rest, x) /\ ret' = Nil /\ UNCHANGED rest
IterAppend(x) == rest >= 0 /\ call' = <<"iter_append", x>> /\ PutAt(-1 - rest, x) /\ ret' = Nil /\ UNCHANGED rest

Next ==
    \/ \E i \in Index, x \in Node : Insert(i, x)
    \/ \E i \in Index : Delete(i) \/ Get(i)
    \/ \E x \in Node : Find(x) \/ RemoveData(x) \/ IterPrepend(x) \/ IterAppend(x)
    \/ Iter \/ IterNext \/ IterFree \/ IterRemove

Spec == Init /\ [][Next]_vars
=============================================================================
