---------------------------- MODULE AbstractList ----------------------------
(***************************************************************************)
(* What a list of src/src/database promises: a sequence that grows and     *)
(* shrinks at both ends and is read by position, counted from 0.           *)
(* QuickList and ListPack are shown to implement it.                       *)
(***************************************************************************)
EXTENDS Integers, Sequences

CONSTANTS Items, None, MaxLen   \* bound: elements of the list

VARIABLES
    list,   \* the elements, the front first
    reply   \* the last call, and what it returned: None for no element or nothing

listVars == <<list, reply>>

Init == list = <<>> /\ reply = <<"new", None>>

PushFront(x) == list' = <<x>> \o list /\ reply' = <<"push_front", None>>
PushBack(x) == list' = Append(list, x) /\ reply' = <<"push_back", None>>

PopFront ==
    IF list = <<>> THEN reply' = <<"pop_front", None>> /\ UNCHANGED list
    ELSE list' = Tail(list) /\ reply' = <<"pop_front", Head(list)>>

PopBack == LET n == Len(list) IN
    IF n = 0 THEN reply' = <<"pop_back", None>> /\ UNCHANGED list
    ELSE list' = SubSeq(list, 1, n - 1) /\ reply' = <<"pop_back", list[n]>>

Get(i) ==
    /\ reply' = <<"get", IF i < Len(list) THEN list[i + 1] ELSE None>>
    /\ UNCHANGED list

Set(i, x) ==
    /\ i < Len(list)
    /\ list' = [list EXCEPT ![i + 1] = x]
    /\ reply' = <<"get_mut", None>>

Remove(i) ==
    IF i < Len(list)
    THEN /\ list' = [j \in 1..(Len(list) - 1) |-> IF j <= i THEN list[j] ELSE list[j + 1]]
         /\ reply' = <<"remove", "true">>
    ELSE reply' = <<"remove", "false">> /\ UNCHANGED list

Resize(n, x) ==
    /\ list' = [j \in 1..n |-> IF j <= Len(list) THEN list[j] ELSE x]
    /\ reply' = <<"resize", None>>

Clear == list' = <<>> /\ reply' = <<"clear", None>>

\* Reorganisation of the structure, which no caller can see
Tidy == reply' = <<"tidy", None>> /\ UNCHANGED list

\* A step of another part of the program
Idle == UNCHANGED listVars

Next ==
    \/ Idle \/ Tidy \/ Clear \/ PopFront \/ PopBack
    \/ \E x \in Items : PushFront(x) \/ PushBack(x)
    \/ \E i \in 0..MaxLen : Get(i) \/ Remove(i)
    \/ \E i \in 0..MaxLen, x \in Items : Set(i, x) \/ Resize(i, x)

Spec == Init /\ [][Next]_listVars
=============================================================================
