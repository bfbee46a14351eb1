------------------------------ MODULE HeapImage ------------------------------
(***************************************************************************)
(* What makeHeapImage promises, without a heap buffer: objects are given   *)
(* numbers one at a time, each new object is a root or the referent of an  *)
(* object already numbered, numbers grow in the order objects are placed   *)
(* (the heap is allocated bottom up), a number is never changed, and the   *)
(* image is finished only when every object reachable from the roots has   *)
(* a number.  The process may abort at any point (an expect() on the       *)
(* capacity), which this specification does not constrain.                 *)
(***************************************************************************)
EXTENDS Naturals, FiniteSets

CONSTANTS Obj, Capacity

VARIABLES
  num,     \* Obj -> 0..Capacity: the number of each object, 0 if none
  status,  \* "walk", "done" or "aborted"
  edges,   \* Obj -> SUBSET Obj: the referents of each object
  roots    \* SUBSET Obj: the objects visitRoots hands to the walker

avars == <<num, status, edges, roots>>

RECURSIVE ReachFrom(_)
ReachFrom(S) ==
  LET S2 == S \cup UNION {edges[o] : o \in S}
  IN IF S2 = S THEN S ELSE ReachFrom(S2)

Placed == {o \in Obj : num[o] # 0}

Init ==
  /\ num = [o \in Obj |-> 0]
  /\ status = "walk"
  /\ edges \in [Obj -> SUBSET Obj]
  /\ roots \in SUBSET Obj

(* A new object reached from a root or a placed object is placed above     *)
(* everything placed before it.                                            *)
Place(o) ==
  /\ status = "walk"
  /\ num[o] = 0
  /\ o \in roots \cup UNION {edges[q] : q \in Placed}
  /\ \E n \in 1..Capacity :
       /\ \A q \in Placed : num[q] < n
       /\ num' = [num EXCEPT ![o] = n]
  /\ UNCHANGED <<status, edges, roots>>

Finish ==
  /\ status = "walk"
  /\ ReachFrom(roots) \subseteq Placed
  /\ status' = "done"
  /\ UNCHANGED <<num, edges, roots>>

Abort ==
  /\ status = "walk"
  /\ status' = "aborted"
  /\ UNCHANGED <<num, edges, roots>>

Next == (\E o \in Obj : Place(o)) \/ Finish \/ Abort

Spec == Init /\ [][Next]_avars /\ WF_avars(Next)
=============================================================================
