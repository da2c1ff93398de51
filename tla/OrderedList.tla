----------------------------- MODULE OrderedList -----------------------------
(***************************************************************************)
(* snake::List (lockless/ordered_list/list.hpp): the lock-free sorted set. *)
(* One action per atomic access; the values of a node never change, so the *)
(* comparisons that follow an access belong to its step.                   *)
(*                                                                         *)
(* The word next_and_removed packs a pointer and a flag and is read and    *)
(* exchanged as one.  Nodes that were in the list are never freed.  The    *)
(* node of an add whose exchange fails is deleted before anybody has seen  *)
(* it, so the model allocates the node in the exchange that succeeds.      *)
(*                                                                         *)
(* Values are integers between the two sentinels; Hash is NoHash, the only *)
(* one the repository uses.  The finite set Nodes bounds the number of     *)
(* successful adds of a behaviour.                                         *)
(***************************************************************************)
EXTENDS Integers, FiniteSets

CONSTANTS Threads,    \* the threads that call add, remove and contains
          Values,     \* the values they call them with
          Nodes,      \* the addresses operator new can return
          Null,       \* nullptr
          SENTINEL_BEGIN, SENTINEL_END

ASSUME NullAssumption == Null \notin Nodes
ASSUME ValuesAssumption ==
  /\ SENTINEL_BEGIN \in Int /\ SENTINEL_END \in Int
  /\ SENTINEL_BEGIN < SENTINEL_END
  /\ \A v \in Values : v \in Int /\ SENTINEL_BEGIN < v /\ v < SENTINEL_END

VARIABLES
  head,               \* head
  value,              \* value[n]: Node::value of n
  next_and_removed,   \* next_and_removed[n]: the pointer and the flag of n
  heap,               \* the addresses allocated so far
  pc,                 \* the next step of each thread
  op, arg,            \* the function each thread has called, and its argument
  pred, cur,          \* the pair that find advances and returns
  cur_next, cur_removed, pred_next,   \* the other locals of find and remove
  result,             \* what the call is about to return
  logical,            \* history: the values added and not removed since
  balance             \* history: successful adds minus successful removes

shared == <<head, value, next_and_removed, heap>>
call == <<op, arg>>
locals == <<pred, cur, cur_next, cur_removed, pred_next, result>>
history == <<logical, balance>>
vars == <<shared, call, locals, history, pc>>

Operations == {"add", "remove", "contains"}
Pcs == {"idle", "find", "find_cur", "find_pred", "find_unlink", "find_reload",
        "insert", "load", "mark", "unlink", "walk", "flag", "return"}

\* The packed word.
Word(p, r) == [next |-> p, removed |-> r]
NextOf(n) == next_and_removed[n].next
Removed(n) == next_and_removed[n].removed

\* The constructor: the two sentinels.
Init == /\ head \in Nodes
        /\ \E e \in Nodes \ {head} :
             /\ heap = {head, e}
             /\ value = [n \in Nodes |-> IF n = head THEN SENTINEL_BEGIN
                                                     ELSE SENTINEL_END]
             /\ next_and_removed =
                  [n \in Nodes |-> Word(IF n = head THEN e ELSE Null, FALSE)]
        /\ pc = [t \in Threads |-> "idle"]
        /\ op = [t \in Threads |-> "contains"]
        /\ arg = [t \in Threads |-> SENTINEL_BEGIN]
        /\ pred = [t \in Threads |-> Null]
        /\ cur = [t \in Threads |-> Null]
        /\ cur_next = [t \in Threads |-> Null]
        /\ cur_removed = [t \in Threads |-> FALSE]
        /\ pred_next = [t \in Threads |-> Null]
        /\ result = [t \in Threads |-> FALSE]
        /\ logical = {}
        /\ balance = [v \in Values |-> 0]

Goto(t, from, to) == /\ pc[t] = from
                     /\ pc' = [pc EXCEPT ![t] = to]

\* compare_exchange of the word of n.
Exchange(n, expected, desired) ==
  IF next_and_removed[n] = expected
  THEN next_and_removed' = [next_and_removed EXCEPT ![n] = desired]
  ELSE UNCHANGED next_and_removed

\* The outcome of the call of t is decided.
Decide(t, r) == result' = [result EXCEPT ![t] = r]

\* The bound of the model: there is an address for every add under way.
RoomForAdd == Cardinality(heap) + Cardinality({t \in Threads : op[t] = "add"})
                < Cardinality(Nodes)

\* A call with the argument v.  contains starts at head; add and remove start
\* with find.
Call(t, o, v) == /\ o = "add" => RoomForAdd
                 /\ Goto(t, "idle", IF o = "contains" THEN "walk" ELSE "find")
                 /\ op' = [op EXCEPT ![t] = o]
                 /\ arg' = [arg EXCEPT ![t] = v]
                 /\ cur' = [cur EXCEPT ![t] = IF o = "contains" THEN head ELSE Null]
                 /\ UNCHANGED <<shared, history, pred, cur_next, cur_removed,
                                pred_next, result>>

Return(t) == /\ Goto(t, "return", "idle")
             /\ op' = [op EXCEPT ![t] = "contains"]
             /\ arg' = [arg EXCEPT ![t] = SENTINEL_BEGIN]
             /\ pred' = [pred EXCEPT ![t] = Null]
             /\ cur' = [cur EXCEPT ![t] = Null]
             /\ cur_next' = [cur_next EXCEPT ![t] = Null]
             /\ cur_removed' = [cur_removed EXCEPT ![t] = FALSE]
             /\ pred_next' = [pred_next EXCEPT ![t] = Null]
             /\ result' = [result EXCEPT ![t] = FALSE]
             /\ UNCHANGED <<shared, history>>

----------------------------------------------------------------------------
(* find *)

\* The outer loop: pred is head, cur the node after it.
FindStart(t) == /\ Goto(t, "find", "find_cur")
                /\ pred' = [pred EXCEPT ![t] = head]
                /\ cur' = [cur EXCEPT ![t] = NextOf(head)]
                /\ UNCHANGED <<shared, history, call, cur_next, cur_removed,
                               pred_next, result>>

FindLoadCur(t) == /\ Goto(t, "find_cur", "find_pred")
                  /\ cur_next' = [cur_next EXCEPT ![t] = NextOf(cur[t])]
                  /\ cur_removed' = [cur_removed EXCEPT ![t] = Removed(cur[t])]
                  /\ UNCHANGED <<shared, history, call, pred, cur, pred_next,
                                 result>>

\* Mutant: find goes on past the node that holds the value.
FindAdvanceTooFar(t, c, n) ==
  IF value[c] > arg[t]
  THEN /\ cur' = [cur EXCEPT ![t] = c]
       /\ CASE op[t] = "add"    -> Goto(t, pc[t], "insert")
            [] op[t] = "remove" -> Goto(t, pc[t], "load")
            [] OTHER            -> Goto(t, pc[t], "return")
       /\ Decide(t, FALSE)
       /\ UNCHANGED pred
  ELSE /\ Goto(t, pc[t], "find_cur")
       /\ pred' = [pred EXCEPT ![t] = c]
       /\ cur' = [cur EXCEPT ![t] = n]
       /\ UNCHANGED result

\* Past the loop over removed nodes: t is at node c, not removed, followed by
\* n.  find returns if c is not below the value; else it moves on.  What the
\* caller does next depends on whether c holds the value.
FindAdvance(t, c, n) ==
  IF value[c] >= arg[t]
  THEN /\ cur' = [cur EXCEPT ![t] = c]
       /\ CASE op[t] = "add" /\ value[c] # arg[t]    -> Goto(t, pc[t], "insert")
            [] op[t] = "remove" /\ value[c] = arg[t] -> Goto(t, pc[t], "load")
            [] OTHER                                 -> Goto(t, pc[t], "return")
       /\ Decide(t, FALSE)
       /\ UNCHANGED pred
  ELSE /\ Goto(t, pc[t], "find_cur")
       /\ pred' = [pred EXCEPT ![t] = c]
       /\ cur' = [cur EXCEPT ![t] = n]
       /\ UNCHANGED result

\* Reads the word of pred and goes on with what was read from cur before.
FindLoadPred(t) ==
  /\ pc[t] = "find_pred"
  /\ pred_next' = [pred_next EXCEPT ![t] = NextOf(pred[t])]
  /\ IF cur_removed[t]
     THEN /\ Goto(t, "find_pred", "find_unlink")
          /\ UNCHANGED <<pred, cur, result>>
     ELSE FindAdvance(t, cur[t], cur_next[t])
  /\ UNCHANGED <<shared, history, call, cur_next, cur_removed>>

\* Mutant: find does not start over when pred has changed.
FindUnlinkAgain(t) ==
  /\ pc[t] = "find_unlink"
  /\ Exchange(pred[t], Word(pred_next[t], FALSE), Word(cur_next[t], FALSE))
  /\ IF next_and_removed[pred[t]] = Word(pred_next[t], FALSE)
     THEN /\ Goto(t, "find_unlink", "find_reload")
          /\ cur' = [cur EXCEPT ![t] = cur_next[t]]
     ELSE /\ Goto(t, "find_unlink", "find_unlink")
          /\ UNCHANGED cur
  /\ UNCHANGED <<head, value, heap, history, call, pred, cur_next, cur_removed,
                 pred_next, result>>

\* Unlink cur, which is removed.  The exchange expects what was last read from
\* pred, whether or not that is cur.
FindUnlink(t) ==
  /\ pc[t] = "find_unlink"
  /\ Exchange(pred[t], Word(pred_next[t], FALSE), Word(cur_next[t], FALSE))
  /\ IF next_and_removed[pred[t]] = Word(pred_next[t], FALSE)
     THEN /\ Goto(t, "find_unlink", "find_reload")
          /\ cur' = [cur EXCEPT ![t] = cur_next[t]]
     ELSE /\ Goto(t, "find_unlink", "find")
          /\ UNCHANGED cur
  /\ UNCHANGED <<head, value, heap, history, call, pred, cur_next, cur_removed,
                 pred_next, result>>

\* Reads the word of the node after the one just unlinked.
FindReload(t) ==
  /\ pc[t] = "find_reload"
  /\ cur_next' = [cur_next EXCEPT ![t] = NextOf(cur[t])]
  /\ cur_removed' = [cur_removed EXCEPT ![t] = Removed(cur[t])]
  /\ IF Removed(cur[t])
     THEN /\ Goto(t, "find_reload", "find_unlink")
          /\ UNCHANGED <<pred, cur, result>>
     ELSE FindAdvance(t, cur[t], NextOf(cur[t]))
  /\ UNCHANGED <<shared, history, call, pred_next>>

----------------------------------------------------------------------------
(* add, remove and contains after find *)

\* The new node of t, in place of the word of pred.
LinkNew(t) ==
  /\ Decide(t, TRUE)
  /\ \E n \in Nodes \ heap :
       /\ heap' = heap \cup {n}
       /\ value' = [value EXCEPT ![n] = arg[t]]
       /\ next_and_removed' =
            [next_and_removed EXCEPT ![n] = Word(cur[t], FALSE),
                                     ![pred[t]] = Word(n, FALSE)]
  /\ logical' = logical \cup {arg[t]}
  /\ balance' = [balance EXCEPT ![arg[t]] = @ + 1]

\* Mutant: the word of pred is stored, not exchanged.
InsertBlind(t) ==
  /\ Goto(t, "insert", "return")
  /\ LinkNew(t)
  /\ UNCHANGED <<head, call, pred, cur, cur_next, cur_removed, pred_next>>

\* The exchange of add: a new node between pred and cur.  If it fails the node
\* is deleted and add starts over.
Insert(t) ==
  /\ pc[t] = "insert"
  /\ IF next_and_removed[pred[t]] = Word(cur[t], FALSE)
     THEN /\ Goto(t, "insert", "return")
          /\ LinkNew(t)
     ELSE /\ Goto(t, "insert", "find")
          /\ UNCHANGED <<result, heap, value, next_and_removed, history>>
  /\ UNCHANGED <<head, call, pred, cur, cur_next, cur_removed, pred_next>>

\* remove reads the word of cur again.
Load(t) == /\ Goto(t, "load", "mark")
           /\ cur_next' = [cur_next EXCEPT ![t] = NextOf(cur[t])]
           /\ cur_removed' = [cur_removed EXCEPT ![t] = Removed(cur[t])]
           /\ UNCHANGED <<shared, history, call, pred, cur, pred_next, result>>

\* Mutant: the flag that was read is not compared.
MarkTwice(t) ==
  /\ pc[t] = "mark"
  /\ Exchange(cur[t], Word(cur_next[t], cur_removed[t]), Word(cur_next[t], TRUE))
  /\ IF next_and_removed[cur[t]] = Word(cur_next[t], cur_removed[t])
     THEN /\ Goto(t, "mark", "unlink")
          /\ Decide(t, TRUE)
          /\ logical' = logical \ {arg[t]}
          /\ balance' = [balance EXCEPT ![arg[t]] = @ - 1]
     ELSE /\ Goto(t, "mark", "find")
          /\ UNCHANGED <<result, history>>
  /\ UNCHANGED <<head, value, heap, call, pred, cur, cur_next, cur_removed,
                 pred_next>>

\* The exchange that sets the flag: the one that succeeds removes the value.
Mark(t) ==
  /\ pc[t] = "mark"
  /\ Exchange(cur[t], Word(cur_next[t], FALSE), Word(cur_next[t], TRUE))
  /\ IF next_and_removed[cur[t]] = Word(cur_next[t], FALSE)
     THEN /\ Goto(t, "mark", "unlink")
          /\ Decide(t, TRUE)
          /\ logical' = logical \ {arg[t]}
          /\ balance' = [balance EXCEPT ![arg[t]] = @ - 1]
     ELSE /\ Goto(t, "mark", "find")
          /\ UNCHANGED <<result, history>>
  /\ UNCHANGED <<head, value, heap, call, pred, cur, cur_next, cur_removed,
                 pred_next>>

\* One attempt to unlink the node; a later find does it if this one fails.
Unlink(t) == /\ Goto(t, "unlink", "return")
             /\ Exchange(pred[t], Word(cur[t], FALSE), Word(cur_next[t], FALSE))
             /\ UNCHANGED <<head, value, heap, history, call, locals>>

\* Mutant: contains looks for the value only below the first larger node.
WalkShort(t) ==
  /\ pc[t] = "walk"
  /\ LET n == NextOf(cur[t])
     IN /\ cur' = [cur EXCEPT ![t] = n]
        /\ Goto(t, "walk", IF value[n] < arg[t] THEN "walk" ELSE "return")
  /\ UNCHANGED <<shared, history, call, pred, cur_next, cur_removed, pred_next,
                 result>>

\* contains follows next up to the first node that is not below the value.
Walk(t) ==
  /\ pc[t] = "walk"
  /\ LET n == NextOf(cur[t])
     IN /\ cur' = [cur EXCEPT ![t] = n]
        /\ Goto(t, "walk", IF value[n] < arg[t] THEN "walk"
                           ELSE IF value[n] = arg[t] THEN "flag" ELSE "return")
  /\ UNCHANGED <<shared, history, call, pred, cur_next, cur_removed, pred_next,
                 result>>

Flag(t) == /\ Goto(t, "flag", "return")
           /\ Decide(t, ~Removed(cur[t]))
           /\ UNCHANGED <<shared, history, call, pred, cur, cur_next,
                          cur_removed, pred_next>>

----------------------------------------------------------------------------
Find(t) == \/ FindStart(t) \/ FindLoadCur(t) \/ FindLoadPred(t)
           \/ FindUnlink(t) \/ FindReload(t)

Step(t) == \/ Find(t) \/ Insert(t) \/ Load(t) \/ Mark(t) \/ Unlink(t)
           \/ Walk(t) \/ Flag(t) \/ Return(t)

Next == \E t \in Threads : \/ \E o \in Operations, v \in Values : Call(t, o, v)
                           \/ Step(t)

Spec == Init /\ [][Next]_vars

----------------------------------------------------------------------------
(* Properties *)

\* Every variable holds what its C++ type allows.
TypeOK ==
  /\ head \in Nodes
  /\ value \in [Nodes -> Values \cup {SENTINEL_BEGIN, SENTINEL_END}]
  /\ next_and_removed \in [Nodes -> [next : Nodes \cup {Null}, removed : BOOLEAN]]
  /\ heap \subseteq Nodes
  /\ pc \in [Threads -> Pcs]
  /\ op \in [Threads -> Operations]
  /\ arg \in [Threads -> Values \cup {SENTINEL_BEGIN}]
  /\ pred \in [Threads -> Nodes \cup {Null}]
  /\ cur \in [Threads -> Nodes \cup {Null}]
  /\ cur_next \in [Threads -> Nodes \cup {Null}]
  /\ cur_removed \in [Threads -> BOOLEAN]
  /\ pred_next \in [Threads -> Nodes \cup {Null}]
  /\ result \in [Threads -> BOOLEAN]
  /\ logical \subseteq Values
  /\ balance \in [Values -> Int]

\* Whatever stale pointers the exchanges of find write, next leads from every
\* node, in the list or out of it, to a larger value: a walk cannot cycle and
\* ends at SENTINEL_END, the only node without a successor.
Sorted ==
  \A n \in heap : IF value[n] = SENTINEL_END
                  THEN next_and_removed[n] = Word(Null, FALSE)
                  ELSE NextOf(n) \in heap /\ value[n] < value[NextOf(n)]

\* The pointers of a call are in order.  What find has in pred is below the
\* value it looks for and below cur, and what it has read from cur is beyond
\* cur; add links between pred and cur only what belongs there, and remove
\* marks only a node that holds its value.
InOrder(t) ==
  /\ pc[t] \in {"find_cur", "find_pred", "find_unlink", "find_reload", "insert",
                "load", "mark", "unlink"} =>
       /\ pred[t] \in heap /\ cur[t] \in heap
       /\ value[pred[t]] < arg[t] /\ value[pred[t]] < value[cur[t]]
  /\ pc[t] = "find_pred" =>
       IF value[cur[t]] = SENTINEL_END
       THEN ~cur_removed[t]
       ELSE cur_next[t] \in heap /\ value[cur[t]] < value[cur_next[t]]
  /\ pc[t] \in {"find_unlink", "mark", "unlink"} =>
       cur_next[t] \in heap /\ value[cur[t]] < value[cur_next[t]]
  /\ pc[t] = "insert" => arg[t] < value[cur[t]]
  /\ pc[t] \in {"load", "mark", "unlink"} => value[cur[t]] = arg[t]
  /\ pc[t] = "walk" => cur[t] \in heap /\ value[cur[t]] < arg[t]
  /\ pc[t] = "flag" => cur[t] \in heap

\* A thread in a call has an argument between the sentinels.
ArgOK == \A t \in Threads : pc[t] # "idle" => arg[t] \in Values

HeadOK == head \in heap /\ value[head] = SENTINEL_BEGIN

\* No flag is set where there is no node yet.
NewNodesOK == \A n \in Nodes \ heap : ~Removed(n)

\* The inductive invariant.
IInv == /\ TypeOK
        /\ HeadOK
        /\ NewNodesOK
        /\ ArgOK
        /\ Sorted
        /\ \A t \in Threads : InOrder(t)

\* A removed node is frozen: nobody links a new node behind it, sets its
\* pointer or revives it.
RemovedFrozen ==
  [][\A n \in Nodes : Removed(n) => UNCHANGED <<next_and_removed[n], value[n]>>]_vars

\* The nodes of a value that are not removed are as many as its successful
\* adds less its successful removes: no two removes take the same add.
EveryRemoveHasItsAdd ==
  \A v \in Values :
    balance[v] = Cardinality({n \in heap : value[n] = v /\ ~Removed(n)})

\* The nodes that next leads to from the nodes of S.
Closure(S) ==
  LET step[i \in 0 .. Cardinality(Nodes)] ==
        IF i = 0 THEN S
        ELSE step[i - 1] \cup ({NextOf(n) : n \in step[i - 1]} \ {Null})
  IN step[Cardinality(Nodes)]

\* The nodes in the list, and the values it holds.
Linked == Closure({head})
Present == {value[n] : n \in {m \in Linked : ~Removed(m)}}
             \ {SENTINEL_BEGIN, SENTINEL_END}

\* "Verify that each value's presence in the list matches its logical state"
\* (test_list.cpp, line 1005): once all calls have returned, the values in the
\* list are the values whose last successful operation was an add.
PresenceMatchesLogicalState ==
  (\A t \in Threads : pc[t] = "idle") => Present = logical

----------------------------------------------------------------------------
(* The set that the list stands for. *)

callPhase == [t \in Threads |-> IF pc[t] = "idle" THEN "idle"
                                ELSE IF pc[t] \in {"return", "unlink"} THEN "done"
                                ELSE "called"]

Set == INSTANCE SetObject WITH NoValue <- SENTINEL_BEGIN, set <- logical,
                               phase <- callPhase

=============================================================================
