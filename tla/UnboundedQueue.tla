--------------------------- MODULE UnboundedQueue ---------------------------
(***************************************************************************)
(* snake::UnboundedQueue (lockless/queue/unbounded_lockless_queue.hpp):    *)
(* the lock-free linked queue.  One action per atomic access to shared     *)
(* memory; the accesses are sequentially consistent, as the default        *)
(* memory order of std::atomic makes them.                                 *)
(*                                                                         *)
(* Nodes are never freed, so an address is handed out by new at most once. *)
(* The finite set Nodes is the bound of the model: it limits the number of *)
(* enqueues of a behaviour.                                                *)
(***************************************************************************)
EXTENDS Naturals, Sequences

CONSTANTS Threads,   \* the threads that call enq and deq
          Values,    \* the values enqueued
          Nodes,     \* the addresses operator new can return
          Null,      \* nullptr
          NoValue    \* stands for SENTINEL and for an unset local

ASSUME NullAssumption == Null \notin Nodes
ASSUME NoValueAssumption == NoValue \notin Values

VARIABLES
  head,              \* head_
  tail,              \* tail_
  next,              \* next[n]: Node::next of n
  value,             \* value[n]: Node::value of n
  heap,              \* the addresses allocated so far
  pc,                \* the next step of each thread
  new_node,          \* enq: new_node
  expected_head,     \* deq: expected_head
  expected_tail,     \* enq and deq: expected_tail
  nxt,               \* enq and deq: next
  val,               \* deq: value
  linked             \* history: the nodes in the order they were linked in

shared == <<head, tail, next, value, heap, linked>>
locals == <<new_node, expected_head, expected_tail, nxt, val>>
vars == <<shared, locals, pc>>

EnqPcs == {"e_tail", "e_next", "e_check", "e_link", "e_help", "e_swing"}
DeqPcs == {"d_head", "d_tail", "d_next", "d_check", "d_help", "d_value",
           "d_swing", "d_return"}

\* The constructor: one node, the sentinel, is both head and tail.
Init == /\ head \in Nodes
        /\ tail = head
        /\ heap = {head}
        /\ linked = <<head>>
        /\ next = [n \in Nodes |-> Null]
        /\ value = [n \in Nodes |-> NoValue]
        /\ pc = [t \in Threads |-> "idle"]
        /\ new_node = [t \in Threads |-> Null]
        /\ expected_head = [t \in Threads |-> Null]
        /\ expected_tail = [t \in Threads |-> Null]
        /\ nxt = [t \in Threads |-> Null]
        /\ val = [t \in Threads |-> NoValue]

Goto(t, from, to) == /\ pc[t] = from
                     /\ pc' = [pc EXCEPT ![t] = to]

\* The call of t returns: its locals are gone.
Return(t) == /\ pc' = [pc EXCEPT ![t] = "idle"]
             /\ new_node' = [new_node EXCEPT ![t] = Null]
             /\ expected_head' = [expected_head EXCEPT ![t] = Null]
             /\ expected_tail' = [expected_tail EXCEPT ![t] = Null]
             /\ nxt' = [nxt EXCEPT ![t] = Null]
             /\ val' = [val EXCEPT ![t] = NoValue]

----------------------------------------------------------------------------
(* enq *)

\* enq(v) is called and allocates its node.
EnqBegin(t) == /\ Goto(t, "idle", "e_tail")
               /\ \E n \in Nodes \ heap, v \in Values :
                    /\ heap' = heap \cup {n}
                    /\ value' = [value EXCEPT ![n] = v]
                    /\ next' = [next EXCEPT ![n] = Null]
                    /\ new_node' = [new_node EXCEPT ![t] = n]
               /\ UNCHANGED <<head, tail, linked, expected_head,
                              expected_tail, nxt, val>>

EnqLoadTail(t) == /\ Goto(t, "e_tail", "e_next")
                  /\ expected_tail' = [expected_tail EXCEPT ![t] = tail]
                  /\ UNCHANGED <<shared, new_node, expected_head, nxt, val>>

EnqLoadNext(t) == /\ Goto(t, "e_next", "e_check")
                  /\ nxt' = [nxt EXCEPT ![t] = next[expected_tail[t]]]
                  /\ UNCHANGED <<shared, new_node, expected_head,
                                 expected_tail, val>>

\* The second load of tail_: go on only if it has not moved.
EnqCheck(t) == /\ Goto(t, "e_check",
                       IF expected_tail[t] # tail THEN "e_tail"
                       ELSE IF nxt[t] = Null THEN "e_link" ELSE "e_help")
               /\ UNCHANGED <<shared, locals>>

\* compare_exchange on expected_tail->next, which was read as null.
EnqLink(t) == /\ pc[t] = "e_link"
              /\ IF next[expected_tail[t]] = Null
                 THEN /\ Goto(t, "e_link", "e_swing")
                      /\ next' = [next EXCEPT ![expected_tail[t]] = new_node[t]]
                      /\ linked' = Append(linked, new_node[t])
                 ELSE /\ Goto(t, "e_link", "e_tail")
                      /\ UNCHANGED <<next, linked>>
              /\ UNCHANGED <<head, tail, value, heap, locals>>

\* Mutant: a thread that finds the tail lagging waits for its owner to move it.
EnqHelpNot(t) == /\ Goto(t, "e_help", "e_tail")
                 /\ UNCHANGED <<shared, locals>>

\* The tail lags behind: try to move it on, and start over.
EnqHelp(t) == /\ Goto(t, "e_help", "e_tail")
              /\ tail' = IF tail = expected_tail[t] THEN nxt[t] ELSE tail
              /\ UNCHANGED <<head, next, value, heap, linked, locals>>

\* Move the tail to the new node, unless somebody did already, and return.
EnqSwing(t) == /\ pc[t] = "e_swing"
               /\ tail' = IF tail = expected_tail[t] THEN new_node[t] ELSE tail
               /\ Return(t)
               /\ UNCHANGED <<head, next, value, heap, linked>>

----------------------------------------------------------------------------
(* deq *)

DeqBegin(t) == /\ Goto(t, "idle", "d_head")
               /\ UNCHANGED <<shared, locals>>

DeqLoadHead(t) == /\ Goto(t, "d_head", "d_tail")
                  /\ expected_head' = [expected_head EXCEPT ![t] = head]
                  /\ UNCHANGED <<shared, new_node, expected_tail, nxt, val>>

DeqLoadTail(t) == /\ Goto(t, "d_tail", "d_next")
                  /\ expected_tail' = [expected_tail EXCEPT ![t] = tail]
                  /\ UNCHANGED <<shared, new_node, expected_head, nxt, val>>

DeqLoadNext(t) == /\ Goto(t, "d_next", "d_check")
                  /\ nxt' = [nxt EXCEPT ![t] = next[expected_head[t]]]
                  /\ UNCHANGED <<shared, new_node, expected_head,
                                 expected_tail, val>>

\* Mutant: no test for an empty queue.
DeqCheckNoEmpty(t) == /\ Goto(t, "d_check",
                              IF expected_head[t] # head
                              THEN "d_head" ELSE "d_value")
                      /\ UNCHANGED <<shared, locals>>

\* Mutant: a lagging tail is not helped before the head goes past it.
DeqCheckNoHelp(t) ==
  /\ pc[t] = "d_check"
  /\ IF expected_head[t] = head /\ nxt[t] = Null
     THEN Return(t)
     ELSE /\ Goto(t, "d_check",
                  IF expected_head[t] # head THEN "d_head" ELSE "d_value")
          /\ UNCHANGED locals
  /\ UNCHANGED shared

\* The second load of head_; with head = tail and no next node, deq throws
\* "Queue is empty".
DeqCheck(t) ==
  /\ pc[t] = "d_check"
  /\ IF /\ expected_head[t] = head
        /\ expected_head[t] = expected_tail[t]
        /\ nxt[t] = Null
     THEN Return(t)
     ELSE /\ Goto(t, "d_check",
                  IF expected_head[t] # head THEN "d_head"
                  ELSE IF expected_head[t] = expected_tail[t]
                       THEN "d_help" ELSE "d_value")
          /\ UNCHANGED locals
  /\ UNCHANGED shared

DeqHelp(t) == /\ Goto(t, "d_help", "d_head")
              /\ tail' = IF tail = expected_tail[t] THEN nxt[t] ELSE tail
              /\ UNCHANGED <<head, next, value, heap, linked, locals>>

\* Reads next->value: nxt[t] must not be null here.
DeqReadValue(t) == /\ Goto(t, "d_value", "d_swing")
                   /\ nxt[t] # Null
                   /\ val' = [val EXCEPT ![t] = value[nxt[t]]]
                   /\ UNCHANGED <<shared, new_node, expected_head,
                                  expected_tail, nxt>>

\* Mutant: the head is stored, not exchanged, so two threads take one value.
DeqSwingBlind(t) == /\ Goto(t, "d_swing", "d_return")
                    /\ head' = nxt[t]
                    /\ UNCHANGED <<tail, next, value, heap, linked, locals>>

\* compare_exchange on head_: the value is taken if the head has not moved.
DeqSwing(t) == /\ IF head = expected_head[t]
                  THEN /\ Goto(t, "d_swing", "d_return")
                       /\ head' = nxt[t]
                  ELSE /\ Goto(t, "d_swing", "d_head")
                       /\ UNCHANGED head
               /\ UNCHANGED <<tail, next, value, heap, linked, locals>>

DeqReturn(t) == /\ pc[t] = "d_return"
                /\ Return(t)
                /\ UNCHANGED shared

----------------------------------------------------------------------------
EnqStep(t) == \/ EnqLoadTail(t) \/ EnqLoadNext(t) \/ EnqCheck(t)
              \/ EnqLink(t) \/ EnqHelp(t) \/ EnqSwing(t)

DeqStep(t) == \/ DeqLoadHead(t) \/ DeqLoadTail(t) \/ DeqLoadNext(t)
              \/ DeqCheck(t) \/ DeqHelp(t) \/ DeqReadValue(t)
              \/ DeqSwing(t) \/ DeqReturn(t)

Step(t) == EnqStep(t) \/ DeqStep(t)

Next == \E t \in Threads : EnqBegin(t) \/ DeqBegin(t) \/ Step(t)

Spec == Init /\ [][Next]_vars

----------------------------------------------------------------------------
(* Properties *)

\* Every variable holds what its C++ type allows; a pointer that is
\* dereferenced without a test (head_, tail_, new_node) is never null.
TypeOK ==
  /\ head \in Nodes /\ tail \in Nodes
  /\ next \in [Nodes -> Nodes \cup {Null}]
  /\ value \in [Nodes -> Values \cup {NoValue}]
  /\ heap \subseteq Nodes
  /\ pc \in [Threads -> {"idle"} \cup EnqPcs \cup DeqPcs]
  /\ new_node \in [Threads -> Nodes \cup {Null}]
  /\ expected_head \in [Threads -> Nodes \cup {Null}]
  /\ expected_tail \in [Threads -> Nodes \cup {Null}]
  /\ nxt \in [Threads -> Nodes \cup {Null}]
  /\ val \in [Threads -> Values \cup {NoValue}]
  /\ linked \in Seq(Nodes)

\* deq reads next->value without testing next: between its four loads the
\* queue may fill and drain, and yet next is never null there.
NoNullDereference == \A t \in Threads : pc[t] = "d_value" => nxt[t] # Null

Last == Len(linked)

InList(p) == \E i \in 1 .. Last : linked[i] = p

\* p and q are linked in and following next from p leads to q.
Reaches(p, q) == \E i, j \in 1 .. Last : /\ i <= j
                                         /\ linked[i] = p
                                         /\ linked[j] = q

\* The nodes linked in, in order, are exactly the list: each is followed by
\* the next one and the last by null; no address occurs twice.
ListShape ==
  /\ Last >= 1
  /\ \A i \in 1 .. Last : /\ linked[i] \in heap
                          /\ i < Last => next[linked[i]] = linked[i + 1]
                          /\ i = Last => next[linked[i]] = Null
  /\ \A i, j \in 1 .. Last : linked[i] = linked[j] => i = j

\* tail_ lags at most one node behind the end of the list, and head_ never
\* overtakes tail_, however long helpers and owners of a half-done enqueue
\* are delayed.
HeadTailOrder == /\ Reaches(head, tail)
                 /\ next[tail] # Null => next[next[tail]] = Null

\* A node on its way into the list is linked nowhere, belongs to one thread
\* and carries a value.
NewNodeOf(t) ==
  /\ pc[t] \in EnqPcs => /\ new_node[t] \in heap
                         /\ value[new_node[t]] \in Values
  /\ pc[t] \in EnqPcs \ {"e_swing"} =>
       /\ ~InList(new_node[t])
       /\ next[new_node[t]] = Null
       /\ \A u \in Threads \ {t} :
            pc[u] \in EnqPcs => new_node[u] # new_node[t]

\* What enq remembers: expected_tail was the tail, the next read from it is
\* still its successor if it was not null, and after the link the new node is.
EnqMemoryOf(t) ==
  /\ pc[t] \in EnqPcs \ {"e_tail"} => Reaches(expected_tail[t], tail)
  /\ pc[t] \in {"e_check", "e_help"} /\ nxt[t] # Null =>
       nxt[t] = next[expected_tail[t]]
  /\ pc[t] = "e_help" => nxt[t] # Null
  /\ pc[t] = "e_swing" => new_node[t] = next[expected_tail[t]]

\* What deq remembers: expected_head was the head, expected_tail was the tail
\* at a later time, and next was read from the first.  A null next was read
\* while both were the same node.
DeqMemoryOf(t) ==
  /\ pc[t] \in DeqPcs \ {"d_head", "d_return"} =>
       Reaches(expected_head[t], head)
  /\ pc[t] \in DeqPcs \ {"d_head", "d_tail", "d_return"} =>
       /\ Reaches(expected_head[t], expected_tail[t])
       /\ Reaches(expected_tail[t], tail)
  /\ pc[t] \in {"d_check", "d_help", "d_value", "d_swing"} =>
       IF nxt[t] = Null
       THEN pc[t] = "d_check" /\ expected_head[t] = expected_tail[t]
       ELSE nxt[t] = next[expected_head[t]]
  /\ pc[t] = "d_help" => expected_head[t] = expected_tail[t]
  /\ pc[t] \in {"d_value", "d_swing"} => expected_head[t] # expected_tail[t]
  /\ pc[t] = "d_swing" => val[t] = value[nxt[t]]

NewNodes == \A t \in Threads : NewNodeOf(t)
EnqMemory == \A t \in Threads : EnqMemoryOf(t)
DeqMemory == \A t \in Threads : DeqMemoryOf(t)

\* Every linked node but the first one carries the value of its enqueue.
LinkedValues == \A i \in 2 .. Last : value[linked[i]] \in Values

\* The inductive invariant: everything above together.
IInv == /\ TypeOK
        /\ ListShape
        /\ HeadTailOrder
        /\ NewNodes
        /\ EnqMemory
        /\ DeqMemory
        /\ LinkedValues

----------------------------------------------------------------------------
(* The queue implements FifoQueue. *)

\* The number of nodes that have been the head before this one, plus one.
HeadPosition == CHOOSE h \in 1 .. Last : linked[h] = head

\* The abstract queue: the values of the nodes after the head.
contents == [i \in 1 .. Last - HeadPosition |-> value[linked[HeadPosition + i]]]

\* deq has read a null next from a node it read as head and as tail.
SawEmpty(t) == /\ pc[t] = "d_check"
               /\ expected_head[t] = expected_tail[t]
               /\ nxt[t] = Null

callPhase == [t \in Threads |->
                CASE pc[t] = "idle"                 -> "idle"
                  [] pc[t] = "e_swing"              -> "enqDone"
                  [] pc[t] \in EnqPcs \ {"e_swing"} -> "enq"
                  [] pc[t] = "d_return"             -> "deqDone"
                  [] SawEmpty(t)                    -> "deqEmpty"
                  [] OTHER                          -> "deq"]

callData == [t \in Threads |->
               IF pc[t] \in EnqPcs THEN value[new_node[t]]
               ELSE IF pc[t] = "d_return" THEN val[t] ELSE NoValue]

Fifo == INSTANCE FifoQueue WITH queue <- contents, phase <- callPhase,
                                data <- callData

\* Linearizability: enq takes effect when it links its node, deq when it
\* swings the head; a deq that throws loaded a null next at an instant at
\* which the queue was empty.
ImplementsFifo == Fifo!Spec

=============================================================================
