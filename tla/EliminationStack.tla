-------------------------- MODULE EliminationStack --------------------------
(***************************************************************************)
(* snake::EliminationStack (lockless/stack/elemination_stack.hpp): a       *)
(* linked stack with a compare-and-swap on top_, and an elimination array  *)
(* on which a push and a pop that lost the race can meet.                  *)
(*                                                                         *)
(* The array is the abstract Exchanger, which LockFreeExchanger is shown   *)
(* to implement: what the stack needs of it is that items are swapped in   *)
(* pairs.  (The exchanger pairs threads of the same slot; Exchanger pairs  *)
(* any two, so the model has all the pairings of the code, and more.)      *)
(*                                                                         *)
(* The fields of a published node never change; popped nodes are never     *)
(* freed.                                                                  *)
(***************************************************************************)
EXTENDS Naturals, Sequences

CONSTANTS Threads,    \* the threads that call push and pop
          Values,     \* the values pushed: not 0, as the assertion demands
          Nodes,      \* the addresses operator new can return
          Null,       \* nullptr
          PopToken,   \* 0, the item that a pop offers
          NoValue     \* an unset local, and the empty optional

ASSUME NullAssumption == Null \notin Nodes
ASSUME ValuesAssumption == PopToken \notin Values /\ NoValue \notin Values
                             /\ NoValue # PopToken

VARIABLES
  top,                \* top_
  next,               \* next[n]: Node::next of n
  value,              \* value[n]: Node::value of n
  heap,               \* the addresses in use
  pc,                 \* the next step of each thread
  new_node,           \* push: new_node
  expected_top,       \* try_push and try_pop: top
  val,                \* push: value; pop: the value about to be returned
  phase, offer, got,  \* the elimination array: the state of Exchanger
  chain               \* history: the nodes of the stack, the top first

memory == <<top, next, value, heap, chain>>
locals == <<new_node, expected_top, val>>
array == <<phase, offer, got>>
vars == <<memory, locals, array, pc>>

Array == INSTANCE Exchanger WITH Items <- Values \cup {PopToken},
                                 NoItem <- NoValue

Init == /\ top = Null
        /\ next = [n \in Nodes |-> Null]
        /\ value = [n \in Nodes |-> NoValue]
        /\ heap = {}
        /\ chain = <<>>
        /\ pc = [t \in Threads |-> "idle"]
        /\ new_node = [t \in Threads |-> Null]
        /\ expected_top = [t \in Threads |-> Null]
        /\ val = [t \in Threads |-> NoValue]
        /\ Array!Init

Goto(t, from, to) == /\ pc[t] = from
                     /\ pc' = [pc EXCEPT ![t] = to]

----------------------------------------------------------------------------
(* push *)

PushBegin(t) == /\ Goto(t, "idle", "push_load")
                /\ \E n \in Nodes \ heap, v \in Values :
                     /\ heap' = heap \cup {n}
                     /\ value' = [value EXCEPT ![n] = v]
                     /\ new_node' = [new_node EXCEPT ![t] = n]
                     /\ val' = [val EXCEPT ![t] = v]
                /\ UNCHANGED <<top, next, chain, expected_top, array>>

\* try_push: load top_ and make it the successor of the new node.
PushLoad(t) == /\ Goto(t, "push_load", "push_swing")
               /\ expected_top' = [expected_top EXCEPT ![t] = top]
               /\ next' = [next EXCEPT ![new_node[t]] = top]
               /\ UNCHANGED <<top, value, heap, chain, new_node, val, array>>

\* Mutant: top_ is stored, not exchanged.
PushSwingBlind(t) == /\ Goto(t, "push_swing", "return")
                     /\ top' = new_node[t]
                     /\ chain' = <<new_node[t]>> \o chain
                     /\ UNCHANGED <<next, value, heap, locals, array>>

\* try_push: the exchange of top_.  If it fails, push visits the array.
PushSwing(t) ==
  /\ pc[t] = "push_swing"
  /\ IF top = expected_top[t]
     THEN /\ Goto(t, "push_swing", "return")
          /\ top' = new_node[t]
          /\ chain' = <<new_node[t]>> \o chain
          /\ UNCHANGED array
     ELSE /\ Goto(t, "push_swing", "push_visit")
          /\ Array!Offer(t, val[t])
          /\ UNCHANGED <<top, chain>>
  /\ UNCHANGED <<next, value, heap, locals>>

\* Mutant: a push that met another push returns as if it had met a pop.
PushCollectAny(t) ==
  /\ pc[t] = "push_visit"
  /\ Array!Collect(t)
  /\ IF got[t] # NoValue
     THEN /\ Goto(t, "push_visit", "return")
          /\ heap' = heap \ {new_node[t]}
     ELSE /\ Goto(t, "push_visit", "push_load")
          /\ UNCHANGED heap
  /\ UNCHANGED <<top, next, value, chain, locals>>

\* Mutant: push visits the array until it meets a pop.
PushCollectStay(t) ==
  /\ pc[t] = "push_visit" /\ phase[t] = "done"
  /\ IF got[t] = PopToken
     THEN /\ Array!Collect(t)
          /\ Goto(t, "push_visit", "return")
          /\ heap' = heap \ {new_node[t]}
     ELSE /\ phase' = [phase EXCEPT ![t] = "offered"]
          /\ got' = [got EXCEPT ![t] = NoValue]
          /\ UNCHANGED <<offer, heap, pc>>
  /\ UNCHANGED <<top, next, value, chain, locals>>

\* visit returns.  A push that met a pop is done, and its node is deleted.
PushCollect(t) ==
  /\ pc[t] = "push_visit"
  /\ Array!Collect(t)
  /\ IF got[t] = PopToken
     THEN /\ Goto(t, "push_visit", "return")
          /\ heap' = heap \ {new_node[t]}
     ELSE /\ Goto(t, "push_visit", "push_load")
          /\ UNCHANGED heap
  /\ UNCHANGED <<top, next, value, chain, locals>>

----------------------------------------------------------------------------
(* pop *)

PopBegin(t) == /\ Goto(t, "idle", "pop_load")
               /\ UNCHANGED <<memory, locals, array>>

\* try_pop: load top_; throw "Stack is empty" if there is none.
PopLoad(t) == /\ Goto(t, "pop_load", IF top = Null THEN "empty" ELSE "pop_swing")
              /\ expected_top' = [expected_top EXCEPT ![t] = top]
              /\ UNCHANGED <<memory, new_node, val, array>>

\* Mutant: the popped node is deleted, as the note on top of the file plans.
PopSwingFree(t) ==
  /\ pc[t] = "pop_swing"
  /\ IF top = expected_top[t]
     THEN /\ Goto(t, "pop_swing", "return")
          /\ top' = next[top]
          /\ chain' = Tail(chain)
          /\ heap' = heap \ {top}
          /\ val' = [val EXCEPT ![t] = value[top]]
          /\ UNCHANGED array
     ELSE /\ Goto(t, "pop_swing", "pop_visit")
          /\ Array!Offer(t, PopToken)
          /\ UNCHANGED <<top, chain, val, heap>>
  /\ UNCHANGED <<next, value, new_node, expected_top>>

\* try_pop: the exchange of top_ with the successor of the node read before.
\* If it fails, pop visits the array.
PopSwing(t) ==
  /\ pc[t] = "pop_swing"
  /\ IF top = expected_top[t]
     THEN /\ Goto(t, "pop_swing", "return")
          /\ top' = next[expected_top[t]]
          /\ chain' = Tail(chain)
          /\ val' = [val EXCEPT ![t] = value[expected_top[t]]]
          /\ UNCHANGED array
     ELSE /\ Goto(t, "pop_swing", "pop_visit")
          /\ Array!Offer(t, PopToken)
          /\ UNCHANGED <<top, chain, val>>
  /\ UNCHANGED <<next, value, heap, new_node, expected_top>>

\* visit returns.  A pop that met a push returns its value.
PopCollect(t) ==
  /\ pc[t] = "pop_visit"
  /\ Array!Collect(t)
  /\ IF got[t] \in Values
     THEN /\ Goto(t, "pop_visit", "return")
          /\ val' = [val EXCEPT ![t] = got[t]]
     ELSE /\ Goto(t, "pop_visit", "pop_load")
          /\ UNCHANGED val
  /\ UNCHANGED <<memory, new_node, expected_top>>

----------------------------------------------------------------------------
\* push or pop returns, or pop throws: the locals are gone.
Return(t) == /\ Goto(t, pc[t], "idle")
             /\ pc[t] \in {"return", "empty"}
             /\ new_node' = [new_node EXCEPT ![t] = Null]
             /\ expected_top' = [expected_top EXCEPT ![t] = Null]
             /\ val' = [val EXCEPT ![t] = NoValue]
             /\ UNCHANGED <<memory, array>>

\* What goes on in the elimination array.
Meet(t, u) == Array!Match(t, u) /\ UNCHANGED <<memory, locals, pc>>
TimeOut(t) == Array!Miss(t) /\ UNCHANGED <<memory, locals, pc>>

Step(t) == \/ PushLoad(t) \/ PushSwing(t) \/ PushCollect(t)
           \/ PopLoad(t) \/ PopSwing(t) \/ PopCollect(t)
           \/ Return(t) \/ TimeOut(t)

Next == \E t \in Threads : \/ PushBegin(t) \/ PopBegin(t)
                           \/ Step(t)
                           \/ \E u \in Threads : Meet(t, u)

Spec == Init /\ [][Next]_vars

----------------------------------------------------------------------------
(* Properties *)

\* The nodes from top_ on are those pushed and not popped, and none of them
\* is freed or can be changed by the push that still owns it.
ChainShape ==
  /\ top = IF chain = <<>> THEN Null ELSE chain[1]
  /\ \A i \in 1 .. Len(chain) :
       /\ chain[i] \in heap
       /\ next[chain[i]] = IF i = Len(chain) THEN Null ELSE chain[i + 1]
       /\ \A t \in Threads : pc[t] \in {"push_load", "push_swing", "push_visit"} =>
                               new_node[t] # chain[i]

\* A node that a pop has read from top_ is not reused while the pop may still
\* exchange it: the successor it read is the one the node has.
NoReuse == \A t \in Threads : pc[t] = "pop_swing" =>
             /\ expected_top[t] \in heap
             /\ \A u \in Threads :
                  pc[u] \in {"push_load", "push_swing", "push_visit"} =>
                    new_node[u] # expected_top[t]

MetPop(t) == pc[t] = "push_visit" /\ got[t] = PopToken
MetPush(t) == pc[t] = "pop_visit" /\ got[t] \in Values

Pushing(t) == \/ pc[t] \in {"push_load", "push_swing", "push_visit"}
              \/ pc[t] = "return" /\ new_node[t] # Null

callPhase == [t \in Threads |->
                IF pc[t] = "idle" THEN "idle"
                ELSE IF pc[t] = "empty" THEN "popEmpty"
                ELSE IF Pushing(t)
                THEN IF pc[t] = "return" \/ MetPop(t) THEN "pushDone" ELSE "push"
                ELSE IF pc[t] = "return" \/ MetPush(t) THEN "popDone" ELSE "pop"]

callData == [t \in Threads |->
               IF MetPush(t) THEN got[t] ELSE val[t]]

\* The values from top_ on.
contents == [i \in 1 .. Len(chain) |-> value[chain[i]]]

Lifo == INSTANCE LifoStack WITH stack <- contents,
                                phase <- callPhase, data <- callData

\* Linearizability of push and pop, whether they meet at the top or in the
\* elimination array.
ImplementsStack == Lifo!Spec

=============================================================================
