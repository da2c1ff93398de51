---------------------------- MODULE CombiningTree ----------------------------
(***************************************************************************)
(* snake::CombiningTree (lockless/combining_tree/combining_tree.hpp): a    *)
(* counter whose increments are combined on the way up a binary tree.      *)
(*                                                                         *)
(* The methods of a node run under its mutex, which only a wait releases:  *)
(* a method is one step up to its wait, and one from the wait on.  A       *)
(* thread that waits is woken up by notify_all or spuriously, and tests    *)
(* its condition again.                                                    *)
(***************************************************************************)
EXTENDS Integers, Sequences

CONSTANTS NUM_THREADS,  \* each thread id has a leaf of its own
          Threads,      \* the ids of the threads that call get_and_increment
          MaxCalls      \* bound: the number of calls of a behaviour

ASSUME NumThreadsAssumption == NUM_THREADS \in Nat \ {0}
ASSUME ThreadsAssumption == Threads \subseteq 0 .. NUM_THREADS - 1
ASSUME MaxCallsAssumption == MaxCalls \in Nat

Nodes == 0 .. 2 * NUM_THREADS - 2
Root == 0
Parent(n) == (n - 1) \div 2
Leaf(t) == NUM_THREADS - 1 + t

VARIABLES
  state, is_locked, first, second, result,   \* the fields of each node
  pc,           \* the next step of each thread
  node,         \* node: where the thread is in the tree
  stop,         \* stop: where its precombining phase ended
  combined,     \* combined: what it carries up
  stack,        \* stack: the nodes it has to come back to
  before,       \* before, the result
  started,      \* history: the number of calls begun
  returned,     \* history: the results returned
  floor         \* history: the least value above all the results that had
                \* been returned when the call of t began

fields == <<state, is_locked, first, second, result>>
locals == <<node, stop, combined, stack, before>>
history == <<started, returned, floor>>
vars == <<fields, locals, history, pc>>

\* The constructor of the inner nodes and leaves, and that of the root.
State(n) == IF n = Root THEN "ROOT" ELSE "IDLE"

Init == /\ state = [n \in Nodes |-> State(n)]
        /\ is_locked = [n \in Nodes |-> FALSE]
        /\ first = [n \in Nodes |-> 0]
        /\ second = [n \in Nodes |-> 0]
        /\ result = [n \in Nodes |-> 0]
        /\ pc = [t \in Threads |-> "idle"]
        /\ node = [t \in Threads |-> Leaf(t)]
        /\ stop = [t \in Threads |-> Root]
        /\ combined = [t \in Threads |-> 0]
        /\ stack = [t \in Threads |-> <<>>]
        /\ before = [t \in Threads |-> -1]
        /\ started = 0
        /\ returned = {}
        /\ floor = [t \in Threads |-> 0]

\* The waits, and where a thread goes on when it is woken up.
Waiting == {"precombine_wait", "combine_wait", "op_wait"}
Awake(p) == CASE p = "precombine_wait" -> "precombine"
              [] p = "combine_wait"    -> "combine"
              [] p = "op_wait"         -> "op_result"

Goto(t, from, to) == /\ pc[t] = from
                     /\ pc' = [pc EXCEPT ![t] = to]

\* t goes on, having called cv.notify_all at its node.
NotifyAndGoto(t, to) ==
  pc' = [u \in Threads |->
           IF u = t THEN to
           ELSE IF pc[u] \in Waiting /\ node[u] = node[t] THEN Awake(pc[u])
           ELSE pc[u]]

----------------------------------------------------------------------------
Call(t) == /\ Goto(t, "idle", "precombine")
           /\ started < MaxCalls
           /\ started' = started + 1
           /\ floor' = [floor EXCEPT ![t] =
                          CHOOSE k \in 0 .. MaxCalls :
                            /\ \A v \in returned : v < k
                            /\ k = 0 \/ k - 1 \in returned]
           /\ node' = [node EXCEPT ![t] = Leaf(t)]
           /\ UNCHANGED <<fields, stop, combined, stack, before, returned>>

\* node->precombine() and the loop around it: up while t is the first to come.
\* The state that the switch does not expect is an exception.
PrecombineWait(t) == /\ Goto(t, "precombine", "precombine_wait")
                     /\ is_locked[node[t]]
                     /\ UNCHANGED <<fields, locals, history>>

\* The precombining phase ends at node; combining starts at the leaf.
StopAtNode(t) == /\ stop' = [stop EXCEPT ![t] = node[t]]
                 /\ node' = [node EXCEPT ![t] = Leaf(t)]
                 /\ combined' = [combined EXCEPT ![t] = 1]
                 /\ Goto(t, "precombine",
                         IF node[t] = Leaf(t) THEN "op" ELSE "combine")
                 /\ UNCHANGED <<stack, before>>

\* Mutant: precombine does not wait for the node to be unlocked.
PrecombineNoWait(t) ==
  LET n == node[t] IN
  /\ pc[t] = "precombine"
  /\ IF state[n] = "IDLE"
     THEN /\ state' = [state EXCEPT ![n] = "FIRST"]
          /\ node' = [node EXCEPT ![t] = Parent(n)]
          /\ UNCHANGED <<is_locked, stop, combined, stack, before, pc>>
     ELSE IF state[n] = "FIRST"
     THEN /\ is_locked' = [is_locked EXCEPT ![n] = TRUE]
          /\ state' = [state EXCEPT ![n] = "SECOND"]
          /\ StopAtNode(t)
     ELSE IF state[n] = "ROOT"
     THEN StopAtNode(t) /\ UNCHANGED <<state, is_locked>>
     ELSE /\ Goto(t, "precombine", "throw")
          /\ UNCHANGED <<state, is_locked, locals>>
  /\ UNCHANGED <<first, second, result, history>>

Precombine(t) ==
  LET n == node[t] IN
  /\ pc[t] = "precombine"
  /\ ~is_locked[n]
  /\ \/ /\ state[n] = "IDLE"
        /\ state' = [state EXCEPT ![n] = "FIRST"]
        /\ node' = [node EXCEPT ![t] = Parent(n)]
        /\ UNCHANGED <<is_locked, stop, combined, stack, before, pc>>
     \/ /\ state[n] = "FIRST"
        /\ is_locked' = [is_locked EXCEPT ![n] = TRUE]
        /\ state' = [state EXCEPT ![n] = "SECOND"]
        /\ StopAtNode(t)
     \/ /\ state[n] = "ROOT"
        /\ StopAtNode(t)
        /\ UNCHANGED <<state, is_locked>>
     \/ /\ state[n] \notin {"IDLE", "FIRST", "ROOT"}
        /\ Goto(t, "precombine", "throw")
        /\ UNCHANGED <<state, is_locked, locals>>
  /\ UNCHANGED <<first, second, result, history>>

\* node->combine(combined) and the loop around it, up to stop.
CombineWait(t) == /\ Goto(t, "combine", "combine_wait")
                  /\ is_locked[node[t]]
                  /\ UNCHANGED <<fields, locals, history>>

Combine(t) ==
  LET n == node[t] IN
  /\ pc[t] = "combine"
  /\ ~is_locked[n]
  /\ is_locked' = [is_locked EXCEPT ![n] = TRUE]
  /\ first' = [first EXCEPT ![n] = combined[t]]
  /\ IF state[n] \in {"FIRST", "SECOND"}
     THEN /\ combined' = [combined EXCEPT ![t] =
                            @ + (IF state[n] = "SECOND" THEN second[n] ELSE 0)]
          /\ stack' = [stack EXCEPT ![t] = Append(@, n)]
          /\ node' = [node EXCEPT ![t] = Parent(n)]
          /\ Goto(t, "combine", IF Parent(n) = stop[t] THEN "op" ELSE "combine")
     ELSE /\ Goto(t, "combine", "throw")
          /\ UNCHANGED <<combined, stack, node>>
  /\ UNCHANGED <<state, second, result, stop, before, history>>

\* What follows op: t has its result b and distributes it.
Distributing(t, b) ==
  /\ before' = [before EXCEPT ![t] = b]
  /\ node' = [node EXCEPT ![t] = IF stack[t] = <<>> THEN @
                                 ELSE stack[t][Len(stack[t])]]

AfterOp(t) == IF stack[t] = <<>> THEN "return" ELSE "distribute"

\* stop->op(combined) at the root.
OpRoot(t) ==
  LET n == node[t] IN
  /\ Goto(t, "op", AfterOp(t))
  /\ state[n] = "ROOT"
  /\ result' = [result EXCEPT ![n] = @ + combined[t]]
  /\ Distributing(t, result[n])
  /\ UNCHANGED <<state, is_locked, first, second, stop, combined, stack, history>>

\* Mutant: nobody is told that the node is unlocked.
OpSecondSilent(t) ==
  LET n == node[t] IN
  /\ Goto(t, "op", "op_wait")
  /\ state[n] = "SECOND"
  /\ second' = [second EXCEPT ![n] = combined[t]]
  /\ is_locked' = [is_locked EXCEPT ![n] = FALSE]
  /\ UNCHANGED <<state, first, result, locals, history>>

\* stop->op(combined) below the root: leave it for the first thread to
\* collect, and wait for the result.
OpSecond(t) ==
  LET n == node[t] IN
  /\ pc[t] = "op"
  /\ state[n] # "ROOT"
  /\ IF state[n] = "SECOND"
     THEN /\ second' = [second EXCEPT ![n] = combined[t]]
          /\ is_locked' = [is_locked EXCEPT ![n] = FALSE]
          /\ NotifyAndGoto(t, "op_wait")
     ELSE /\ Goto(t, "op", "throw")
          /\ UNCHANGED <<second, is_locked>>
  /\ UNCHANGED <<state, first, result, locals, history>>

OpWait(t) == /\ Goto(t, "op_result", "op_wait")
             /\ state[node[t]] # "RESULT"
             /\ UNCHANGED <<fields, locals, history>>

\* Mutant: the node is not unlocked with its result.
OpResultLocked(t) ==
  LET n == node[t] IN
  /\ pc[t] = "op_result"
  /\ state[n] = "RESULT"
  /\ state' = [state EXCEPT ![n] = "IDLE"]
  /\ NotifyAndGoto(t, AfterOp(t))
  /\ Distributing(t, result[n])
  /\ UNCHANGED <<is_locked, first, second, result, stop, combined, stack, history>>

\* The result is there: free the node for the next two threads.
OpResult(t) ==
  LET n == node[t] IN
  /\ pc[t] = "op_result"
  /\ state[n] = "RESULT"
  /\ is_locked' = [is_locked EXCEPT ![n] = FALSE]
  /\ state' = [state EXCEPT ![n] = "IDLE"]
  /\ NotifyAndGoto(t, AfterOp(t))
  /\ Distributing(t, result[n])
  /\ UNCHANGED <<first, second, result, stop, combined, stack, history>>

\* Notify, and pop the stack: back to the node below, or out.
PopStack(t) ==
  LET rest == SubSeq(stack[t], 1, Len(stack[t]) - 1) IN
  /\ stack' = [stack EXCEPT ![t] = rest]
  /\ node' = [node EXCEPT ![t] = IF rest = <<>> THEN @ ELSE rest[Len(rest)]]
  /\ NotifyAndGoto(t, IF rest = <<>> THEN "return" ELSE "distribute")

\* Mutant: the second thread gets the values after its own.
SecondResultOwn(t, n) == before[t] + second[n]

\* The result of the second thread at n: its values follow those of the first.
SecondResult(t, n) == before[t] + first[n]

\* node->distribute(before): the second thread, if there was one, gets the
\* values after those of the first.
Distribute(t) ==
  LET n == node[t] IN
  /\ pc[t] = "distribute"
  /\ \/ /\ state[n] = "FIRST"
        /\ state' = [state EXCEPT ![n] = "IDLE"]
        /\ is_locked' = [is_locked EXCEPT ![n] = FALSE]
        /\ PopStack(t)
        /\ UNCHANGED result
     \/ /\ state[n] = "SECOND"
        /\ result' = [result EXCEPT ![n] = SecondResult(t, n)]
        /\ state' = [state EXCEPT ![n] = "RESULT"]
        /\ PopStack(t)
        /\ UNCHANGED is_locked
     \/ /\ state[n] \notin {"FIRST", "SECOND"}
        /\ Goto(t, "distribute", "throw")
        /\ UNCHANGED <<state, is_locked, result, stack, node>>
  /\ UNCHANGED <<first, second, stop, combined, before, history>>

Return(t) == /\ Goto(t, "return", "idle")
             /\ returned' = returned \cup {before[t]}
             /\ node' = [node EXCEPT ![t] = Leaf(t)]
             /\ stop' = [stop EXCEPT ![t] = Root]
             /\ combined' = [combined EXCEPT ![t] = 0]
             /\ before' = [before EXCEPT ![t] = -1]
             /\ floor' = [floor EXCEPT ![t] = 0]
             /\ UNCHANGED <<fields, stack, started>>

SpuriousWakeup(t) == /\ pc[t] \in Waiting
                     /\ pc' = [pc EXCEPT ![t] = Awake(pc[t])]
                     /\ UNCHANGED <<fields, locals, history>>

----------------------------------------------------------------------------
Step(t) == \/ PrecombineWait(t) \/ Precombine(t)
           \/ CombineWait(t) \/ Combine(t)
           \/ OpRoot(t) \/ OpSecond(t) \/ OpWait(t) \/ OpResult(t)
           \/ Distribute(t) \/ Return(t)

Next == \E t \in Threads : Call(t) \/ Step(t) \/ SpuriousWakeup(t)

Spec == Init /\ [][Next]_vars

\* The scheduler runs every thread that can run, a call that has begun to its
\* end; nobody has to begin one, and no wakeup need be spurious.
FairSpec == Spec /\ \A t \in Threads : WF_vars(Step(t))

----------------------------------------------------------------------------
(* Properties *)

\* None of the three switches meets a state it does not expect: whatever the
\* interleaving, the two threads that meet at a node play the two parts the
\* protocol has.
NoInvalidState == \A t \in Threads : pc[t] # "throw"

\* A result is new, is not above the number of calls begun, and is above every
\* result that had been returned when the call began.  For a counter this is
\* linearizability.
ResultsInOrder ==
  \A t \in Threads : pc[t] = "return" =>
    /\ floor[t] <= before[t] /\ before[t] < started
    /\ before[t] \notin returned
    /\ \A u \in Threads \ {t} : pc[u] = "return" => before[u] # before[t]

\* When all calls have returned, no value has been left out, and the tree is
\* as it was built: unlocked, every node free for two new threads.
QuietTree ==
  (\A t \in Threads : pc[t] = "idle") =>
    /\ returned = 0 .. started - 1
    /\ result[Root] = started
    /\ \A n \in Nodes : ~is_locked[n] /\ state[n] \in {"IDLE", "ROOT"}

\* Mutant: the logarithm is truncated.
max_stack_depth_truncated == CHOOSE d \in 0 .. NUM_THREADS :
                               /\ 2^d <= NUM_THREADS
                               /\ NUM_THREADS < 2^(d + 1)

\* ceil(log2(NUM_THREADS)), the size of the array stack.
max_stack_depth == CHOOSE d \in 0 .. NUM_THREADS :
                     /\ NUM_THREADS <= 2^d
                     /\ \A e \in 0 .. d - 1 : 2^e < NUM_THREADS

\* The path of no thread is longer than the array that holds it.
StackInBounds == \A t \in Threads : Len(stack[t]) <= max_stack_depth

\* Every call returns: no thread waits for ever for its partner or for a node.
CallsReturn == \A t \in Threads : pc[t] # "idle" ~> pc[t] = "idle"

=============================================================================
