-------------------------- MODULE LockFreeExchanger --------------------------
(***************************************************************************)
(* snake::LockFreeExchanger and snake::EliminationArray                    *)
(* (lockless/stack/lockfree_exchanger.hpp): an array of slots in each of   *)
(* which two threads can swap an integer through one atomic word.          *)
(*                                                                         *)
(* The word is 64 bits wide: two state bits at BITS_POS = 61, the other    *)
(* bits for the item.  The model keeps that layout at a smaller width: the *)
(* item has BITS_POS bits below the state and one, the sign, above it.     *)
(*                                                                         *)
(* The clock of a call is before, at or after run_until; it only moves on. *)
(***************************************************************************)
EXTENDS Integers

CONSTANTS Threads,    \* the threads that call visit
          Slots,      \* the indices of exchangers_
          T_BITS,     \* the width of T
          BITS_POS,   \* the position of the state bits
          NoItem      \* the empty optional

STATE_EMPTY == 0
STATE_WAITING == 1
STATE_BUSY == 2

\* T is a signed type that leaves the state bits alone.  (For a T of 64 bits
\* the comment on line 11 asks the caller to see to that.)
ASSUME WidthAssumption ==
  BITS_POS \in Nat /\ T_BITS \in Nat /\ 1 <= T_BITS /\ T_BITS <= BITS_POS
ASSUME NoItemAssumption == NoItem \notin Int

\* The values of the type T.
T == -(2^(T_BITS - 1)) .. 2^(T_BITS - 1) - 1

VARIABLES
  value_and_state,    \* value_and_state_ of each slot
  clock,              \* "before", "at" or "after" run_until, for each thread
  xpc,                \* the next step of each thread
  slot,               \* visit: index
  item,               \* value, the argument
  current,            \* current_value_and_state, 0 once it is not used any more
  taken               \* the result

vars == <<value_and_state, clock, xpc, slot, item, current, taken>>
xlocals == <<slot, item, current, taken>>

----------------------------------------------------------------------------
(* The word *)

\* static_cast<int64_t> of a T, as the unsigned value of the word's bits.
ToWord(v) == v % 2^(BITS_POS + 3)

\* w & ~(STATE_MASK << BITS_POS)
ValueBits(w) == (w % 2^BITS_POS)
                  + (w \div 2^(BITS_POS + 2)) * 2^(BITS_POS + 2)

\* (w >> BITS_POS) & STATE_MASK
State(w) == (w \div 2^BITS_POS) % 4

\* Mutant: the sign of the item is not masked out of the state bits.
PackUnmasked(v, state) == IF v < 0 THEN ToWord(v)
                          ELSE ToWord(v) + state * 2^BITS_POS

\* value & ~(STATE_MASK << BITS_POS) | state << BITS_POS
Pack(v, state) == ValueBits(ToWord(v)) + state * 2^BITS_POS

\* The conversion of a word to T keeps the low bits, and their sign.
ToT(w) == LET low == w % 2^T_BITS
          IN IF low >= 2^(T_BITS - 1) THEN low - 2^T_BITS ELSE low

----------------------------------------------------------------------------
Init == /\ value_and_state = [s \in Slots |-> STATE_EMPTY]
        /\ clock = [t \in Threads |-> "before"]
        /\ xpc = [t \in Threads |-> "idle"]
        /\ slot \in [Threads -> {CHOOSE s \in Slots : TRUE}]
        /\ item = [t \in Threads |-> 0]
        /\ current = [t \in Threads |-> 0]
        /\ taken = [t \in Threads |-> NoItem]

Goto(t, from, to) == /\ xpc[t] = from
                     /\ xpc' = [xpc EXCEPT ![t] = to]

Word(t) == value_and_state[slot[t]]
SetWord(t, w) == value_and_state' = [value_and_state EXCEPT ![slot[t]] = w]
Result(t, r) == taken' = [taken EXCEPT ![t] = r]

\* visit picks a slot at random and calls exchange there.
Visit(t, s, v) == /\ Goto(t, "idle", "top")
                  /\ slot' = [slot EXCEPT ![t] = s]
                  /\ item' = [item EXCEPT ![t] = v]
                  /\ UNCHANGED <<value_and_state, clock, current, taken>>

\* Time passes.
Tick(t) == /\ xpc[t] \notin {"idle", "return"}
           /\ \/ clock[t] = "before" /\ clock' = [clock EXCEPT ![t] = "at"]
              \/ clock[t] = "at" /\ clock' = [clock EXCEPT ![t] = "after"]
           /\ UNCHANGED <<value_and_state, xpc, xlocals>>

\* The head of the outer loop.
GiveUp(t) == /\ Goto(t, "top", "return")
             /\ clock[t] = "after"
             /\ UNCHANGED <<value_and_state, clock, xlocals>>

\* Read the word; what comes next depends on its state.
LoadWord(t) ==
  /\ clock[t] # "after"
  /\ Goto(t, "top", CASE State(Word(t)) = STATE_EMPTY   -> "propose"
                      [] State(Word(t)) = STATE_WAITING -> "answer"
                      [] State(Word(t)) = STATE_BUSY    -> "top"
                      [] OTHER                          -> "invalid")
  /\ current' = [current EXCEPT ![t] = IF State(Word(t)) = STATE_BUSY
                                       THEN 0 ELSE Word(t)]
  /\ UNCHANGED <<value_and_state, clock, slot, item, taken>>

\* Mutant: the proposal is stored without comparing.
ProposeBlind(t) ==
  /\ Goto(t, "propose", "wait")
  /\ SetWord(t, Pack(item[t], STATE_WAITING))
  /\ current' = [current EXCEPT ![t] = 0]
  /\ UNCHANGED <<clock, slot, item, taken>>

\* The slot was empty: propose an exchange.
Propose(t) ==
  /\ xpc[t] = "propose"
  /\ IF Word(t) = current[t]
     THEN /\ Goto(t, "propose", "wait")
          /\ SetWord(t, Pack(item[t], STATE_WAITING))
     ELSE /\ Goto(t, "propose", "top")
          /\ UNCHANGED value_and_state
  /\ current' = [current EXCEPT ![t] = 0]
  /\ UNCHANGED <<clock, slot, item, taken>>

\* The loop that waits for an answer, until the time is up.
Poll(t) == /\ clock[t] = "before"
           /\ Goto(t, "wait", IF State(Word(t)) = STATE_BUSY THEN "take" ELSE "wait")
           /\ Result(t, IF State(Word(t)) = STATE_BUSY
                        THEN ToT(ValueBits(Word(t))) ELSE NoItem)
           /\ UNCHANGED <<value_and_state, clock, slot, item, current>>

\* Mutant: the loop allows itself the whole time again.
StopWaitingNot(t) == /\ Goto(t, "wait", "wait")
                     /\ clock[t] # "before"
                     /\ clock' = [clock EXCEPT ![t] = "before"]
                     /\ UNCHANGED <<value_and_state, xlocals>>

StopWaiting(t) == /\ Goto(t, "wait", "revert")
                  /\ clock[t] # "before"
                  /\ UNCHANGED <<value_and_state, clock, xlocals>>

\* Mutant: a proposal that has timed out is withdrawn without looking.
RevertBlind(t) == /\ Goto(t, "revert", "return")
                  /\ SetWord(t, STATE_EMPTY)
                  /\ UNCHANGED <<clock, xlocals>>

\* Withdraw the proposal, unless it has been answered meanwhile.
Revert(t) == /\ xpc[t] = "revert"
             /\ IF Word(t) = Pack(item[t], STATE_WAITING)
                THEN /\ Goto(t, "revert", "return")
                     /\ SetWord(t, STATE_EMPTY)
                ELSE /\ Goto(t, "revert", "grab")
                     /\ UNCHANGED value_and_state
             /\ UNCHANGED <<clock, xlocals>>

\* It has been: read the answer.
Grab(t) == /\ Goto(t, "grab", "take")
           /\ Result(t, ToT(ValueBits(Word(t))))
           /\ UNCHANGED <<value_and_state, clock, slot, item, current>>

\* Free the slot and return the answer.
Take(t) == /\ Goto(t, "take", "return")
           /\ SetWord(t, STATE_EMPTY)
           /\ UNCHANGED <<clock, xlocals>>

\* Another thread was waiting: answer it, if it still is.
Answer(t) == /\ xpc[t] = "answer"
             /\ IF Word(t) = current[t]
                THEN /\ Goto(t, "answer", "return")
                     /\ SetWord(t, Pack(item[t], STATE_BUSY))
                     /\ Result(t, ToT(ValueBits(current[t])))
                ELSE /\ Goto(t, "answer", "top")
                     /\ UNCHANGED <<value_and_state, taken>>
             /\ current' = [current EXCEPT ![t] = 0]
             /\ UNCHANGED <<clock, slot, item>>

\* exchange has returned: its locals are gone.
Return(t) == /\ Goto(t, "return", "idle")
             /\ clock' = [clock EXCEPT ![t] = "before"]
             /\ slot' = [slot EXCEPT ![t] = CHOOSE s \in Slots : TRUE]
             /\ item' = [item EXCEPT ![t] = 0]
             /\ current' = [current EXCEPT ![t] = 0]
             /\ Result(t, NoItem)
             /\ UNCHANGED value_and_state

----------------------------------------------------------------------------
Step(t) == \/ GiveUp(t) \/ LoadWord(t) \/ Propose(t) \/ Poll(t)
           \/ StopWaiting(t) \/ Revert(t) \/ Grab(t) \/ Take(t) \/ Answer(t)
           \/ Return(t)

Next == \E t \in Threads : \/ \E s \in Slots, v \in T : Visit(t, s, v)
                           \/ Tick(t)
                           \/ Step(t)

Spec == Init /\ [][Next]_vars

----------------------------------------------------------------------------
(* Properties *)

\* A thread that waits in slot s, or is about to clear it.
Owns(t, s) == slot[t] = s /\ xpc[t] \in {"wait", "revert", "grab", "take"}

\* A slot belongs to at most one waiting thread, from its proposal to the
\* store that empties the slot, and is empty when it belongs to nobody: the
\* plain store of STATE_EMPTY wipes out nobody else's proposal or answer.
SlotOwnership ==
  \A s \in Slots :
    /\ value_and_state[s] = STATE_EMPTY <=> ~\E t \in Threads : Owns(t, s)
    /\ \A t, u \in Threads : Owns(t, s) /\ Owns(u, s) => t = u

\* "Invalid state" (line 73) is never thrown.
NoInvalidState == \A t \in Threads : xpc[t] # "invalid"

\* An answered thread: the item is in its slot or already read.
Answered(t) == \/ xpc[t] = "take"
               \/ /\ xpc[t] \in {"wait", "revert", "grab"}
                  /\ State(Word(t)) = STATE_BUSY

callPhase == [t \in Threads |-> IF xpc[t] = "idle" THEN "idle"
                                ELSE IF xpc[t] = "return" \/ Answered(t) THEN "done"
                                ELSE "offered"]

callOffer == [t \in Threads |-> IF xpc[t] = "idle" THEN NoItem ELSE item[t]]

callGot == [t \in Threads |-> IF Answered(t) /\ xpc[t] # "take"
                              THEN ToT(ValueBits(Word(t))) ELSE taken[t]]

Abstract == INSTANCE Exchanger WITH Items <- T, phase <- callPhase,
                                    offer <- callOffer, got <- callGot

\* Items are swapped in pairs, none is lost, made up or handed out twice, and
\* a call that comes back empty-handed has given nothing away.
ImplementsExchanger == Abstract!Spec

=============================================================================
