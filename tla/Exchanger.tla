------------------------------ MODULE Exchanger ------------------------------
(***************************************************************************)
(* The promise of an exchanger: a thread that offers an item comes back    *)
(* with the item of one other thread, which then gets the item of this     *)
(* one, or empty-handed.                                                   *)
(***************************************************************************)
CONSTANTS Threads,   \* the callers of exchange
          Items,     \* the items that can be offered
          NoItem     \* the empty optional, not an item

VARIABLES phase,     \* "idle", "offered", or "done", for each thread
          offer,     \* the item each thread offers
          got        \* the item it gets

vars == <<phase, offer, got>>

Init == /\ phase = [t \in Threads |-> "idle"]
        /\ offer = [t \in Threads |-> NoItem]
        /\ got = [t \in Threads |-> NoItem]

Offer(t, i) == /\ phase[t] = "idle"
               /\ phase' = [phase EXCEPT ![t] = "offered"]
               /\ offer' = [offer EXCEPT ![t] = i]
               /\ UNCHANGED got

\* t and u swap their items.
Match(t, u) == /\ t # u
               /\ phase[t] = "offered" /\ phase[u] = "offered"
               /\ phase' = [phase EXCEPT ![t] = "done", ![u] = "done"]
               /\ got' = [got EXCEPT ![t] = offer[u], ![u] = offer[t]]
               /\ UNCHANGED offer

\* The time of t has run out before it met anybody.
Miss(t) == /\ phase[t] = "offered"
           /\ phase' = [phase EXCEPT ![t] = "done"]
           /\ UNCHANGED <<offer, got>>

Collect(t) == /\ phase[t] = "done"
              /\ phase' = [phase EXCEPT ![t] = "idle"]
              /\ offer' = [offer EXCEPT ![t] = NoItem]
              /\ got' = [got EXCEPT ![t] = NoItem]

Next == \E t \in Threads : \/ \E i \in Items : Offer(t, i)
                           \/ \E u \in Threads : Match(t, u)
                           \/ Miss(t)
                           \/ Collect(t)

Spec == Init /\ [][Next]_vars

=============================================================================
