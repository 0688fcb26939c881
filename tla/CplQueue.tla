------------------------------ MODULE CplQueue ------------------------------
(***************************************************************************)
(* What the completion queue manager promises, without its pipeline and    *)
(* operation table.  A queue has a shadow pointer that moves when a slot   *)
(* is reserved for a completion, a producer pointer that moves, in order,  *)
(* when the completion is in host memory, and a consumer pointer the host  *)
(* moves.  A queue that is armed notifies the host once when it has        *)
(* something to consume, and disarms itself.                               *)
(***************************************************************************)
EXTENDS Integers

CONSTANTS Queues, PtrMod

VARIABLES enabled, size, prod, shadow, cons, armed, notified

cq_vars == <<enabled, size, prod, shadow, cons, armed, notified>>

Ptrs == 0 .. PtrMod - 1
Succ(p) == (p + 1) % PtrMod
Ahead(a, b) == (b - a) % PtrMod

Init ==
    /\ enabled = [q \in Queues |-> FALSE]
    /\ size = [q \in Queues |-> 1]
    /\ prod = [q \in Queues |-> 0]
    /\ shadow = [q \in Queues |-> 0]
    /\ cons = [q \in Queues |-> 0]
    /\ armed = [q \in Queues |-> FALSE]
    /\ notified = {}

\* Queues in S notify the host, which may take earlier notifications.
Notify(S) == \E taken \in SUBSET notified : notified' = (notified \ taken) \cup S

\* A slot the host has freed is reserved.
Reserve(q) ==
    /\ enabled[q]
    /\ Ahead(cons[q], shadow[q]) < size[q]
    /\ shadow' = [shadow EXCEPT ![q] = Succ(@)]
    /\ Notify({})
    /\ UNCHANGED <<enabled, size, prod, cons, armed>>

\* The oldest completion is in host memory.
Publish(q) ==
    /\ prod[q] # shadow[q]
    /\ prod' = [prod EXCEPT ![q] = Succ(@)]
    /\ armed' = [armed EXCEPT ![q] = FALSE]
    /\ Notify({r \in {q} : armed[r]})
    /\ UNCHANGED <<enabled, size, shadow, cons>>

\* The host frees slots of completions that were reserved.
Consume(q) ==
    /\ \E p \in Ptrs :
          /\ Ahead(cons[q], p) <= Ahead(cons[q], shadow[q])
          /\ cons' = [cons EXCEPT ![q] = p]
    /\ Notify({})
    /\ UNCHANGED <<enabled, size, prod, shadow, armed>>

\* The host asks to be told: at once if there is something to consume.
Arm(q) ==
    LET now == enabled[q] /\ prod[q] # cons[q]
    IN  /\ armed' = [armed EXCEPT ![q] = ~now]
        /\ Notify({r \in {q} : now})
        /\ UNCHANGED <<enabled, size, prod, shadow, cons>>

\* The host programs an idle, disabled queue.
Program(q) ==
    /\ ~enabled[q]
    /\ prod[q] = shadow[q]
    /\ \E p, c \in Ptrs, n \in 1 .. PtrMod - 1 :
          /\ prod' = [prod EXCEPT ![q] = p]
          /\ shadow' = [shadow EXCEPT ![q] = p]
          /\ cons' = [cons EXCEPT ![q] = c]
          /\ size' = [size EXCEPT ![q] = n]
    /\ Notify({})
    /\ UNCHANGED <<enabled, armed>>

Enable(q) ==
    /\ \E b \in BOOLEAN : enabled' = [enabled EXCEPT ![q] = b]
    /\ Notify({})
    /\ UNCHANGED <<size, prod, shadow, cons, armed>>

\* The host takes notifications.
Take ==
    /\ Notify({})
    /\ UNCHANGED <<enabled, size, prod, shadow, cons, armed>>

Next == \/ Take
        \/ \E q \in Queues : \/ Reserve(q) \/ Publish(q) \/ Consume(q) \/ Arm(q)
                             \/ Program(q) \/ Enable(q)

Spec == Init /\ [][Next]_cq_vars
=============================================================================
