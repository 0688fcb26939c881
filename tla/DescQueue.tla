----------------------------- MODULE DescQueue ------------------------------
(***************************************************************************)
(* What the descriptor queue manager promises, without its pipeline and    *)
(* operation table (docs/source/modules/queue_manager.rst, "three          *)
(* pointers").  Every queue has a producer pointer the host moves, a shadow *)
(* pointer that moves when a descriptor is handed out, and a host-facing   *)
(* consumer pointer that moves when a descriptor has been read.  Each      *)
(* posted descriptor is handed out once, in order, and the consumer        *)
(* pointer follows the shadow pointer one descriptor at a time.            *)
(***************************************************************************)
EXTENDS Integers

CONSTANTS Queues, PtrMod

VARIABLES enabled, prod, shadow, cons

dq_vars == <<enabled, prod, shadow, cons>>

Ptrs == 0 .. PtrMod - 1
Succ(p) == (p + 1) % PtrMod
Ahead(a, b) == (b - a) % PtrMod

Init ==
    /\ enabled = [q \in Queues |-> FALSE]
    /\ prod = [q \in Queues |-> 0]
    /\ shadow = [q \in Queues |-> 0]
    /\ cons = [q \in Queues |-> 0]

\* The host posts descriptors: it never takes back one that is not handed out.
Post(q) ==
    /\ \E p \in Ptrs :
          /\ Ahead(shadow[q], prod[q]) < Ahead(shadow[q], p)
          /\ prod' = [prod EXCEPT ![q] = p]
    /\ UNCHANGED <<enabled, shadow, cons>>

\* A descriptor is handed out.
Issue(q) ==
    /\ enabled[q]
    /\ shadow[q] # prod[q]
    /\ shadow' = [shadow EXCEPT ![q] = Succ(@)]
    /\ UNCHANGED <<enabled, prod, cons>>

\* The oldest descriptor handed out has been read.
Retire(q) ==
    /\ cons[q] # shadow[q]
    /\ cons' = [cons EXCEPT ![q] = Succ(@)]
    /\ UNCHANGED <<enabled, prod, shadow>>

\* The host programs an idle, disabled queue.
Program(q) ==
    /\ ~enabled[q]
    /\ cons[q] = shadow[q]
    /\ \E p, c \in Ptrs :
          /\ prod' = [prod EXCEPT ![q] = p]
          /\ shadow' = [shadow EXCEPT ![q] = c]
          /\ cons' = [cons EXCEPT ![q] = c]
    /\ UNCHANGED enabled

Enable(q) ==
    /\ \E b \in BOOLEAN : enabled' = [enabled EXCEPT ![q] = b]
    /\ UNCHANGED <<prod, shadow, cons>>

Next == \E q \in Queues : Post(q) \/ Issue(q) \/ Retire(q) \/ Program(q) \/ Enable(q)

Spec == Init /\ [][Next]_dq_vars
=============================================================================
