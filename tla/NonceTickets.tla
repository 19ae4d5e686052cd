---------------------------- MODULE NonceTickets ----------------------------
(***************************************************************************)
(* What the nonce allocator of a campaign promises, without its mutex, its *)
(* RPC or its per-case caches: for every address there is one dispenser of *)
(* consecutive numbers.  Opening it fixes the first number; taking hands   *)
(* the next number to a lane, which keeps it.                              *)
(***************************************************************************)
EXTENDS Naturals

CONSTANTS Lanes,   \* the lanes of the campaign, one per test case
          Addrs,   \* the sender addresses
          NoNonce  \* "no number yet"

VARIABLES opened,  \* opened[a]: the dispenser of a has a first number
          next,    \* next[a]: the number a hands out next
          ticket   \* ticket[l][a]: the number of a that lane l holds

vars == <<opened, next, ticket>>

Init ==
    /\ opened = [a \in Addrs |-> FALSE]
    /\ next = [a \in Addrs |-> 0]
    /\ ticket = [l \in Lanes |-> [a \in Addrs |-> NoNonce]]

\* The first number of a dispenser is whatever the node reports, once.
Open(a) ==
    /\ ~opened[a]
    /\ opened' = [opened EXCEPT ![a] = TRUE]
    /\ next'[a] \in Nat
    /\ next' = [next EXCEPT ![a] = next'[a]]
    /\ UNCHANGED ticket

\* A lane takes at most one number per address.
Take(l, a) ==
    /\ opened[a]
    /\ ticket[l][a] = NoNonce
    /\ ticket' = [ticket EXCEPT ![l][a] = next[a]]
    /\ next' = [next EXCEPT ![a] = @ + 1]
    /\ UNCHANGED opened

Next ==
    \E a \in Addrs : Open(a) \/ \E l \in Lanes : Take(l, a)

Spec == Init /\ [][Next]_vars
=============================================================================
