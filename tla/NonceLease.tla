----------------------------- MODULE NonceLease -----------------------------
(***************************************************************************)
(* The nonce allocator of campaign mode: runner/nonce.go                   *)
(* (AddressNonceManager), runner/lane.go (Lane) and runner/orchestrator.go *)
(* (Orchestrator).  Every test case gets a fresh lane; all lanes share one *)
(* manager.  A lane answers a repeated request from its own cache;         *)
(* otherwise it calls the manager, which holds its mutex across the        *)
(* PendingNonceAt RPC that loads an address for the first time.            *)
(*                                                                         *)
(* Each lane is one caller.  The steps of a call that another caller or    *)
(* the node can fall between are separate actions, ordered by pc.          *)
(***************************************************************************)
EXTENDS Naturals

CONSTANTS Lanes,     \* the lanes (test cases) that lease concurrently
          Addrs,     \* the sender addresses they lease nonces of
          NoLane,    \* "the mutex is free"
          NoNonce,   \* "no nonce cached"
          MaxChain   \* bound on the node's pending nonce

ASSUME LeaseAssumption ==
    /\ Addrs # {}
    /\ NoLane \notin Lanes
    /\ NoNonce \notin Nat
    /\ MaxChain \in Nat

VARIABLES
    mu,      \* the holder of AddressNonceManager.mu, or NoLane
    next,    \* AddressNonceManager.next
    loaded,  \* AddressNonceManager.loaded
    leases,  \* Lane.leases of every lane
    pc,      \* where the call of a lane stands
    addr,    \* the address a lane is asking for
    reg,     \* the local variable `nonce` of a call
    chain,   \* the node's pending nonce of every address
    base     \* the value an address was loaded with (a history variable)

manager == <<next, loaded, base>>
vars == <<mu, next, loaded, leases, pc, addr, reg, chain, base>>

-----------------------------------------------------------------------------

\* Mutant of NewLane: the map of a new lane is never made.
NewLaneUnmade == [a \in {} |-> NoNonce]

\* A new lane shares the manager and starts with an empty cache.
NewLane == [a \in Addrs |-> NoNonce]

Init ==
    /\ mu = NoLane
    /\ next = [a \in Addrs |-> 0]
    /\ loaded = [a \in Addrs |-> FALSE]
    /\ leases = [l \in Lanes |-> NewLane]
    /\ pc = [l \in Lanes |-> "idle"]
    /\ addr = [l \in Lanes |-> CHOOSE a \in Addrs : TRUE]
    /\ reg = [l \in Lanes |-> 0]
    /\ chain \in [Addrs -> 0..MaxChain]
    /\ base = [a \in Addrs |-> 0]

\* Lane.Lease, cache hit: the lane answers by itself and changes nothing, so
\* only the cache miss is a step.  The call goes on to the manager's mutex.
Request(l, a) ==
    /\ pc[l] = "idle"
    /\ leases[l][a] = NoNonce
    /\ addr' = [addr EXCEPT ![l] = a]
    /\ pc' = [pc EXCEPT ![l] = "lock"]
    /\ UNCHANGED <<mu, leases, reg, chain, manager>>

\* Mutant of Lock: every call loads the address again.
LockIgnoringLoaded(l) ==
    /\ pc[l] = "lock"
    /\ mu = NoLane
    /\ mu' = l
    /\ pc' = [pc EXCEPT ![l] = "rpc"]
    /\ UNCHANGED <<leases, addr, reg, chain, manager>>

\* Mutant of Lock: the manager has no mutex.
LockWithoutMutex(l) ==
    /\ pc[l] = "lock"
    /\ mu' = l
    /\ pc' = [pc EXCEPT ![l] = IF loaded[addr[l]] THEN "grant" ELSE "rpc"]
    /\ UNCHANGED <<leases, addr, reg, chain, manager>>

\* m.mu.Lock(), then the test of m.loaded[address].
Lock(l) ==
    /\ pc[l] = "lock"
    /\ mu = NoLane
    /\ mu' = l
    /\ pc' = [pc EXCEPT ![l] = IF loaded[addr[l]] THEN "grant" ELSE "rpc"]
    /\ UNCHANGED <<leases, addr, reg, chain, manager>>

\* The node answers PendingNonceAt.  The caller has not read the answer yet.
RpcAnswer(l) ==
    /\ pc[l] = "rpc"
    /\ reg' = [reg EXCEPT ![l] = chain[addr[l]]]
    /\ pc' = [pc EXCEPT ![l] = "load"]
    /\ UNCHANGED <<mu, leases, addr, chain, manager>>

\* Mutant of RpcFail: the error return keeps the mutex.
RpcFailKeepsMutex(l) ==
    /\ pc[l] = "rpc"
    /\ pc' = [pc EXCEPT ![l] = "idle"]
    /\ UNCHANGED <<mu, leases, addr, reg, chain, manager>>

\* PendingNonceAt fails: the call returns the error, and the deferred unlock
\* runs on the way out.
RpcFail(l) ==
    /\ pc[l] = "rpc"
    /\ mu' = NoLane
    /\ pc' = [pc EXCEPT ![l] = "idle"]
    /\ UNCHANGED <<leases, addr, reg, chain, manager>>

\* m.next[address] = nonce; m.loaded[address] = true.
Load(l) ==
    /\ pc[l] = "load"
    /\ next' = [next EXCEPT ![addr[l]] = reg[l]]
    /\ base' = [base EXCEPT ![addr[l]] = reg[l]]
    /\ loaded' = [loaded EXCEPT ![addr[l]] = TRUE]
    /\ pc' = [pc EXCEPT ![l] = "grant"]
    /\ UNCHANGED <<mu, leases, addr, reg, chain>>

\* Mutant of Grant: next is read but not advanced.
GrantWithoutIncrement(l) ==
    /\ pc[l] = "grant"
    /\ reg' = [reg EXCEPT ![l] = next[addr[l]]]
    /\ mu' = NoLane
    /\ pc' = [pc EXCEPT ![l] = "store"]
    /\ UNCHANGED <<next, loaded, base, leases, addr, chain>>

\* nonce := m.next[address]; m.next[address]++; return, which unlocks.
Grant(l) ==
    /\ pc[l] = "grant"
    /\ reg' = [reg EXCEPT ![l] = next[addr[l]]]
    /\ next' = [next EXCEPT ![addr[l]] = @ + 1]
    /\ mu' = NoLane
    /\ pc' = [pc EXCEPT ![l] = "store"]
    /\ UNCHANGED <<loaded, base, leases, addr, chain>>

\* Back in Lane.Lease, outside the mutex: l.leases[address] = nonce, and the
\* local variable goes out of scope.
Store(l) ==
    /\ pc[l] = "store"
    /\ leases' = [leases EXCEPT ![l][addr[l]] = reg[l]]
    /\ reg' = [reg EXCEPT ![l] = 0]
    /\ pc' = [pc EXCEPT ![l] = "idle"]
    /\ UNCHANGED <<mu, addr, chain, manager>>

\* Some other sender's transaction of address a reaches the node's pool.
ChainAdvance(a) ==
    /\ chain[a] < MaxChain
    /\ chain' = [chain EXCEPT ![a] = @ + 1]
    /\ UNCHANGED <<mu, leases, pc, addr, reg, manager>>

Step(l) ==
    Lock(l) \/ RpcAnswer(l) \/ RpcFail(l) \/ Load(l) \/ Grant(l) \/ Store(l)

Next ==
    \/ \E l \in Lanes : Step(l) \/ \E a \in Addrs : Request(l, a)
    \/ \E a \in Addrs : ChainAdvance(a)

\* A goroutine that can take its next statement does so, sync.Mutex does not
\* starve a waiter, and the client library returns from an RPC (with an answer
\* or an error).  Nothing makes a caller ask, or an RPC succeed.
Fairness ==
    \A l \in Lanes :
        /\ SF_vars(Lock(l))
        /\ WF_vars(RpcAnswer(l) \/ RpcFail(l))
        /\ WF_vars(Load(l))
        /\ WF_vars(Grant(l))
        /\ WF_vars(Store(l))

Spec == Init /\ [][Next]_vars
FairSpec == Spec /\ Fairness

-----------------------------------------------------------------------------
(* Properties *)

PcSet == {"idle", "lock", "rpc", "load", "grant", "store"}

\* Every variable has its type.
TypeOK ==
    /\ mu \in Lanes \cup {NoLane}
    /\ next \in [Addrs -> Nat]
    /\ loaded \in [Addrs -> BOOLEAN]
    /\ leases \in [Lanes -> [Addrs -> Nat \cup {NoNonce}]]
    /\ pc \in [Lanes -> PcSet]
    /\ addr \in [Lanes -> Addrs]
    /\ reg \in [Lanes -> Nat]
    /\ chain \in [Addrs -> Nat]
    /\ base \in [Addrs -> Nat]

\* The nonce of a that l was granted, whether l has cached it yet or not.
Held(l, a) == IF pc[l] = "store" /\ addr[l] = a THEN reg[l] ELSE leases[l][a]

Holders(a) == {l \in Lanes : Held(l, a) # NoNonce}

\* No two lanes are ever given the same nonce of an address: two test cases of
\* one campaign never replace each other's transaction (AddressNonceManager.Lease).
UniqueLease ==
    \A a \in Addrs : \A l, m \in Holders(a) :
        l # m => Held(l, a) # Held(m, a)

\* The nonces handed out for an address are exactly those from the value the
\* node reported up to next - 1: an allocation is never skipped, also not when
\* another lane's RPC failed or the node's own nonce moved in between.
NoGapInLeases ==
    \A a \in Addrs :
        {Held(l, a) : l \in Holders(a)} =
            IF loaded[a] THEN {n \in base[a]..next[a] : n < next[a]} ELSE {}

\* A call that waits for the manager's mutex returns, with a nonce or an error,
\* also when the RPCs of the callers before it fail.
RequestReturns == \A l \in Lanes : (pc[l] = "lock") ~> (pc[l] = "idle")

\* The mutex, the RPC and the caches together implement one dispenser of
\* consecutive numbers per address.
Tickets == INSTANCE NonceTickets
    WITH opened <- loaded,
         ticket <- [l \in Lanes |-> [a \in Addrs |-> Held(l, a)]]

ImplementsTickets == Tickets!Spec

=============================================================================
