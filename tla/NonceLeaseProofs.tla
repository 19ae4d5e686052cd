-------------------------- MODULE NonceLeaseProofs --------------------------
(***************************************************************************)
(* Proofs about NonceLease for any number of lanes and addresses.  The     *)
(* inductive invariant IInv says who may hold the mutex, that a caller has *)
(* no lease of the address it asks for, and that the granted nonces of an  *)
(* address fill the interval from base to next - 1 without repetition.     *)
(***************************************************************************)
EXTENDS NonceLease, TLAPS

\* A lane is between Lock and the unlock exactly while it holds the mutex.
MutexInv == \A l \in Lanes : pc[l] \in {"rpc", "load", "grant"} <=> mu = l

\* A call in progress is about an address its lane has no lease of.
AskerEmpty == \A l \in Lanes : pc[l] # "idle" => leases[l][addr[l]] = NoNonce

\* The address is loaded exactly when a lane in the critical section may grant.
LoadedInv ==
    \A l \in Lanes :
        /\ pc[l] \in {"rpc", "load"} => ~loaded[addr[l]]
        /\ pc[l] \in {"grant", "store"} => loaded[addr[l]]

\* Every granted nonce lies between base and next.
HeldInRange ==
    \A a \in Addrs :
        /\ loaded[a] => base[a] <= next[a]
        /\ \A l \in Holders(a) :
              loaded[a] /\ base[a] <= Held(l, a) /\ Held(l, a) < next[a]

\* Every nonce between base and next was granted.
RangeHeld ==
    \A a \in Addrs :
        loaded[a] => \A n \in base[a]..next[a] :
                         n < next[a] => \E l \in Holders(a) : Held(l, a) = n

IInv ==
    /\ TypeOK /\ MutexInv /\ AskerEmpty /\ LoadedInv
    /\ HeldInRange /\ RangeHeld /\ UniqueLease

-----------------------------------------------------------------------------

\* The variables keep their types.
LEMMA TypeStep == TypeOK /\ [Next]_vars => TypeOK'
<1> SUFFICES ASSUME TypeOK, [Next]_vars PROVE TypeOK'
  OBVIOUS
<1> USE LeaseAssumption DEF TypeOK, PcSet, manager
<1>1. ASSUME NEW l \in Lanes, NEW a \in Addrs, Request(l, a) PROVE TypeOK'
  BY <1>1 DEF Request
<1>2. ASSUME NEW l \in Lanes, Lock(l) PROVE TypeOK'
  BY <1>2 DEF Lock
<1>3. ASSUME NEW l \in Lanes, RpcAnswer(l) PROVE TypeOK'
  BY <1>3 DEF RpcAnswer
<1>4. ASSUME NEW l \in Lanes, RpcFail(l) PROVE TypeOK'
  BY <1>4 DEF RpcFail
<1>5. ASSUME NEW l \in Lanes, Load(l) PROVE TypeOK'
  BY <1>5 DEF Load
<1>6. ASSUME NEW l \in Lanes, Grant(l) PROVE TypeOK'
  BY <1>6 DEF Grant
<1>7. ASSUME NEW l \in Lanes, Store(l) PROVE TypeOK'
  BY <1>7 DEF Store
<1>8. ASSUME NEW a \in Addrs, ChainAdvance(a) PROVE TypeOK'
  BY <1>8 DEF ChainAdvance
<1>9. CASE UNCHANGED vars
  BY <1>9 DEF vars
<1> QED
  BY <1>1, <1>2, <1>3, <1>4, <1>5, <1>6, <1>7, <1>8, <1>9 DEF Next, Step

\* The nonce held is a number or none.
LEMMA HeldType ==
    ASSUME TypeOK, NEW l \in Lanes, NEW a \in Addrs
    PROVE Held(l, a) \in Nat \cup {NoNonce}
BY DEF TypeOK, Held

\* The initial states satisfy the inductive invariant: nothing is granted.
LEMMA InitIInv == Init => IInv
<1> SUFFICES ASSUME Init PROVE IInv
  OBVIOUS
<1> USE LeaseAssumption DEF Init, NewLane
<1>1. TypeOK
  BY DEF TypeOK, PcSet
<1>2. MutexInv /\ AskerEmpty /\ LoadedInv
  BY DEF MutexInv, AskerEmpty, LoadedInv
<1>3. \A a \in Addrs : Holders(a) = {}
  BY DEF Holders, Held
<1>4. HeldInRange /\ RangeHeld /\ UniqueLease
  BY <1>3 DEF HeldInRange, RangeHeld, UniqueLease
<1> QED
  BY <1>1, <1>2, <1>4 DEF IInv

\* A step that changes neither the manager nor what any lane holds preserves
\* the part of the invariant that relates the two.
LEMMA HeldFrame ==
    ASSUME HeldInRange, RangeHeld, UniqueLease, UNCHANGED manager,
           \A l \in Lanes, a \in Addrs : Held(l, a)' = Held(l, a)
    PROVE  HeldInRange' /\ RangeHeld' /\ UniqueLease'
<1>1. \A a \in Addrs : Holders(a)' = Holders(a)
  BY DEF Holders
<1>2. \A a \in Addrs : \A l \in Holders(a) : l \in Lanes
  BY DEF Holders
<1>3. next' = next /\ base' = base /\ loaded' = loaded
  BY DEF manager
<1>4. HeldInRange'
  BY <1>1, <1>2, <1>3 DEF HeldInRange
<1>5. RangeHeld'
  BY <1>1, <1>2, <1>3 DEF RangeHeld
<1>6. UniqueLease'
  BY <1>1, <1>2 DEF UniqueLease
<1> QED
  BY <1>4, <1>5, <1>6

\* Before an address is loaded nobody holds a nonce of it, so loading it opens
\* an empty interval.
LEMMA LoadStep ==
    ASSUME IInv, TypeOK', NEW l \in Lanes, Load(l), NEW a \in Addrs, addr[l] = a
    PROVE  IInv'
<1> USE DEF IInv
<1>1. ~loaded[a] /\ mu = l /\ a \in Addrs
  BY DEF Load, LoadedInv, MutexInv, TypeOK
<1>2. \A m \in Lanes, b \in Addrs : Held(m, b)' = Held(m, b)
  BY DEF Load, Held, TypeOK
<1>3. \A b \in Addrs : Holders(b)' = Holders(b) /\ Holders(b) \subseteq Lanes
  BY <1>2 DEF Holders
<1>4. Holders(a) = {}
  BY <1>1 DEF HeldInRange
<1>5. MutexInv' /\ AskerEmpty'
  BY DEF Load, MutexInv, AskerEmpty, TypeOK
<1>6. LoadedInv'
  BY <1>1 DEF Load, LoadedInv, MutexInv, TypeOK
<1>7. /\ base'[a] = reg[l] /\ next'[a] = reg[l] /\ loaded'[a]
      /\ \A b \in Addrs : b # a => /\ base'[b] = base[b] /\ next'[b] = next[b]
                                   /\ loaded'[b] = loaded[b]
  BY <1>1 DEF Load, TypeOK
<1>8. reg[l] \in Nat
  BY DEF TypeOK
<1>9. HeldInRange'
  BY <1>2, <1>3, <1>4, <1>7, <1>8 DEF HeldInRange
<1>10. RangeHeld'
  BY <1>2, <1>3, <1>4, <1>7, <1>8 DEF RangeHeld
<1>11. UniqueLease'
  BY <1>2, <1>3 DEF UniqueLease
<1> QED
  BY <1>5, <1>6, <1>9, <1>10, <1>11

\* Granting gives l the value of next, which no lane holds, and moves next on.
LEMMA GrantStep ==
    ASSUME IInv, TypeOK', NEW l \in Lanes, Grant(l), NEW a \in Addrs, addr[l] = a
    PROVE  IInv'
<1> USE LeaseAssumption DEF IInv
<1>1. loaded[a] /\ a \in Addrs /\ leases[l][a] = NoNonce
  BY DEF Grant, LoadedInv, AskerEmpty, TypeOK
<1>2. /\ next \in [Addrs -> Nat] /\ base \in [Addrs -> Nat]
      /\ next'[a] = next[a] + 1
      /\ \A b \in Addrs : b # a => next'[b] = next[b]
      /\ base' = base /\ loaded' = loaded
  BY <1>1 DEF Grant, TypeOK
<1>3. Held(l, a) = NoNonce /\ Held(l, a)' = next[a]
  BY <1>1 DEF Grant, Held, TypeOK
<1>4. \A m \in Lanes, b \in Addrs : ~(m = l /\ b = a) => Held(m, b)' = Held(m, b)
  BY <1>1 DEF Grant, Held, TypeOK
<1>5. next[a] \in Nat /\ next[a] # NoNonce
  BY <1>1, <1>2
<1>6. /\ Holders(a)' = Holders(a) \cup {l} /\ l \notin Holders(a)
      /\ \A b \in Addrs : b # a => Holders(b)' = Holders(b)
      /\ \A b \in Addrs : Holders(b) \subseteq Lanes
  BY <1>1, <1>3, <1>4, <1>5 DEF Holders
<1>7. MutexInv' /\ AskerEmpty'
  BY DEF Grant, MutexInv, AskerEmpty, TypeOK
<1>8. LoadedInv'
  BY <1>1 DEF Grant, LoadedInv, TypeOK
<1>9. \A b \in Addrs : \A m \in Holders(b) :
        Held(m, b) \in Nat /\ Held(m, b) < next[b] /\ base[b] <= Held(m, b) /\ loaded[b]
  BY <1>6, HeldType DEF HeldInRange, Holders
<1>10. HeldInRange'
  <2>1. \A b \in Addrs : loaded'[b] => base'[b] <= next'[b]
    BY <1>2 DEF HeldInRange
  <2>2. \A b \in Addrs : \A m \in Holders(b)' :
          loaded'[b] /\ base'[b] <= Held(m, b)' /\ Held(m, b)' < next'[b]
    <3> SUFFICES ASSUME NEW b \in Addrs, NEW m \in Holders(b)'
                 PROVE  loaded'[b] /\ base'[b] <= Held(m, b)' /\ Held(m, b)' < next'[b]
      OBVIOUS
    <3>1. CASE m = l /\ b = a
      BY <3>1, <1>1, <1>2, <1>3 DEF HeldInRange
    <3>2. CASE ~(m = l /\ b = a)
      <4>1. m \in Holders(b) /\ m \in Lanes
        BY <3>2, <1>6
      <4>2. Held(m, b)' = Held(m, b)
        BY <4>1, <3>2, <1>4
      <4> QED
        BY <4>1, <4>2, <1>2, <1>9
    <3> QED
      BY <3>1, <3>2
  <2> QED
    BY <2>1, <2>2 DEF HeldInRange
<1>11. RangeHeld'
  <2> SUFFICES ASSUME NEW b \in Addrs, loaded'[b],
                      NEW n \in base'[b]..next'[b], n < next'[b]
               PROVE  \E m \in Holders(b)' : Held(m, b)' = n
    BY DEF RangeHeld
  <2>1. CASE b = a /\ n = next[a]
    BY <2>1, <1>3, <1>6
  <2>2. CASE ~(b = a /\ n = next[a])
    <3>1. n \in base[b]..next[b] /\ n < next[b] /\ loaded[b]
      BY <2>2, <1>2
    <3>2. PICK m \in Holders(b) : Held(m, b) = n
      BY <3>1 DEF RangeHeld
    <3>3. m \in Holders(b)' /\ Held(m, b)' = n
      BY <3>2, <1>4, <1>6
    <3> QED
      BY <3>3
  <2> QED
    BY <2>1, <2>2
<1>12. UniqueLease'
  <2> SUFFICES ASSUME NEW b \in Addrs, NEW m \in Holders(b)', NEW k \in Holders(b)',
                      m # k
               PROVE  Held(m, b)' # Held(k, b)'
    BY DEF UniqueLease
  <2>1. CASE b = a /\ (m = l \/ k = l)
    BY <2>1, <1>3, <1>4, <1>5, <1>6, <1>9, <1>2
  <2>2. CASE ~(b = a /\ (m = l \/ k = l))
    BY <2>2, <1>4, <1>6 DEF UniqueLease
  <2> QED
    BY <2>1, <2>2
<1> QED
  BY <1>7, <1>8, <1>10, <1>11, <1>12

\* The other steps of a call and the node's step leave every lease as it is.
LEMMA QuietStep ==
    ASSUME IInv, TypeOK', UNCHANGED manager,
           MutexInv', AskerEmpty', LoadedInv',
           \A l \in Lanes, a \in Addrs : Held(l, a)' = Held(l, a)
    PROVE  IInv'
BY HeldFrame DEF IInv

\* Every step preserves the inductive invariant.
LEMMA NextIInv == IInv /\ [Next]_vars => IInv'
<1> SUFFICES ASSUME IInv, [Next]_vars PROVE IInv'
  OBVIOUS
<1>0. TypeOK'
  BY TypeStep DEF IInv
<1> USE LeaseAssumption, <1>0 DEF IInv
<1>1. ASSUME NEW l \in Lanes, NEW a \in Addrs, Request(l, a) PROVE IInv'
  <2>1. MutexInv' /\ AskerEmpty' /\ LoadedInv' /\ UNCHANGED manager
    BY <1>1 DEF Request, MutexInv, AskerEmpty, LoadedInv, TypeOK, manager
  <2>2. \A m \in Lanes, b \in Addrs : Held(m, b)' = Held(m, b)
    BY <1>1 DEF Request, Held, TypeOK
  <2> QED
    BY <2>1, <2>2, QuietStep
<1>2. ASSUME NEW l \in Lanes, Lock(l) PROVE IInv'
  <2>1. MutexInv' /\ AskerEmpty' /\ LoadedInv' /\ UNCHANGED manager
    BY <1>2 DEF Lock, MutexInv, AskerEmpty, LoadedInv, TypeOK, manager
  <2>2. \A m \in Lanes, b \in Addrs : Held(m, b)' = Held(m, b)
    BY <1>2 DEF Lock, Held, TypeOK
  <2> QED
    BY <2>1, <2>2, QuietStep
<1>3. ASSUME NEW l \in Lanes, RpcAnswer(l) PROVE IInv'
  <2>1. MutexInv' /\ AskerEmpty' /\ LoadedInv' /\ UNCHANGED manager
    BY <1>3 DEF RpcAnswer, MutexInv, AskerEmpty, LoadedInv, TypeOK, manager
  <2>2. \A m \in Lanes, b \in Addrs : Held(m, b)' = Held(m, b)
    BY <1>3 DEF RpcAnswer, Held, TypeOK
  <2> QED
    BY <2>1, <2>2, QuietStep
<1>4. ASSUME NEW l \in Lanes, RpcFail(l) PROVE IInv'
  <2>1. MutexInv' /\ AskerEmpty' /\ LoadedInv' /\ UNCHANGED manager
    BY <1>4 DEF RpcFail, MutexInv, AskerEmpty, LoadedInv, TypeOK, manager
  <2>2. \A m \in Lanes, b \in Addrs : Held(m, b)' = Held(m, b)
    BY <1>4 DEF RpcFail, Held, TypeOK
  <2> QED
    BY <2>1, <2>2, QuietStep
<1>5. ASSUME NEW l \in Lanes, Load(l) PROVE IInv'
  BY <1>5, LoadStep DEF TypeOK
<1>6. ASSUME NEW l \in Lanes, Grant(l) PROVE IInv'
  BY <1>6, GrantStep DEF TypeOK
<1>7. ASSUME NEW l \in Lanes, Store(l) PROVE IInv'
  <2>1. MutexInv' /\ AskerEmpty' /\ LoadedInv' /\ UNCHANGED manager
    BY <1>7 DEF Store, MutexInv, AskerEmpty, LoadedInv, TypeOK, manager
  <2>2. \A m \in Lanes, b \in Addrs : Held(m, b)' = Held(m, b)
    BY <1>7 DEF Store, Held, TypeOK
  <2> QED
    BY <2>1, <2>2, QuietStep
<1>8. ASSUME NEW a \in Addrs, ChainAdvance(a) PROVE IInv'
  <2>1. MutexInv' /\ AskerEmpty' /\ LoadedInv' /\ UNCHANGED manager
    BY <1>8 DEF ChainAdvance, MutexInv, AskerEmpty, LoadedInv, TypeOK, manager
  <2>2. \A m \in Lanes, b \in Addrs : Held(m, b)' = Held(m, b)
    BY <1>8 DEF ChainAdvance, Held, TypeOK
  <2> QED
    BY <2>1, <2>2, QuietStep
<1>9. CASE UNCHANGED vars
  <2>1. MutexInv' /\ AskerEmpty' /\ LoadedInv' /\ UNCHANGED manager
    BY <1>9 DEF vars, MutexInv, AskerEmpty, LoadedInv, TypeOK, manager
  <2>2. \A m \in Lanes, b \in Addrs : Held(m, b)' = Held(m, b)
    BY <1>9 DEF vars, Held
  <2> QED
    BY <2>1, <2>2, QuietStep
<1> QED
  BY <1>1, <1>2, <1>3, <1>4, <1>5, <1>6, <1>7, <1>8, <1>9 DEF Next, Step

\* The inductive invariant holds in every reachable state.
THEOREM Invariance == Spec => []IInv
BY InitIInv, NextIInv, PTL DEF Spec

\* The variables of the allocator keep their types, for any set of lanes and
\* addresses (NonceLease!TypeOK).
THEOREM TypeCorrect == Spec => []TypeOK
<1>1. IInv => TypeOK
  BY DEF IInv
<1> QED
  BY <1>1, Invariance, PTL

\* No nonce of an address is ever leased to two lanes, however many lanes call
\* AddressNonceManager.Lease at once and whichever RPCs fail.
THEOREM LeasesUnique == Spec => []UniqueLease
<1>1. IInv => UniqueLease
  BY DEF IInv
<1> QED
  BY <1>1, Invariance, PTL

\* The nonces leased of an address are exactly those from the value it was
\* loaded with to next - 1: no failed call and no interleaving leaves a gap.
THEOREM LeasesContiguous == Spec => []NoGapInLeases
<1>1. IInv => NoGapInLeases
  <2> SUFFICES ASSUME IInv, NEW a \in Addrs
               PROVE {Held(l, a) : l \in Holders(a)} =
                        IF loaded[a] THEN {n \in base[a]..next[a] : n < next[a]} ELSE {}
    BY DEF NoGapInLeases
  <2>1. \A l \in Holders(a) : l \in Lanes /\ Held(l, a) \in Nat
    BY HeldType DEF IInv, Holders
  <2>2. base[a] \in Nat /\ next[a] \in Nat
    BY DEF IInv, TypeOK
  <2>3. CASE ~loaded[a]
    BY <2>3 DEF IInv, HeldInRange
  <2>4. CASE loaded[a]
    <3>1. \A l \in Holders(a) : Held(l, a) \in {n \in base[a]..next[a] : n < next[a]}
      BY <2>1, <2>2 DEF IInv, HeldInRange
    <3>2. \A n \in {n \in base[a]..next[a] : n < next[a]} :
             \E l \in Holders(a) : Held(l, a) = n
      BY <2>4 DEF IInv, RangeHeld
    <3> QED
      BY <2>4, <3>1, <3>2
  <2> QED
    BY <2>3, <2>4
<1> QED
  BY <1>1, Invariance, PTL

-----------------------------------------------------------------------------

\* What the lanes hold, as the abstract dispenser sees it.
Ticket == [l \in Lanes |-> [a \in Addrs |-> Held(l, a)]]

\* A step that leaves the manager and every lease alone is a stutter of the
\* dispenser.
LEMMA QuietRefines ==
    ASSUME UNCHANGED manager, \A l \in Lanes, a \in Addrs : Held(l, a)' = Held(l, a)
    PROVE  UNCHANGED Tickets!vars
<1>1. Ticket' = Ticket
  BY DEF Ticket
<1> QED
  BY <1>1 DEF Ticket, manager, Tickets!vars

\* Every step is a step of the dispenser or a stutter: Load opens it, Grant
\* takes a number, and nothing else is visible.
LEMMA StepRefines == IInv /\ [Next]_vars => [Tickets!Next]_(Tickets!vars)
<1> SUFFICES ASSUME IInv, [Next]_vars PROVE [Tickets!Next]_(Tickets!vars)
  OBVIOUS
<1> USE LeaseAssumption DEF IInv
<1>1. ASSUME NEW l \in Lanes, NEW a \in Addrs, addr[l] = a, Load(l)
      PROVE  Tickets!Next
  <2>1. ~loaded[a]
    BY <1>1 DEF Load, LoadedInv
  <2>2. \A m \in Lanes, b \in Addrs : Held(m, b)' = Held(m, b)
    BY <1>1 DEF Load, Held, TypeOK
  <2>3. Ticket' = Ticket
    BY <2>2 DEF Ticket
  <2>4. next'[a] \in Nat /\ next' = [next EXCEPT ![a] = next'[a]]
    BY <1>1 DEF Load, TypeOK
  <2>5. loaded' = [loaded EXCEPT ![a] = TRUE]
    BY <1>1 DEF Load
  <2>6. Tickets!Open(a)
    BY <2>1, <2>3, <2>4, <2>5 DEF Tickets!Open, Ticket
  <2> QED
    BY <2>6 DEF Tickets!Next
<1>2. ASSUME NEW l \in Lanes, NEW a \in Addrs, addr[l] = a, Grant(l)
      PROVE  Tickets!Next
  <2>1. loaded[a] /\ leases[l][a] = NoNonce
    BY <1>2 DEF Grant, LoadedInv, AskerEmpty
  <2>2. Held(l, a) = NoNonce /\ Held(l, a)' = next[a]
    BY <1>2, <2>1 DEF Grant, Held, TypeOK
  <2>3. \A m \in Lanes, b \in Addrs : ~(m = l /\ b = a) => Held(m, b)' = Held(m, b)
    BY <1>2, <2>1 DEF Grant, Held, TypeOK
  <2>4. Ticket[l][a] = NoNonce
    BY <2>2 DEF Ticket
  <2>5. Ticket' = [Ticket EXCEPT ![l][a] = next[a]]
    <3>1. Ticket' = [m \in Lanes |-> [b \in Addrs |->
                        IF m = l /\ b = a THEN next[a] ELSE Held(m, b)]]
      BY <2>2, <2>3 DEF Ticket
    <3> QED
      BY <3>1 DEF Ticket
  <2>6. next' = [next EXCEPT ![a] = @ + 1] /\ loaded' = loaded
    BY <1>2 DEF Grant
  <2>7. Tickets!Take(l, a)
    BY <2>1, <2>4, <2>5, <2>6 DEF Tickets!Take, Ticket
  <2> QED
    BY <2>7 DEF Tickets!Next
<1>3. ASSUME NEW l \in Lanes, NEW a \in Addrs, Request(l, a)
      PROVE  UNCHANGED Tickets!vars
  <2>1. \A m \in Lanes, b \in Addrs : Held(m, b)' = Held(m, b)
    BY <1>3 DEF Request, Held, TypeOK
  <2> QED
    BY <1>3, <2>1, QuietRefines DEF Request
<1>4. ASSUME NEW l \in Lanes, Lock(l) \/ RpcAnswer(l) \/ RpcFail(l)
      PROVE  UNCHANGED Tickets!vars
  <2>1. \A m \in Lanes, b \in Addrs : Held(m, b)' = Held(m, b)
    BY <1>4 DEF Lock, RpcAnswer, RpcFail, Held, TypeOK
  <2> QED
    BY <1>4, <2>1, QuietRefines DEF Lock, RpcAnswer, RpcFail
<1>5. ASSUME NEW l \in Lanes, Store(l) PROVE UNCHANGED Tickets!vars
  <2>1. \A m \in Lanes, b \in Addrs : Held(m, b)' = Held(m, b)
    BY <1>5 DEF Store, Held, TypeOK
  <2> QED
    BY <1>5, <2>1, QuietRefines DEF Store
<1>6. ASSUME NEW a \in Addrs, ChainAdvance(a) PROVE UNCHANGED Tickets!vars
  <2>1. \A m \in Lanes, b \in Addrs : Held(m, b)' = Held(m, b)
    BY <1>6 DEF ChainAdvance, Held
  <2> QED
    BY <1>6, <2>1, QuietRefines DEF ChainAdvance
<1>7. CASE UNCHANGED vars
  <2>1. \A m \in Lanes, b \in Addrs : Held(m, b)' = Held(m, b)
    BY <1>7 DEF vars, Held
  <2> QED
    BY <1>7, <2>1, QuietRefines DEF vars, manager
<1>8. \A l \in Lanes : addr[l] \in Addrs
  BY DEF TypeOK
<1> QED
  BY <1>1, <1>2, <1>3, <1>4, <1>5, <1>6, <1>7, <1>8 DEF Next, Step

\* The allocator implements the abstract dispenser of consecutive numbers.
THEOREM Refinement == Spec => ImplementsTickets
<1>1. Init => Tickets!Init
  <2> SUFFICES ASSUME Init PROVE Tickets!Init
    OBVIOUS
  <2>1. Ticket = [l \in Lanes |-> [a \in Addrs |-> NoNonce]]
    BY DEF Init, NewLane, Held, Ticket
  <2> QED
    BY <2>1 DEF Init, Ticket, Tickets!Init
<1> QED
  BY <1>1, StepRefines, Invariance, PTL DEF Spec, ImplementsTickets, Tickets!Spec
=============================================================================
