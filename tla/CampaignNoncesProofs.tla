------------------------ MODULE CampaignNoncesProofs ------------------------
(***************************************************************************)
(* The nonces of a campaign, for every number of cases and keys, either    *)
(* kind of family and any node: the cases of a sender carry consecutive    *)
(* nonces (TxNoncesConsecutive), so that no case of the campaign displaces *)
(* another (OnlyOthersDisplace) and none is included before an earlier one *)
(* of its sender unless somebody else used up the nonce in between         *)
(* (RejectionStrands).                                                     *)
(*                                                                         *)
(* AllocInv follows one case through the allocator: the counter of an      *)
(* account is what it was loaded with plus the cases granted so far, and   *)
(* an account is loaded before its first case is granted, once.  NetInv    *)
(* says that what the node holds of a case carries the nonce of the case.  *)
(***************************************************************************)
EXTENDS CampaignNonces, FiniteSetTheorems, TLAPS

Steps == {"idle", "lock", "rpc", "load", "grant", "store"}
Users == Case \cup {Other}

AllocType ==
    /\ pc \in {"lease", "sign", "submit", "done", "failed"} /\ seq \in Case
    /\ next \in [Senders -> Nat] /\ base \in [Senders -> Nat]
    /\ loaded \in [Senders -> BOOLEAN]
    /\ leases \in [Case -> [Senders -> Nat \cup {NoNonce}]]
    /\ step \in [Case -> Steps] /\ addr \in [Case -> Senders] /\ reg \in [Case -> Nat]
    /\ nonce \in [Case -> Nat \cup {NoNonce}] /\ auth \in [Case -> Nat \cup {NoNonce}]

\* The case at work has not been granted its nonce yet.
Asking == pc = "lease" /\ step[seq] # "store"

\* The cases of a that have been granted their nonce.
Granted(a) == IF Asking THEN Turns(a, seq) ELSE Turns(a, seq + 1)

Counters ==
    pc \in {"lease", "sign", "submit"} =>
        \A a \in Senders : IF loaded[a] THEN next[a] = base[a] + Granted(a)
                                        ELSE Granted(a) = 0

OneCall ==
    /\ \A j \in Case : j > seq => step[j] = "idle" /\ nonce[j] = NoNonce
    /\ pc = "lease" =>
          /\ step[seq] # "idle" => addr[seq] = Sender(seq)
          /\ step[seq] \in {"rpc", "load"} => ~loaded[Sender(seq)]
          /\ step[seq] = "grant" => loaded[Sender(seq)]
    /\ pc \in {"lease", "sign"} => nonce[seq] = NoNonce
    /\ pc = "submit" => nonce[seq] # NoNonce

\* The nonce the case at work is going to carry.
Due(i) == base[Sender(i)] + Turns(Sender(i), i)

Carried ==
    /\ pc = "lease" /\ step[seq] = "store" => reg[seq] = Due(seq) /\ loaded[Sender(seq)]
    /\ pc \in {"sign", "submit"} =>
          leases[seq][Sender(seq)] = Due(seq) /\ loaded[Sender(seq)]
    /\ \A i \in Built : /\ loaded[Sender(i)] /\ nonce[i] = Due(i)
                        /\ Pectra => auth[i] = nonce[i]

AllocInv == AllocType /\ Counters /\ OneCall /\ Carried

\* The cases before the one at work have been signed.
SignedInv == \A i \in Case : i < seq => nonce[i] # NoNonce

NetType ==
    /\ pool \in [Senders -> SUBSET [nonce : Nat, by : Users]]
    /\ \A a \in Senders : IsFiniteSet(pool[a])
    /\ blocks \in [Senders -> Seq(Users)]

NetInv ==
    /\ NetType
    /\ \A a \in Senders : \A t \in pool[a] :
          t.by \in Case => Sender(t.by) = a /\ nonce[t.by] = t.nonce
    /\ \A a \in Senders : \A n \in DOMAIN blocks[a] :
          blocks[a][n] \in Case =>
              Sender(blocks[a][n]) = a /\ nonce[blocks[a][n]] = n - 1

-----------------------------------------------------------------------------
(* Counting the turns of an account *)

LEMMA CaseFacts ==
    /\ Cases \in Nat \ {0} /\ Case \subseteq Nat \ {0} /\ IsFiniteSet(Case)
    /\ NoNonce \notin Nat /\ Other \notin Nat /\ NoLane \notin Nat
    /\ \A i \in Case : Sender(i) \in Senders
<1>1. Cases \in Nat \ {0} /\ NoNonce \notin Nat /\ Other \notin Nat /\ NoLane \notin Nat
  BY NoncesAssumption
<1>2. Case \subseteq Nat \ {0} /\ IsFiniteSet(Case)
  BY <1>1, FS_Interval DEF Case
<1> QED
  BY <1>1, <1>2 DEF Senders

LEMMA TurnsNat == ASSUME NEW a, NEW i \in Nat PROVE Turns(a, i) \in Nat
<1> {j \in Case : j < i /\ Sender(j) = a} \subseteq Case
  OBVIOUS
<1> QED
  BY CaseFacts, FS_Subset, FS_CardinalityType DEF Turns

\* A case takes one turn of its sender and none of another account.
LEMMA TurnsNext ==
    ASSUME NEW a, NEW i \in Case
    PROVE  Turns(a, i + 1) = IF Sender(i) = a THEN Turns(a, i) + 1 ELSE Turns(a, i)
<1> DEFINE S == {j \in Case : j < i /\ Sender(j) = a}
           T == {j \in Case : j < i + 1 /\ Sender(j) = a}
<1>1. i \in Nat /\ Case \subseteq Nat /\ i \notin S /\ IsFiniteSet(S)
  <2>1. S \subseteq Case
    OBVIOUS
  <2> QED
    BY <2>1, CaseFacts, FS_Subset
<1>a. \A j \in Case : j < i + 1 <=> j < i \/ j = i
  BY <1>1
<1>2. T = IF Sender(i) = a THEN S \cup {i} ELSE S
  <2>1. CASE Sender(i) = a
    <3>1. T = S \cup {i}
      BY <1>a, <2>1
    <3> QED
      BY <2>1, <3>1
  <2>2. CASE Sender(i) # a
    <3>1. T = S
      BY <1>a, <2>2
    <3> QED
      BY <2>2, <3>1
  <2> QED
    BY <2>1, <2>2
<1>3. Cardinality(S \cup {i}) = Cardinality(S) + 1
  BY <1>1, FS_AddElement
<1> QED
  BY <1>2, <1>3 DEF Turns

LEMMA TurnsFirst == ASSUME NEW a PROVE Turns(a, 1) = 0
<1>a. \A j \in Case : ~(j < 1)
  BY CaseFacts
<1>1. {j \in Case : j < 1 /\ Sender(j) = a} = {}
  BY <1>a
<1> QED
  BY <1>1, FS_EmptySet DEF Turns

\* Later cases of a sender have had more turns before them.
LEMMA TurnsGrow ==
    ASSUME NEW i \in Case, NEW j \in Case, Sender(i) = Sender(j), i < j
    PROVE  Turns(Sender(i), i) < Turns(Sender(i), j)
<1> DEFINE S == {k \in Case : k < i /\ Sender(k) = Sender(i)}
           T == {k \in Case : k < j /\ Sender(k) = Sender(i)}
<1>1. i \in Nat /\ j \in Nat /\ Case \subseteq Nat
  BY CaseFacts
<1>a. ~(i < i) /\ \A k \in Case : k < i => k < j
  BY <1>1
<1>2. S \subseteq T /\ i \in T /\ i \notin S
  BY <1>a
<1>3. T \subseteq Case
  OBVIOUS
<1>4. IsFiniteSet(T)
  BY <1>3, CaseFacts, FS_Subset
<1>5. Cardinality(S) <= Cardinality(T) /\ Cardinality(S) # Cardinality(T)
  BY <1>2, <1>4, FS_Subset
<1>6. Cardinality(S) \in Nat /\ Cardinality(T) \in Nat
  BY <1>2, <1>4, FS_Subset, FS_CardinalityType
<1> QED
  BY <1>5, <1>6 DEF Turns

LEMMA TurnsFacts ==
    \A a \in Senders : \A i \in Case :
        /\ Turns(a, i) \in Nat /\ Turns(a, i + 1) \in Nat
        /\ Turns(a, i + 1) = IF Sender(i) = a THEN Turns(a, i) + 1 ELSE Turns(a, i)
<1> SUFFICES ASSUME NEW a \in Senders, NEW i \in Case
             PROVE  /\ Turns(a, i) \in Nat /\ Turns(a, i + 1) \in Nat
                    /\ Turns(a, i + 1) = IF Sender(i) = a THEN Turns(a, i) + 1
                                                          ELSE Turns(a, i)
  OBVIOUS
<1>1. i \in Nat /\ i + 1 \in Nat
  BY CaseFacts
<1> QED
  BY <1>1, TurnsNat, TurnsNext

\* The node reports a number.
LEMMA PendingNat == ASSUME NetType, NEW a \in Senders PROVE PendingNonce(a) \in Nat
<1>1. Executable(a) \subseteq pool[a]
  BY DEF Executable
<1>2. Cardinality(Executable(a)) \in Nat
  BY <1>1, FS_Subset, FS_CardinalityType DEF NetType
<1>3. Len(blocks[a]) \in Nat
  BY DEF NetType
<1> QED
  BY <1>2, <1>3 DEF PendingNonce

-----------------------------------------------------------------------------
(* The allocator *)

LEMMA AllocInit == Init => AllocInv
<1> SUFFICES ASSUME Init PROVE AllocInv
  OBVIOUS
<1>1. 1 \in Case /\ Senders # {}
  BY CaseFacts DEF Case
<1> USE DEF Init, Lease!Init, Lease!NewLane
<1>2. (CHOOSE a \in Senders : TRUE) \in Senders
  BY <1>1
<1>3. AllocType
  BY <1>1, <1>2, CaseFacts DEF AllocType, Steps
<1>4. Counters
  BY <1>1, TurnsFirst DEF Counters, Granted, Asking
<1>5. OneCall
  BY <1>1 DEF OneCall
<1>6. Carried
  BY <1>1 DEF Carried, Built
<1> QED
  BY <1>3, <1>4, <1>5, <1>6 DEF AllocInv

\* A call goes to the manager's mutex.
LEMMA AllocRequest ==
    ASSUME AllocInv, pc = "lease", UNCHANGED campaign, Lease!Request(seq, Sender(seq))
    PROVE  AllocInv'
<1> USE DEF AllocInv, campaign, Lease!Request, Lease!manager
<1>1. seq \in Case /\ Sender(seq) \in Senders /\ Case \subseteq Nat
  BY CaseFacts DEF AllocType
<1>2. AllocType'
  BY <1>1 DEF AllocType, Steps
<1>3. step'[seq] = "lock" /\ addr'[seq] = Sender(seq) /\ \A j \in Case : j > seq => j # seq
  BY <1>1 DEF AllocType
<1>4. Counters'
  BY <1>1, <1>3 DEF Counters, Granted, Asking
<1>5. OneCall'
  BY <1>1, <1>3 DEF OneCall, AllocType
<1>6. Carried'
  BY <1>1, <1>3 DEF Carried, Built, Due
<1> QED
  BY <1>2, <1>4, <1>5, <1>6

LEMMA AllocLock ==
    ASSUME AllocInv, pc = "lease", UNCHANGED campaign, Lease!Lock(seq)
    PROVE  AllocInv'
<1> USE DEF AllocInv, campaign, Lease!Lock, Lease!manager
<1>1. seq \in Case /\ Sender(seq) \in Senders /\ Case \subseteq Nat
  BY CaseFacts DEF AllocType
<1>2. AllocType'
  BY <1>1 DEF AllocType, Steps
<1>3. /\ step'[seq] = IF loaded[Sender(seq)] THEN "grant" ELSE "rpc"
      /\ addr[seq] = Sender(seq) /\ \A j \in Case : j > seq => j # seq
  BY <1>1 DEF AllocType, OneCall
<1>4. Counters'
  BY <1>1, <1>3 DEF Counters, Granted, Asking
<1>5. OneCall'
  BY <1>1, <1>3 DEF OneCall, AllocType
<1>6. Carried'
  BY <1>1, <1>3 DEF Carried, Built, Due
<1> QED
  BY <1>2, <1>4, <1>5, <1>6

LEMMA AllocRpcAnswer ==
    ASSUME AllocInv, NetType, pc = "lease", UNCHANGED campaign, Lease!RpcAnswer(seq)
    PROVE  AllocInv'
<1> USE DEF AllocInv, campaign, Lease!RpcAnswer, Lease!manager
<1>1. seq \in Case /\ Sender(seq) \in Senders /\ Case \subseteq Nat /\ addr[seq] \in Senders
  BY CaseFacts DEF AllocType
<1>2. AllocType'
  BY <1>1, PendingNat DEF AllocType, Steps
<1>3. /\ step'[seq] = "load" /\ step[seq] = "rpc"
      /\ \A j \in Case : j > seq => j # seq
  BY <1>1 DEF AllocType
<1>4. Counters'
  BY <1>1, <1>3 DEF Counters, Granted, Asking
<1>5. OneCall'
  BY <1>1, <1>3 DEF OneCall, AllocType
<1>6. Carried'
  BY <1>1, <1>3 DEF Carried, Built, Due
<1> QED
  BY <1>2, <1>4, <1>5, <1>6

\* The counter of an account is set once, before the first case is granted.
LEMMA AllocLoad ==
    ASSUME AllocInv, pc = "lease", UNCHANGED campaign, Lease!Load(seq)
    PROVE  AllocInv'
<1> USE DEF AllocInv, campaign, Lease!Load
<1> DEFINE s == Sender(seq)
<1>1. seq \in Case /\ s \in Senders /\ Case \subseteq Nat
  BY CaseFacts DEF AllocType
<1>2. addr[seq] = s /\ ~loaded[s] /\ step[seq] = "load"
  BY DEF OneCall
<1>3. AllocType'
  BY <1>1, <1>2 DEF AllocType, Steps
<1>4. step'[seq] = "grant" /\ \A j \in Case : j > seq => j # seq
  BY <1>1 DEF AllocType
<1>5. /\ next' = [next EXCEPT ![s] = reg[seq]] /\ base' = [base EXCEPT ![s] = reg[seq]]
      /\ loaded' = [loaded EXCEPT ![s] = TRUE] /\ reg[seq] \in Nat
  BY <1>1, <1>2 DEF AllocType
<1>6. Counters'
  <2> SUFFICES ASSUME NEW a \in Senders
               PROVE  (IF loaded[a] THEN next[a] = base[a] + Granted(a)
                                    ELSE Granted(a) = 0)'
    BY DEF Counters
  <2>1. Asking /\ Asking' /\ seq' = seq
    BY <1>2, <1>4 DEF Asking
  <2>2. Granted(a)' = Granted(a)
    BY <2>1 DEF Granted
  <2>3. CASE a = s
    <3>1. Granted(a) = 0
      BY <1>2, <2>3, <1>1 DEF Counters
    <3>2. loaded'[a] /\ next'[a] = reg[seq] /\ base'[a] = reg[seq]
      BY <1>1, <1>5, <2>3 DEF AllocType
    <3> QED
      BY <1>5, <2>2, <3>1, <3>2
  <2>4. CASE a # s
    <3>1. loaded'[a] = loaded[a] /\ next'[a] = next[a] /\ base'[a] = base[a]
      BY <1>1, <1>5, <2>4 DEF AllocType
    <3> QED
      BY <2>2, <3>1 DEF Counters
  <2> QED
    BY <2>3, <2>4
<1>7. OneCall'
  <2>1. loaded'[s]
    BY <1>1, <1>5 DEF AllocType
  <2> QED
    BY <1>1, <1>2, <1>4, <2>1 DEF OneCall, AllocType
<1>8. Carried'
  <2>1. ASSUME NEW i \in Built
        PROVE  loaded'[Sender(i)] /\ Due(i)' = Due(i)
    <3>1. i \in Case /\ Sender(i) \in Senders /\ loaded[Sender(i)]
      BY CaseFacts DEF Built, Carried
    <3>2. Sender(i) # s
      BY <1>2, <3>1
    <3>3. base'[Sender(i)] = base[Sender(i)] /\ loaded'[Sender(i)] = loaded[Sender(i)]
      BY <1>5, <3>1, <3>2 DEF AllocType
    <3> QED
      BY <3>1, <3>3 DEF Due
  <2> QED
    BY <1>4, <2>1 DEF Carried, Built
<1> QED
  BY <1>3, <1>6, <1>7, <1>8

\* A grant takes the value of the counter, which is the turn of the case.
LEMMA AllocGrant ==
    ASSUME AllocInv, pc = "lease", UNCHANGED campaign, Lease!Grant(seq)
    PROVE  AllocInv'
<1> USE DEF AllocInv, campaign, Lease!Grant
<1> DEFINE s == Sender(seq)
<1>1. seq \in Case /\ s \in Senders /\ Case \subseteq Nat
  BY CaseFacts DEF AllocType
<1>2. addr[seq] = s /\ loaded[s] /\ step[seq] = "grant"
  BY DEF OneCall
<1>3. next' = [next EXCEPT ![s] = @ + 1] /\ reg' = [reg EXCEPT ![seq] = next[s]]
  BY <1>1, <1>2 DEF AllocType
<1>4. AllocType'
  BY <1>1, <1>3 DEF AllocType, Steps
<1>5. step'[seq] = "store" /\ \A j \in Case : j > seq => j # seq
  BY <1>1 DEF AllocType
<1>6. Asking /\ ~Asking' /\ seq' = seq
  BY <1>2, <1>5 DEF Asking
<1>7. next[s] = base[s] + Turns(s, seq)
  BY <1>1, <1>2, <1>6 DEF Counters, Granted
<1>8. Counters'
  <2> SUFFICES ASSUME NEW a \in Senders
               PROVE  (IF loaded[a] THEN next[a] = base[a] + Granted(a)
                                    ELSE Granted(a) = 0)'
    BY DEF Counters
  <2>1. Granted(a) = Turns(a, seq) /\ Granted(a)' = Turns(a, seq + 1)
    BY <1>6 DEF Granted
  <2>2. base[a] \in Nat /\ next[a] \in Nat /\ base' = base /\ loaded' = loaded
    BY DEF AllocType
  <2>3. CASE a = s
    <3>1. next'[a] = next[a] + 1
      BY <1>1, <1>3, <2>3 DEF AllocType
    <3>2. Granted(a)' = Turns(a, seq) + 1 /\ Turns(a, seq) \in Nat
      BY <1>1, <2>1, <2>3, TurnsFacts
    <3>3. loaded'[a]
      BY <1>2, <2>2, <2>3
    <3>4. next'[a] = base'[a] + Granted(a)'
      BY <1>7, <2>2, <2>3, <3>1, <3>2
    <3> QED
      BY <3>3, <3>4
  <2>4. CASE a # s
    <3>1. next'[a] = next[a]
      BY <1>1, <1>3, <2>4 DEF AllocType
    <3>2. Granted(a)' = Granted(a)
      BY <1>1, <2>1, <2>4, TurnsFacts
    <3> QED
      BY <2>2, <3>1, <3>2 DEF Counters
  <2> QED
    BY <2>3, <2>4
<1>9. OneCall'
  BY <1>1, <1>2, <1>5 DEF OneCall, AllocType
<1>10. Carried'
  <2>1. reg'[seq] = Due(seq)'
    BY <1>1, <1>3, <1>7 DEF AllocType, Due
  <2> QED
    BY <1>2, <1>5, <2>1 DEF Carried, Built, Due
<1> QED
  BY <1>4, <1>8, <1>9, <1>10

LEMMA AllocDone == ASSUME AllocInv, LeaseDone PROVE AllocInv'
<1> USE DEF AllocInv, LeaseDone, Lease!Store, Lease!manager
<1> DEFINE s == Sender(seq)
<1>1. seq \in Case /\ s \in Senders /\ Case \subseteq Nat
  BY CaseFacts DEF AllocType
<1>2. step[seq] = "store" /\ addr[seq] = s /\ reg[seq] = Due(seq) /\ loaded[s]
  BY DEF OneCall, Carried
<1>3. leases' = [leases EXCEPT ![seq][s] = reg[seq]] /\ reg[seq] \in Nat
  BY <1>1, <1>2 DEF AllocType
<1>4. AllocType'
  BY <1>1, <1>3 DEF AllocType, Steps
<1>5. Counters'
  BY <1>2 DEF Counters, Granted, Asking
<1>6. OneCall'
  BY <1>1 DEF OneCall, AllocType
<1>7. Carried'
  <2>1. leases'[seq][s] = Due(seq)
    BY <1>1, <1>2, <1>3 DEF AllocType
  <2> QED
    BY <1>2, <2>1 DEF Carried, Built, Due
<1> QED
  BY <1>4, <1>5, <1>6, <1>7

\* The campaign ends.
LEMMA AllocFails == ASSUME AllocInv, LeaseFails \/ SignFails PROVE AllocInv'
<1>1. CASE LeaseFails
  <2> USE <1>1 DEF AllocInv, LeaseFails, Lease!RpcFail, Lease!manager
  <2>1. AllocType'
    BY DEF AllocType, Steps
  <2>2. OneCall'
    BY CaseFacts DEF OneCall, AllocType
  <2>3. Counters' /\ Carried'
    BY DEF Counters, Carried, Built, Due
  <2> QED
    BY <2>1, <2>2, <2>3
<1>2. CASE SignFails
  <2> USE <1>2 DEF AllocInv, SignFails, allocator
  <2>1. AllocType' /\ OneCall'
    BY DEF AllocType, Steps, OneCall
  <2>2. Counters' /\ Carried'
    BY DEF Counters, Carried, Built, Due
  <2> QED
    BY <2>1, <2>2
<1> QED
  BY <1>1, <1>2

\* A case is signed with its lease.
LEMMA AllocSign == ASSUME AllocInv, Sign PROVE AllocInv'
<1> USE DEF AllocInv, Sign, allocator
<1>1. seq \in Case /\ Sender(seq) \in Senders /\ Case \subseteq Nat
  BY CaseFacts DEF AllocType
<1>2. leases[seq][Sender(seq)] = Due(seq) /\ loaded[Sender(seq)] /\ nonce[seq] = NoNonce
  BY DEF Carried, OneCall
<1>3. Due(seq) \in Nat
  BY <1>1, TurnsFacts DEF AllocType, Due
<1>4. nonce' = [nonce EXCEPT ![seq] = Due(seq)]
  BY <1>2
<1>5. auth' = IF Pectra THEN [auth EXCEPT ![seq] = Due(seq)] ELSE auth
  BY <1>2
<1>6. AllocType'
  <2>1. auth' \in [Case -> Nat \cup {NoNonce}]
    BY <1>1, <1>3, <1>5 DEF AllocType
  <2>2. nonce' \in [Case -> Nat \cup {NoNonce}]
    BY <1>1, <1>3, <1>4 DEF AllocType
  <2> QED
    BY <2>1, <2>2 DEF AllocType
<1>7. Counters'
  BY DEF Counters, Granted, Asking
<1>8. OneCall'
  BY <1>1, <1>3, <1>4, CaseFacts DEF OneCall, AllocType
<1>9. Carried'
  <2> SUFFICES ASSUME NEW i \in Case, nonce'[i] # NoNonce
               PROVE  /\ loaded[Sender(i)] /\ nonce'[i] = Due(i)
                      /\ Pectra => auth'[i] = nonce'[i]
    BY DEF Carried, Built, Due
  <2>1. CASE i = seq
    BY <1>1, <1>2, <1>4, <1>5, <2>1 DEF AllocType
  <2>2. CASE i # seq
    <3>1. nonce'[i] = nonce[i] /\ auth'[i] = auth[i]
      BY <1>4, <1>5, <2>2 DEF AllocType
    <3> QED
      BY <3>1 DEF Carried, Built
  <2> QED
    BY <2>1, <2>2
<1> QED
  BY <1>6, <1>7, <1>8, <1>9

\* The campaign goes on to the next case, or is done.
LEMMA AllocSubmit ==
    ASSUME AllocInv, NEW taken, NEW answered, Submit(taken, answered) PROVE AllocInv'
<1> USE DEF AllocInv, Submit, allocator
<1>1. seq \in Case /\ Case \subseteq Nat /\ Cases \in Nat
  BY CaseFacts DEF AllocType
<1>2. CASE seq = Cases
  <2>1. AllocType' /\ OneCall'
    BY <1>2 DEF AllocType, OneCall
  <2>2. Counters' /\ Carried'
    BY <1>2 DEF Counters, Carried, Built, Due
  <2> QED
    BY <2>1, <2>2
<1>3. CASE seq # Cases
  <2>1. pc' = "lease" /\ seq' = seq + 1 /\ seq + 1 \in Case /\ seq + 1 > seq
    BY <1>1, <1>3 DEF Case
  <2>2. step[seq + 1] = "idle" /\ nonce[seq + 1] = NoNonce
    BY <2>1 DEF OneCall
  <2>3. AllocType'
    BY <2>1 DEF AllocType
  <2>4. Counters'
    <3>1. ~Asking /\ Asking'
      BY <2>1, <2>2 DEF Asking
    <3>2. \A a \in Senders : Granted(a)' = Granted(a)
      BY <2>1, <3>1 DEF Granted
    <3> QED
      BY <2>1, <3>2 DEF Counters
  <2>5. OneCall'
    <3>1. \A j \in Case : j > seq + 1 => j > seq
      BY <1>1
    <3> QED
      BY <2>1, <2>2, <3>1 DEF OneCall
  <2>6. Carried'
    BY <2>1, <2>2 DEF Carried, Built, Due
  <2> QED
    BY <2>3, <2>4, <2>5, <2>6
<1> QED
  BY <1>2, <1>3

LEMMA AllocUnchanged == ASSUME AllocInv, UNCHANGED <<allocator, campaign>> PROVE AllocInv'
BY DEF AllocInv, AllocType, Counters, Granted, Asking, OneCall, Carried, Built, Due,
       allocator, campaign

-----------------------------------------------------------------------------
(* The node *)

LEMMA NetInit == Init => NetInv
<1> SUFFICES ASSUME Init PROVE NetInv
  OBVIOUS
<1>1. NetType
  BY FS_EmptySet DEF Init, NetType
<1> QED
  BY <1>1 DEF Init, NetInv

LEMMA NetUnchanged == ASSUME NetInv, UNCHANGED <<nonce, network>> PROVE NetInv'
BY DEF NetInv, NetType, network

\* A case that is signed now has not been seen by the node.
LEMMA NetSign == ASSUME AllocInv, NetInv, Sign PROVE NetInv'
<1> USE DEF Sign, network
<1>1. nonce[seq] = NoNonce /\ NoNonce \notin Nat
  BY CaseFacts DEF AllocInv, OneCall
<1>2. \A i \in Case : nonce[i] \in Nat => nonce'[i] = nonce[i]
  BY <1>1 DEF AllocInv, AllocType
<1>3. NetType'
  BY DEF NetInv, NetType
<1>4. ASSUME NEW a \in Senders, NEW t \in pool[a], t.by \in Case
      PROVE  Sender(t.by) = a /\ nonce'[t.by] = t.nonce
  <2>1. t.nonce \in Nat
    BY DEF NetInv, NetType
  <2>2. Sender(t.by) = a /\ nonce[t.by] = t.nonce
    BY <1>4 DEF NetInv
  <2> QED
    BY <1>2, <1>4, <2>1, <2>2
<1>5. ASSUME NEW a \in Senders, NEW n \in DOMAIN blocks[a], blocks[a][n] \in Case
      PROVE  Sender(blocks[a][n]) = a /\ nonce'[blocks[a][n]] = n - 1
  <2>1. n - 1 \in Nat
    BY DEF NetInv, NetType
  <2>2. Sender(blocks[a][n]) = a /\ nonce[blocks[a][n]] = n - 1
    BY <1>5 DEF NetInv
  <2> QED
    BY <1>2, <1>5, <2>1, <2>2
<1> QED
  BY <1>3, <1>4, <1>5 DEF NetInv

\* What a case adds to the pool carries the nonce it was signed with.
LEMMA NetSubmit ==
    ASSUME AllocInv, NetInv, NEW taken \in BOOLEAN, NEW answered, Submit(taken, answered)
    PROVE  NetInv'
<1> USE DEF Submit
<1> DEFINE s == Sender(seq)
           same == {t \in pool[s] : t.nonce = nonce[seq]}
           new == [nonce |-> nonce[seq], by |-> seq]
<1>1. seq \in Case /\ s \in Senders /\ nonce[seq] \in Nat
  BY CaseFacts DEF AllocInv, AllocType, OneCall
<1>2. CASE ~taken
  BY <1>2, NetUnchanged DEF network
<1>3. CASE taken
  <2>1. pool' = [pool EXCEPT ![s] = (@ \ same) \cup {new}]
    BY <1>3
  <2>2. new \in [nonce : Nat, by : Users] /\ new.by = seq /\ new.nonce = nonce[seq]
    BY <1>1 DEF Users
  <2>3. \A a \in Senders : pool'[a] \subseteq pool[a]
                           \/ (a = s /\ pool'[a] = (pool[s] \ same) \cup {new})
    BY <2>1 DEF NetInv, NetType
  <2>4. IsFiniteSet((pool[s] \ same) \cup {new})
    <3>1. IsFiniteSet(pool[s] \ same)
      BY <1>1, FS_Difference DEF NetInv, NetType
    <3> QED
      BY <3>1, FS_AddElement
  <2>5. NetType'
    <3>1. pool' \in [Senders -> SUBSET [nonce : Nat, by : Users]]
      BY <1>1, <2>1, <2>2 DEF NetInv, NetType
    <3>2. \A a \in Senders : IsFiniteSet(pool'[a])
      BY <2>3, <2>4, FS_Subset DEF NetInv, NetType
    <3> QED
      BY <3>1, <3>2 DEF NetInv, NetType
  <2>6. ASSUME NEW a \in Senders, NEW t \in pool'[a], t.by \in Case
        PROVE  Sender(t.by) = a /\ nonce[t.by] = t.nonce
    <3>1. t \in pool[a] \/ (a = s /\ t = new)
      BY <2>3
    <3> QED
      BY <2>2, <2>6, <3>1 DEF NetInv
  <2> QED
    BY <2>5, <2>6 DEF NetInv, NetType
<1> QED
  BY <1>2, <1>3

\* Inclusion moves a transaction from the pool to the block of its nonce.
LEMMA NetMine == ASSUME NetInv, NEW a \in Senders, Mine(a) PROVE NetInv'
<1> PICK t \in pool[a] :
        /\ t.nonce = Len(blocks[a])
        /\ pool' = [pool EXCEPT ![a] = @ \ {t}]
        /\ blocks' = [blocks EXCEPT ![a] = Append(@, t.by)]
  BY DEF Mine
<1>1. UNCHANGED nonce
  BY DEF Mine, campaign
<1>2. t.by \in Users /\ blocks \in [Senders -> Seq(Users)]
  BY DEF NetInv, NetType
<1>3. \A b \in Senders : pool'[b] \subseteq pool[b]
  BY DEF NetInv, NetType
<1>4. NetType'
  <2>1. pool' \in [Senders -> SUBSET [nonce : Nat, by : Users]]
    BY DEF NetInv, NetType
  <2>2. \A b \in Senders : IsFiniteSet(pool'[b])
    BY <1>3, FS_Subset DEF NetInv, NetType
  <2>3. blocks' \in [Senders -> Seq(Users)]
    BY <1>2
  <2> QED
    BY <2>1, <2>2, <2>3 DEF NetType
<1>5. ASSUME NEW b \in Senders, NEW n \in DOMAIN blocks'[b], blocks'[b][n] \in Case
      PROVE  Sender(blocks'[b][n]) = b /\ nonce[blocks'[b][n]] = n - 1
  <2>1. CASE b # a
    <3>1. blocks'[b] = blocks[b]
      BY <1>2, <2>1
    <3> QED
      BY <1>5, <3>1 DEF NetInv
  <2>2. CASE b = a
    <3>1. blocks'[b] = Append(blocks[a], t.by) /\ blocks[a] \in Seq(Users)
      BY <1>2, <2>2
    <3>2. CASE n = Len(blocks[a]) + 1
      <4>1. blocks'[b][n] = t.by
        BY <1>2, <3>1, <3>2
      <4>2. Sender(t.by) = a /\ nonce[t.by] = t.nonce
        BY <1>5, <4>1 DEF NetInv
      <4> QED
        BY <2>2, <3>1, <3>2, <4>1, <4>2
    <3>3. CASE n # Len(blocks[a]) + 1
      <4>1. n \in DOMAIN blocks[a] /\ blocks'[b][n] = blocks[a][n]
        BY <1>2, <3>1, <3>3
      <4> QED
        BY <1>5, <2>2, <4>1 DEF NetInv
    <3> QED
      BY <3>2, <3>3
  <2> QED
    BY <2>1, <2>2
<1> QED
  BY <1>1, <1>3, <1>4, <1>5 DEF NetInv

LEMMA NetDrop == ASSUME NetInv, NEW a \in Senders, Drop(a) PROVE NetInv'
<1> PICK t \in pool[a] : pool' = [pool EXCEPT ![a] = @ \ {t}]
  BY DEF Drop
<1>1. UNCHANGED <<nonce, blocks>>
  BY DEF Drop, campaign
<1>2. \A b \in Senders : pool'[b] \subseteq pool[b]
  BY DEF NetInv, NetType
<1>3. NetType'
  <2>1. pool' \in [Senders -> SUBSET [nonce : Nat, by : Users]]
    BY DEF NetInv, NetType
  <2>2. \A b \in Senders : IsFiniteSet(pool'[b])
    BY <1>2, FS_Subset DEF NetInv, NetType
  <2> QED
    BY <1>1, <2>1, <2>2 DEF NetInv, NetType
<1> QED
  BY <1>1, <1>2, <1>3 DEF NetInv

LEMMA NetOther == ASSUME NetInv, NEW a \in Senders, OtherSends(a) PROVE NetInv'
<1> DEFINE new == [nonce |-> PendingNonce(a), by |-> Other]
<1>1. UNCHANGED <<nonce, blocks>> /\ pool' = [pool EXCEPT ![a] = @ \cup {new}]
  BY DEF OtherSends, campaign
<1>2. new \in [nonce : Nat, by : Users] /\ new.by \notin Case
  BY PendingNat, CaseFacts DEF Users, NetInv
<1>3. \A b \in Senders : pool'[b] = IF b = a THEN pool[b] \cup {new} ELSE pool[b]
  BY <1>1 DEF NetInv, NetType
<1>4. NetType'
  <2>1. pool' \in [Senders -> SUBSET [nonce : Nat, by : Users]]
    BY <1>1, <1>2 DEF NetInv, NetType
  <2>2. \A b \in Senders : IsFiniteSet(pool[b]) /\ IsFiniteSet(pool[b] \cup {new})
    BY FS_AddElement DEF NetInv, NetType
  <2>3. \A b \in Senders : IsFiniteSet(pool'[b])
    BY <1>3, <2>2
  <2> QED
    BY <1>1, <2>1, <2>3 DEF NetInv, NetType
<1> QED
  BY <1>1, <1>2, <1>3, <1>4 DEF NetInv

-----------------------------------------------------------------------------
(* The invariant and the theorems *)

LEMMA NoncesStep == AllocInv /\ NetInv /\ [Next]_vars => AllocInv' /\ NetInv'
<1> SUFFICES ASSUME AllocInv, NetInv, [Next]_vars PROVE AllocInv' /\ NetInv'
  OBVIOUS
<1>t. NetType
  BY DEF NetInv
<1>1. CASE LeaseStep
  <2>1. pc = "lease" /\ UNCHANGED campaign /\ UNCHANGED <<nonce, network>>
    BY <1>1 DEF LeaseStep, campaign
  <2>2. AllocInv'
    BY <1>1, <1>t, <2>1, AllocRequest, AllocLock, AllocRpcAnswer, AllocLoad, AllocGrant
       DEF LeaseStep
  <2> QED
    BY <2>1, <2>2, NetUnchanged
<1>2. CASE LeaseDone
  BY <1>2, AllocDone, NetUnchanged DEF LeaseDone
<1>3. CASE LeaseFails \/ SignFails
  BY <1>3, AllocFails, NetUnchanged DEF LeaseFails, SignFails
<1>4. CASE Sign
  BY <1>4, AllocSign, NetSign
<1>5. ASSUME NEW taken \in BOOLEAN, NEW answered \in BOOLEAN, Submit(taken, answered)
      PROVE  AllocInv' /\ NetInv'
  BY <1>5, AllocSubmit, NetSubmit
<1>6. ASSUME NEW a \in Senders, Mine(a) PROVE AllocInv' /\ NetInv'
  BY <1>6, AllocUnchanged, NetMine DEF Mine
<1>7. ASSUME NEW a \in Senders, Drop(a) PROVE AllocInv' /\ NetInv'
  BY <1>7, AllocUnchanged, NetDrop DEF Drop
<1>8. ASSUME NEW a \in Senders, OtherSends(a) PROVE AllocInv' /\ NetInv'
  BY <1>8, AllocUnchanged, NetOther DEF OtherSends
<1>9. CASE UNCHANGED vars
  <2>1. UNCHANGED <<allocator, campaign>> /\ UNCHANGED <<nonce, network>>
    BY <1>9 DEF vars, campaign
  <2> QED
    BY <2>1, AllocUnchanged, NetUnchanged
<1> QED
  BY <1>1, <1>2, <1>3, <1>4, <1>5, <1>6, <1>7, <1>8, <1>9 DEF Next, RunnerStep

LEMMA SignedStep == AllocInv /\ SignedInv /\ [Next]_vars => SignedInv'
<1> SUFFICES ASSUME AllocInv, SignedInv, [Next]_vars, NEW i \in Case, i < seq'
             PROVE  nonce'[i] # NoNonce
  BY DEF SignedInv
<1>t. seq \in Nat /\ i \in Nat
  BY CaseFacts DEF AllocInv, AllocType
<1>1. CASE Sign
  <2>1. i # seq /\ i < seq /\ nonce'[i] = nonce[i]
    BY <1>1, <1>t DEF Sign, AllocInv, AllocType
  <2> QED
    BY <2>1 DEF SignedInv
<1>2. ASSUME NEW taken \in BOOLEAN, NEW answered \in BOOLEAN, Submit(taken, answered)
      PROVE  nonce'[i] # NoNonce
  <2>1. nonce' = nonce /\ nonce[seq] # NoNonce
    BY <1>2 DEF Submit, AllocInv, OneCall
  <2>2. i < seq \/ i = seq
    BY <1>2, <1>t DEF Submit
  <2> QED
    BY <2>1, <2>2 DEF SignedInv
<1>3. CASE UNCHANGED <<seq, nonce>>
  BY <1>3 DEF SignedInv
<1>4. CASE LeaseStep \/ LeaseDone \/ LeaseFails \/ SignFails
  BY <1>3, <1>4 DEF LeaseStep, LeaseDone, LeaseFails, SignFails, campaign
<1>5. ASSUME NEW a \in Senders, Mine(a) \/ Drop(a) \/ OtherSends(a)
      PROVE  nonce'[i] # NoNonce
  BY <1>3, <1>5 DEF Mine, Drop, OtherSends, campaign
<1>6. CASE UNCHANGED vars
  BY <1>3, <1>6 DEF vars, campaign
<1> QED
  BY <1>1, <1>2, <1>4, <1>5, <1>6 DEF Next, RunnerStep

LEMMA NoncesInvariant == Spec => [](AllocInv /\ NetInv)
<1>1. Init => AllocInv /\ NetInv
  BY AllocInit, NetInit
<1> QED
  BY <1>1, NoncesStep, PTL DEF Spec

\* The transactions a campaign signs for an account carry consecutive nonces,
\* and an authorisation shares the nonce of its transaction
\* (campaignTxBuilder.Build over Orchestrator.Lease).
THEOREM NoncesAreConsecutive == Spec => []TxNoncesConsecutive
<1>1. AllocInv => TxNoncesConsecutive
  BY DEF AllocInv, Carried, Due, TxNoncesConsecutive
<1> QED
  BY <1>1, NoncesInvariant, PTL

LEMMA OwnOrOther == AllocInv /\ NetInv => OnlyOthersDisplace
<1> SUFFICES ASSUME AllocInv, NetInv, NEW i \in Built, nonce[i] < Len(blocks[Sender(i)])
             PROVE  blocks[Sender(i)][nonce[i] + 1] \in {i, Other}
  BY DEF OnlyOthersDisplace
<1> DEFINE a == Sender(i)
           k == blocks[a][nonce[i] + 1]
<1>1. i \in Case /\ a \in Senders /\ nonce[i] = Due(i) /\ nonce[i] \in Nat
  BY CaseFacts DEF Built, AllocInv, AllocType, Carried
<1>2. blocks[a] \in Seq(Users)
  BY <1>1 DEF NetInv, NetType
<1>3. nonce[i] + 1 \in DOMAIN blocks[a] /\ nonce[i] + 1 - 1 = nonce[i]
  BY <1>1, <1>2
<1>4. k \in Users
  BY <1>2, <1>3
<1>5. CASE k \in Case
  <2>1. Sender(k) = a /\ nonce[k] = nonce[i]
    BY <1>1, <1>3, <1>5 DEF NetInv
  <2>2. nonce[k] = Due(k)
    BY <1>1, <1>5, <2>1, CaseFacts DEF AllocInv, Carried, Built
  <2>3. base[a] \in Nat /\ Turns(a, i) \in Nat /\ Turns(a, k) \in Nat
    BY <1>1, <1>5, TurnsFacts DEF AllocInv, AllocType
  <2>4. Turns(a, i) = Turns(a, k)
    BY <1>1, <2>1, <2>2, <2>3 DEF Due
  <2>5. ~(i < k) /\ ~(k < i)
    BY <1>1, <1>5, <2>1, <2>3, <2>4, TurnsGrow
  <2>6. k = i
    <3>1. k \in Nat /\ i \in Nat
      BY <1>1, <1>5, CaseFacts
    <3> HIDE DEF k
    <3> QED
      BY <2>5, <3>1
  <2> QED
    BY <2>6
<1> QED
  BY <1>4, <1>5 DEF Users

\* Whatever the node rejects, evicts or includes, no case of a campaign takes
\* the place of another one of the campaign.
THEOREM CasesKeepTheirNonces == Spec => []OnlyOthersDisplace
BY OwnOrOther, NoncesInvariant, PTL

\* A case is not included before an earlier one of its sender, unless somebody
\* else has sent from the account: the nonces of the sender are consecutive and
\* never given back, so the block of the earlier nonce must hold the earlier case
\* or a transaction of the other user (Orchestrator.Lease has no release).
THEOREM GapsStrandLaterCases == Spec => []RejectionStrands
<1>1. ASSUME AllocInv, NetInv, SignedInv, NEW i \in Case, NEW j \in Case,
             i < j, Sender(i) = Sender(j), Included(j)
      PROVE  Included(i) \/ OthersOf(Sender(i)) # {}
  <2> DEFINE a == Sender(i)
  <2> PICK n \in DOMAIN blocks[a] : blocks[a][n] = j
    BY <1>1 DEF Included
  <2>1. a \in Senders /\ blocks[a] \in Seq(Users) /\ base[a] \in Nat
    BY <1>1, CaseFacts DEF NetInv, NetType, AllocInv, AllocType
  <2>2. i \in Nat /\ j \in Nat /\ seq \in Nat /\ NoNonce \notin Nat
    BY <1>1, CaseFacts DEF AllocInv, AllocType
  <2>3. n \in 1..Len(blocks[a]) /\ nonce[j] = n - 1 /\ nonce[j] \in Nat
    BY <1>1, <2>1 DEF NetInv
  <2>4. ~(j > seq)
    BY <1>1, <2>2, <2>3 DEF AllocInv, OneCall
  <2>5. nonce[i] # NoNonce /\ nonce[j] # NoNonce
    BY <1>1, <2>2, <2>3, <2>4 DEF SignedInv
  <2>6. nonce[i] = base[a] + Turns(a, i) /\ nonce[j] = base[a] + Turns(a, j)
    BY <1>1, <2>5 DEF AllocInv, Carried, Built, Due
  <2>7. Turns(a, i) \in Nat /\ Turns(a, j) \in Nat /\ Turns(a, i) < Turns(a, j)
    BY <1>1, <2>1, TurnsFacts, TurnsGrow
  <2> DEFINE m == nonce[i] + 1
             k == blocks[a][m]
  <2>8. m \in DOMAIN blocks[a] /\ m - 1 = nonce[i] /\ nonce[i] \in Nat
    BY <2>1, <2>3, <2>6, <2>7
  <2>9. nonce[i] < Len(blocks[a])
    BY <2>1, <2>3, <2>6, <2>7
  <2>10. k \in {i, Other}
    BY <1>1, <2>5, <2>9, OwnOrOther DEF OnlyOthersDisplace, Built
  <2> QED
    BY <2>8, <2>10 DEF Included, OthersOf
<1>2. AllocInv /\ NetInv /\ SignedInv => RejectionStrands
  BY <1>1 DEF RejectionStrands
<1>3. Init => SignedInv
  BY CaseFacts DEF Init, SignedInv
<1> QED
  BY <1>2, <1>3, SignedStep, NoncesInvariant, PTL DEF Spec

=============================================================================
