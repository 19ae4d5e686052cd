--------------------------- MODULE SpamLoopProofs ---------------------------
(***************************************************************************)
(* The spam loop, for any number of keys, transactions and rounds: only    *)
(* Unstuck replaces a transaction the node holds (OnlyUnstuckReplaces),    *)
(* and the accounts it passes over have nothing to include                 *)
(* (PassedOverIsClear).                                                    *)
(*                                                                         *)
(* The first rests on a fact about the node: the pending nonce is one it   *)
(* holds no transaction of, with or without gaps above it (PendingFresh).  *)
(* It stays so until the caller sends, since nobody else sends from the    *)
(* account meanwhile, and inclusion and eviction only take away.           *)
(***************************************************************************)
EXTENDS SpamLoop, FiniteSetTheorems, TLAPS

Auths == {NoAuth} \cup [by : Keys, nonce : Nat]
Txs == [nonce : Nat, kind : {"old", "unstuck", "airdrop", "spam"}, tag : Nat, auth : Auths]

NodeType ==
    /\ used \in [Accounts -> Nat]
    /\ pool \in [Accounts -> SUBSET Txs]
    /\ \A a \in Accounts : IsFiniteSet(HeldNonces(a))
    /\ \A a \in Accounts : \A n \in HeldNonces(a) : n >= used[a]

MainType ==
    /\ phase \in {"unstuck", "airdrop", "spam", "sleep", "exit"}
    /\ at \in 0..NumKeys
    /\ {tries, low, sent, round} \subseteq Nat

ProcsType ==
    /\ gpc \in [Keys -> {"nonce", "auth", "send", "wait", "report", "over"}]
    /\ gnonce \in [Keys -> Nat] /\ gauth \in [Keys -> Auths] /\ gi \in [Keys -> Nat]

\* Goroutines send in their phase only, and what is about to be sent has a nonce
\* the node holds no transaction of.
Fresh ==
    /\ phase # "spam" => \A k \in Keys : gpc[k] = "over"
    /\ \A k \in Keys : gpc[k] \in {"auth", "send"} => gnonce[k] \notin HeldNonces(k)
    /\ phase = "airdrop" /\ mpc = "send" => low \notin HeldNonces(Faucet)

\* The nonce read first is not ahead of the account.
Behind == phase = "unstuck" /\ mpc = "pending" => low <= used[Account]

SpamInv == NodeType /\ MainType /\ ProcsType /\ Fresh /\ Behind

-----------------------------------------------------------------------------
(* The node *)

LEMMA AccountFacts ==
    /\ NumKeys \in Nat \ {0} /\ N \in Nat \ {0} /\ Keys \subseteq Nat \ {0}
    /\ Keys \subseteq Accounts /\ Faucet \in Accounts /\ 1 \in 0..NumKeys
BY SpamAssumption DEF Keys, Accounts

\* A set of nonces in which nothing between u and a member is missing ends before
\* u plus its size, and has no gap up to there.
LEMMA RunLength ==
    ASSUME NEW u \in Nat, NEW S \in SUBSET Nat, IsFiniteSet(S),
           \A n \in S : n >= u /\ u..n \subseteq S
    PROVE  /\ Cardinality(S) \in Nat /\ u + Cardinality(S) \notin S
           /\ u..(u + Cardinality(S) - 1) \subseteq S
<1> DEFINE c == Cardinality(S)
<1>1. c \in Nat
  BY FS_CardinalityType
<1>2. u + c \notin S
  <2> SUFFICES ASSUME u + c \in S PROVE FALSE
    OBVIOUS
  <2>1. u..(u + c) \subseteq S
    OBVIOUS
  <2>2. Cardinality(u..(u + c)) = u + c - u + 1
    BY <1>1, FS_Interval
  <2>3. Cardinality(u..(u + c)) <= c
    BY <2>1, FS_Subset
  <2> QED
    BY <1>1, <2>2, <2>3
<1>3. ASSUME NEW n \in u..(u + c - 1), n \notin S PROVE FALSE
  <2>1. n \in Nat /\ u <= n /\ n <= u + c - 1
    BY <1>1, <1>3
  <2>2. ASSUME NEW s \in S PROVE s \in u..(n - 1)
    <3>1. s \in Nat /\ s >= u /\ n \notin u..s
      BY <1>3
    <3> QED
      BY <2>1, <3>1
  <2>3. S \subseteq u..(n - 1)
    BY <2>2
  <2>4. IsFiniteSet(u..(n - 1)) /\ Cardinality(u..(n - 1)) = n - u
    <3>1. u \in Int /\ n - 1 \in Int /\ (u > n - 1 => n - u = 0) /\ n - 1 - u + 1 = n - u
      BY <2>1
    <3> QED
      BY <3>1, FS_Interval
  <2>5. c <= n - u
    BY <2>3, <2>4, FS_Subset
  <2> QED
    BY <1>1, <2>1, <2>5
<1> QED
  BY <1>1, <1>2, <1>3

LEMMA NoncesNat == ASSUME NodeType, NEW a \in Accounts PROVE HeldNonces(a) \subseteq Nat
BY DEF NodeType, Txs, HeldNonces

\* The node holds nothing of the pending nonce.
LEMMA PendingFresh ==
    ASSUME NodeType, NEW a \in Accounts
    PROVE  /\ PendingNonceAt(a) \in Nat /\ PendingNonceAt(a) \notin HeldNonces(a)
           /\ PendingNonceAt(a) = used[a] + Cardinality(Executable(a))
           /\ Cardinality(Executable(a)) \in Nat /\ IsFiniteSet(Executable(a))
<1> DEFINE H == HeldNonces(a)
           u == used[a]
           E == Executable(a)
           p == u + Cardinality(E)
<1>1. u \in Nat /\ H \subseteq Nat /\ IsFiniteSet(H) /\ \A n \in H : n >= u
  BY NoncesNat DEF NodeType
<1>2. E \subseteq H /\ IsFiniteSet(E) /\ Cardinality(E) \in Nat
  <2>1. E \subseteq H
    BY DEF Executable
  <2> QED
    BY <1>1, <2>1, FS_Subset, FS_CardinalityType
<1>3. \A n \in E : n >= u /\ u..n \subseteq E
  <2> SUFFICES ASSUME NEW n \in E, NEW m \in u..n PROVE m \in E
    BY <1>1, <1>2
  <2>1. u..n \subseteq H /\ n \in Nat /\ m \in Nat /\ m <= n
    BY <1>1, <1>2 DEF Executable
  <2>2. u..m \subseteq u..n
    BY <1>1, <2>1
  <2> QED
    BY <2>1, <2>2 DEF Executable
<1>4. p \notin E /\ u..(p - 1) \subseteq E
  <2>1. E \in SUBSET Nat
    BY <1>1, <1>2
  <2> HIDE DEF E
  <2> QED
    BY <1>1, <1>2, <1>3, <2>1, RunLength
<1>5. p \notin H
  <2> SUFFICES ASSUME p \in H PROVE FALSE
    OBVIOUS
  <2>1. u..p \subseteq H
    <3> SUFFICES ASSUME NEW m \in u..p PROVE m \in H
      OBVIOUS
    <3>1. m = p \/ m \in u..(p - 1)
      BY <1>1, <1>2
    <3> QED
      BY <1>2, <1>4, <3>1
  <2> QED
    BY <1>4, <2>1 DEF Executable
<1> QED
  BY <1>1, <1>2, <1>5 DEF PendingNonceAt

\* Sending adds at most one transaction, to the account that sends.
LEMMA NodeSend ==
    ASSUME NodeType, NEW a \in Accounts, NEW t \in Txs, NEW ok, SendTransaction(a, t, ok)
    PROVE  /\ NodeType' /\ used' = used
           /\ \A b \in Accounts : b # a => pool'[b] = pool[b]
           /\ pool'[a] \subseteq pool[a] \cup {t}
<1>1. CASE UNCHANGED node
  BY <1>1 DEF NodeType, node, HeldNonces
<1>2. CASE /\ t.nonce >= used[a] /\ UNCHANGED used
           /\ pool' = [pool EXCEPT ![a] = (@ \ SameNonce(a, t)) \cup {t}]
  <2>1. pool'[a] = (pool[a] \ SameNonce(a, t)) \cup {t}
        /\ \A b \in Accounts : b # a => pool'[b] = pool[b]
    BY <1>2 DEF NodeType
  <2>2. pool' \in [Accounts -> SUBSET Txs]
    BY <1>2 DEF NodeType
  <2>3. \A b \in Accounts : HeldNonces(b)' \subseteq HeldNonces(b) \cup {t.nonce}
    BY <2>1 DEF HeldNonces
  <2>4. \A b \in Accounts : b # a => HeldNonces(b)' = HeldNonces(b)
    BY <2>1 DEF HeldNonces
  <2>5. \A b \in Accounts : IsFiniteSet(HeldNonces(b)')
    <3> TAKE b \in Accounts
    <3>1. IsFiniteSet(HeldNonces(b) \cup {t.nonce})
      BY FS_AddElement DEF NodeType
    <3> QED
      BY <2>3, <3>1, FS_Subset
  <2>6. \A b \in Accounts : \A n \in HeldNonces(b)' : n >= used[b]
    <3> TAKE b \in Accounts
    <3>1. CASE b = a
      BY <1>2, <2>3, <3>1 DEF NodeType
    <3>2. CASE b # a
      BY <2>4, <3>2 DEF NodeType
    <3> QED
      BY <3>1, <3>2
  <2> QED
    BY <1>2, <2>1, <2>2, <2>5, <2>6 DEF NodeType
<1> QED
  BY <1>1, <1>2 DEF SendTransaction

\* What the node does by itself only takes away, and accounts only move on.
LEMMA NodeShrinks ==
    ASSUME NodeType, NEW a \in Accounts, Mine(a) \/ Drop(a)
    PROVE  /\ NodeType'
           /\ \A b \in Accounts : pool'[b] \subseteq pool[b] /\ used'[b] >= used[b]
<1>1. CASE Drop(a)
  <2>1. UNCHANGED used /\ pool' \in [Accounts -> SUBSET Txs]
        /\ \A b \in Accounts : pool'[b] \subseteq pool[b]
    BY <1>1 DEF Drop, NodeType
  <2>2. \A b \in Accounts : HeldNonces(b)' \subseteq HeldNonces(b)
    BY <2>1 DEF HeldNonces
  <2>3. \A b \in Accounts : IsFiniteSet(HeldNonces(b)')
    BY <2>2, FS_Subset DEF NodeType
  <2> QED
    BY <2>1, <2>2, <2>3 DEF NodeType
<1>2. CASE Mine(a)
  <2> PICK t \in pool[a] :
        LET paid == [used EXCEPT ![a] = @ + 1]
            runs == t.auth # NoAuth /\ paid[t.auth.by] = t.auth.nonce
        IN  used' = IF runs THEN [paid EXCEPT ![t.auth.by] = @ + 1] ELSE paid
    BY <1>2 DEF Mine
  <2>1. pool' = [b \in Accounts |-> {v \in pool[b] : v.nonce >= used'[b]}]
    BY <1>2 DEF Mine
  <2>2. t \in Txs /\ (t.auth # NoAuth => t.auth.by \in Accounts)
    <3>1. t \in Txs
      BY DEF NodeType
    <3>2. t.auth \in Auths
      BY <3>1 DEF Txs
    <3>3. t.auth # NoAuth => t.auth \in [by : Keys, nonce : Nat]
      BY <3>2 DEF Auths
    <3> QED
      BY <3>1, <3>3, AccountFacts
  <2> DEFINE paid == [used EXCEPT ![a] = @ + 1]
  <2>3. paid \in [Accounts -> Nat] /\ \A b \in Accounts : paid[b] >= used[b]
    BY DEF NodeType
  <2>4. used' \in [Accounts -> Nat] /\ \A b \in Accounts : used'[b] >= paid[b]
    <3> DEFINE by == t.auth.by
    <3>1. CASE t.auth # NoAuth /\ paid[by] = t.auth.nonce
      <4>1. used' = [paid EXCEPT ![by] = @ + 1]
        BY <3>1
      <4>2. by \in Accounts
        BY <2>2, <3>1
      <4>a. paid \in [Accounts -> Nat] /\ paid[by] + 1 \in Nat
        BY <2>3, <4>2
      <4> HIDE DEF paid, by
      <4>3. used' \in [Accounts -> Nat]
        BY <4>a, <4>1, <4>2
      <4>4. \A b \in Accounts : used'[b] = IF b = by THEN paid[b] + 1 ELSE paid[b]
        BY <2>3, <4>1, <4>2
      <4>5. \A b \in Accounts : paid[b] \in Nat
        BY <2>3
      <4> QED
        BY <4>3, <4>4, <4>5
    <3>2. CASE ~(t.auth # NoAuth /\ paid[by] = t.auth.nonce)
      <4>1. used' = paid
        BY <3>2
      <4>2. \A b \in Accounts : paid[b] \in Nat /\ used'[b] = paid[b]
        BY <2>3, <4>1
      <4>3. \A b \in Accounts : used'[b] >= paid[b]
        <5> TAKE b \in Accounts
        <5>1. paid[b] \in Nat /\ used'[b] = paid[b]
          BY <4>2
        <5> HIDE DEF paid
        <5> QED
          BY <5>1
      <4>4. used' \in [Accounts -> Nat]
        BY <2>3, <4>1
      <4> QED
        BY <4>3, <4>4
    <3> QED
      BY <3>1, <3>2
  <2>5. \A b \in Accounts : used'[b] >= used[b]
    <3> TAKE b \in Accounts
    <3> HIDE DEF paid
    <3>1. used[b] \in Nat /\ paid[b] \in Nat /\ used'[b] \in Nat
      BY <2>3, <2>4 DEF NodeType
    <3> QED
      BY <2>3, <2>4, <3>1
  <2>6. pool' \in [Accounts -> SUBSET Txs]
        /\ \A b \in Accounts : pool'[b] \subseteq pool[b]
    BY <2>1 DEF NodeType
  <2>7. \A b \in Accounts : HeldNonces(b)' \subseteq HeldNonces(b)
    BY <2>6 DEF HeldNonces
  <2>8. \A b \in Accounts : IsFiniteSet(HeldNonces(b)')
    BY <2>7, FS_Subset DEF NodeType
  <2>9. \A b \in Accounts : \A n \in HeldNonces(b)' : n >= used'[b]
    BY <2>1 DEF HeldNonces
  <2> QED
    BY <2>4, <2>5, <2>6, <2>8, <2>9 DEF NodeType
<1> QED
  BY <1>1, <1>2

-----------------------------------------------------------------------------
(* The main goroutine *)

LEMMA SpamInit == Init => SpamInv
<1> SUFFICES ASSUME Init PROVE SpamInv
  OBVIOUS
<1>1. PICK held \in [Accounts -> SUBSET (0..MaxStuck)] :
          pool = [a \in Accounts |-> {Tx(n, "old", 0, NoAuth) : n \in held[a]}]
  BY DEF Init
<1>2. MaxStuck \in Nat
  BY SpamAssumption
<1>3. \A a \in Accounts : HeldNonces(a) \subseteq 0..MaxStuck
  BY <1>1 DEF HeldNonces, Tx
<1>4. \A a \in Accounts : IsFiniteSet(HeldNonces(a))
  <2>1. IsFiniteSet(0..MaxStuck)
    BY <1>2, FS_Interval
  <2> QED
    BY <1>3, <2>1, FS_Subset
<1>5. used \in [Accounts -> Nat] /\ \A a \in Accounts : \A n \in HeldNonces(a) : n >= used[a]
  BY <1>2, <1>3 DEF Init
<1>6. pool \in [Accounts -> SUBSET Txs]
  <2>1. \A n \in 0..MaxStuck : Tx(n, "old", 0, NoAuth) \in Txs
    BY <1>2 DEF Tx, Txs, Auths
  <2> QED
    BY <1>1, <2>1
<1>7. MainType /\ ProcsType
  BY AccountFacts DEF Init, MainType, ProcsType, Auths
<1>8. Fresh /\ Behind
  BY DEF Init, Fresh, Behind
<1> QED
  BY <1>4, <1>5, <1>6, <1>7, <1>8 DEF SpamInv, NodeType

LEMMA AccountType == ASSUME MainType, phase = "unstuck" PROVE Account \in Accounts
<1>1. at # 0 => at \in Keys
  BY SpamAssumption DEF MainType, Keys
<1> QED
  BY <1>1, AccountFacts DEF Account

\* Between the phases the goroutines rest, and the main goroutine has its next
\* call to make.
LEMMA SpamGoTo ==
    ASSUME SpamInv, NEW p \in {"unstuck", "airdrop", "sleep"}, NEW c \in {"confirmed", "pending", "sleep"},
           NEW first \in 0..NumKeys, GoTo(p, c, first), p = "unstuck" => c = "confirmed",
           phase # "spam", UNCHANGED <<round, gpc, gnonce, gauth, gi>>, NodeType'
    PROVE  SpamInv'
<1>1. MainType' /\ ProcsType'
  BY DEF SpamInv, MainType, ProcsType, GoTo
<1>2. Fresh' /\ Behind'
  BY DEF SpamInv, Fresh, Behind, GoTo
<1> QED
  BY <1>1, <1>2 DEF SpamInv

LEMMA NodeSame == ASSUME NodeType, UNCHANGED node PROVE NodeType'
BY DEF NodeType, HeldNonces, node

LEMMA StepReads ==
    ASSUME SpamInv, ReadConfirmed \/ ReadBase \/ AirdropNonce PROVE SpamInv'
<1>1. NodeType'
  BY NodeSame DEF SpamInv, ReadConfirmed, ReadBase, AirdropNonce
<1>2. CASE ReadConfirmed \/ ReadBase
  <2>1. Account \in Accounts /\ used[Account] \in Nat
    BY <1>2, AccountType DEF SpamInv, NodeType, ReadConfirmed, ReadBase
  <2>2. low' = used[Account] /\ used' = used /\ Account' = Account /\ phase' = "unstuck"
    BY <1>2 DEF ReadConfirmed, ReadBase, NonceAt, Account, node
  <2>3. MainType' /\ ProcsType'
    BY <1>2, <2>1, <2>2 DEF SpamInv, MainType, ProcsType, ReadConfirmed, ReadBase, procs
  <2>4. Fresh'
    BY <1>2, <2>2 DEF SpamInv, Fresh, ReadConfirmed, ReadBase, procs
  <2>5. Behind'
    <3>1. used'[Account'] = used[Account]
      BY <2>2
    <3> QED
      BY <2>1, <2>2, <3>1 DEF Behind
  <2> QED
    BY <1>1, <2>3, <2>4, <2>5 DEF SpamInv
<1>3. CASE AirdropNonce
  <2>1. low' \in Nat /\ low' \notin HeldNonces(Faucet) /\ UNCHANGED pool
    BY <1>3, PendingFresh, AccountFacts DEF SpamInv, AirdropNonce, node
  <2>2. MainType' /\ ProcsType'
    BY <1>3, <2>1 DEF SpamInv, MainType, ProcsType, AirdropNonce, procs
  <2>3. Fresh' /\ Behind'
    BY <1>3, <2>1 DEF SpamInv, Fresh, Behind, AirdropNonce, procs, HeldNonces
  <2> QED
    BY <1>1, <2>2, <2>3 DEF SpamInv
<1> QED
  BY <1>2, <1>3

LEMMA StepReadPending == ASSUME SpamInv, ReadPending PROVE SpamInv'
<1>1. NodeType' /\ phase = "unstuck" /\ at \in 0..NumKeys
  BY NodeSame DEF SpamInv, MainType, ReadPending
<1>2. UNCHANGED <<round, gpc, gnonce, gauth, gi>>
  BY DEF ReadPending, procs
<1>3. CASE NextAccount
  <2>1. CASE at = NumKeys
    <3>1. GoTo("airdrop", "pending", 1) /\ 1 \in 0..NumKeys
      BY <1>3, <2>1, AccountFacts DEF NextAccount
    <3> QED
      BY <1>1, <1>2, <3>1, SpamGoTo
  <2>2. CASE at # NumKeys
    <3>1. GoTo("unstuck", "confirmed", at + 1) /\ at + 1 \in 0..NumKeys
      BY <1>1, <1>3, <2>2, AccountFacts DEF NextAccount
    <3> QED
      BY <1>1, <1>2, <3>1, SpamGoTo
  <2> QED
    BY <2>1, <2>2
<1>4. CASE Stuck(PendingNonceAt(Account))
  <2>1. MainType' /\ ProcsType'
    BY <1>2, <1>4 DEF SpamInv, MainType, ProcsType, Stuck
  <2>2. Fresh' /\ Behind'
    BY <1>1, <1>2, <1>4 DEF SpamInv, Fresh, Behind, Stuck
  <2> QED
    BY <1>1, <2>1, <2>2 DEF SpamInv
<1> QED
  BY <1>3, <1>4 DEF ReadPending

LEMMA StepResend == ASSUME SpamInv, NEW ok \in BOOLEAN, Resend(ok) PROVE SpamInv'
<1> DEFINE t == Tx(low + sent, "unstuck", tries, NoAuth)
<1>1. phase = "unstuck" /\ Account \in Accounts
  BY AccountType DEF SpamInv, Resend
<1>2. t \in Txs
  BY DEF SpamInv, MainType, Tx, Txs, Auths
<1>3. SendTransaction(Account, t, ok)
  BY DEF Resend
<1>4. NodeType'
  <2> HIDE DEF t
  <2> QED
    BY <1>1, <1>2, <1>3, NodeSend DEF SpamInv
<1>5. UNCHANGED <<round, gpc, gnonce, gauth, gi>>
  BY DEF Resend, procs
<1>6. CASE GoTo("airdrop", "pending", 1)
  BY <1>1, <1>4, <1>5, <1>6, AccountFacts, SpamGoTo
<1>7. CASE sent' = sent + 1 /\ UNCHANGED <<phase, at, mpc, tries, low, missing, last, got>>
  <2>1. MainType' /\ ProcsType'
    BY <1>5, <1>7 DEF SpamInv, MainType, ProcsType
  <2>2. Fresh' /\ Behind'
    BY <1>1, <1>5, <1>7 DEF SpamInv, Fresh, Behind, Resend
  <2> QED
    BY <1>4, <2>1, <2>2 DEF SpamInv
<1>8. CASE /\ mpc' = "wait" /\ low' = 0 /\ sent' = 0
           /\ UNCHANGED <<phase, at, tries, got>>
  <2>1. MainType' /\ ProcsType'
    BY <1>5, <1>8 DEF SpamInv, MainType, ProcsType
  <2>2. Fresh' /\ Behind'
    BY <1>1, <1>5, <1>8 DEF SpamInv, Fresh, Behind
  <2> QED
    BY <1>4, <2>1, <2>2 DEF SpamInv
<1> QED
  BY <1>6, <1>7, <1>8 DEF Resend

LEMMA StepUnstuck ==
    ASSUME SpamInv, Unstuck \/ UnstuckFails \/ NoGasPrice PROVE SpamInv'
<1>1. NodeType' /\ phase = "unstuck"
  BY NodeSame DEF SpamInv, Unstuck, UnstuckFails, NoGasPrice
<1>2. UNCHANGED <<round, gpc, gnonce, gauth, gi>>
  BY DEF Unstuck, UnstuckFails, NoGasPrice, procs
<1>3. CASE GoTo("airdrop", "pending", 1)
  BY <1>1, <1>2, <1>3, AccountFacts, SpamGoTo
<1>4. CASE /\ tries' = tries + 1 /\ mpc' = "confirmed"
           /\ UNCHANGED <<phase, at, low, missing, sent, got>>
  <2>1. MainType' /\ ProcsType'
    BY <1>2, <1>4 DEF SpamInv, MainType, ProcsType
  <2>2. Fresh' /\ Behind'
    BY <1>1, <1>2, <1>4 DEF SpamInv, Fresh, Behind
  <2> QED
    BY <1>1, <2>1, <2>2 DEF SpamInv
<1>5. CASE NoGasPrice
  <2>1. MainType' /\ ProcsType'
    BY <1>2, <1>5 DEF SpamInv, MainType, ProcsType, NoGasPrice
  <2>2. Fresh' /\ Behind'
    BY <1>1, <1>2, <1>5 DEF SpamInv, Fresh, Behind, NoGasPrice
  <2> QED
    BY <1>1, <2>1, <2>2 DEF SpamInv
<1> QED
  BY <1>3, <1>4, <1>5 DEF Unstuck, UnstuckFails

LEMMA StepAirdrop ==
    ASSUME SpamInv, AirdropSend \/ AirdropFails PROVE SpamInv'
<1> DEFINE t == Tx(low, "airdrop", round, NoAuth)
<1>1. t \in Txs /\ Faucet \in Accounts
  BY AccountFacts DEF SpamInv, MainType, Tx, Txs, Auths
<1>2. UNCHANGED node \/ SendTransaction(Faucet, t, TRUE) \/ SendTransaction(Faucet, t, FALSE)
  BY DEF AirdropSend, AirdropFails
<1>3. NodeType'
  <2> HIDE DEF t
  <2> QED
    BY <1>1, <1>2, NodeSend, NodeSame DEF SpamInv
<1>4. phase = "airdrop" /\ UNCHANGED <<round, gpc, gnonce, gauth, gi>>
  BY DEF AirdropSend, AirdropFails, procs
<1>5. CASE AirdropSend
  <2>1. MainType' /\ ProcsType'
    <3>1. at < NumKeys => at + 1 \in 0..NumKeys
      BY SpamAssumption DEF SpamInv, MainType
    <3> QED
      BY <1>4, <1>5, <3>1 DEF SpamInv, MainType, ProcsType, AirdropSend
  <2>2. phase' = "airdrop" /\ mpc' # "send"
    BY <1>4, <1>5 DEF AirdropSend
  <2>3. Fresh' /\ Behind'
    BY <1>4, <2>2 DEF SpamInv, Fresh, Behind
  <2> QED
    BY <1>3, <2>1, <2>3 DEF SpamInv
<1>6. CASE AirdropFails
  <2>1. MainType' /\ ProcsType'
    BY <1>4, <1>6 DEF SpamInv, MainType, ProcsType, AirdropFails
  <2>2. Fresh' /\ Behind'
    BY <1>4, <1>6 DEF SpamInv, Fresh, Behind, AirdropFails
  <2> QED
    BY <1>3, <2>1, <2>2 DEF SpamInv
<1> QED
  BY <1>5, <1>6

LEMMA StepRound ==
    ASSUME SpamInv, Airdropped \/ Join \/ WakeUp PROVE SpamInv'
<1>1. NodeType'
  BY NodeSame DEF SpamInv, Airdropped, Join, WakeUp
<1>2. CASE Airdropped
  <2>1. MainType' /\ ProcsType'
    BY <1>2, AccountFacts DEF SpamInv, MainType, ProcsType, Airdropped, GoTo
  <2>2. Fresh' /\ Behind'
    BY <1>2 DEF SpamInv, Fresh, Behind, Airdropped, GoTo
  <2> QED
    BY <1>1, <2>1, <2>2 DEF SpamInv
<1>3. CASE Join
  <2>1. MainType' /\ ProcsType'
    BY <1>3, AccountFacts DEF SpamInv, MainType, ProcsType, Join, GoTo
  <2>2. Fresh' /\ Behind'
    BY <1>3 DEF SpamInv, Fresh, Behind, Join, GoTo
  <2> QED
    BY <1>1, <2>1, <2>2 DEF SpamInv
<1>4. CASE WakeUp
  BY <1>1, <1>4, AccountFacts, SpamGoTo DEF WakeUp, procs
<1> QED
  BY <1>2, <1>3, <1>4

-----------------------------------------------------------------------------
(* The goroutines *)

\* A goroutine is at work in its phase only.
LEMMA KeyAtWork ==
    ASSUME SpamInv, NEW k \in Keys, gpc[k] # "over"
    PROVE  phase = "spam" /\ k \in Accounts
BY AccountFacts DEF SpamInv, Fresh

LEMMA StepPrepare ==
    ASSUME SpamInv, NEW k \in Keys, ReadNonce(k) \/ \E by \in Keys : Authorise(k, by)
    PROVE  SpamInv'
<1>1. phase = "spam" /\ k \in Accounts
  BY KeyAtWork DEF ReadNonce, Authorise
<1>2. UNCHANGED <<main, node>>
  BY DEF ReadNonce, Authorise
<1>3. NodeType' /\ MainType' /\ Behind' /\ \A j \in Keys : HeldNonces(j)' = HeldNonces(j)
  BY <1>1, <1>2, NodeSame
     DEF SpamInv, MainType, Behind, main, node, HeldNonces
<1>4. phase' = "spam"
  BY <1>1, <1>2 DEF main
<1>5. CASE ReadNonce(k)
  <2>1. gnonce' = [gnonce EXCEPT ![k] = PendingNonceAt(k)]
        /\ PendingNonceAt(k) \in Nat /\ PendingNonceAt(k) \notin HeldNonces(k)
    BY <1>1, <1>5, PendingFresh DEF SpamInv, ReadNonce
  <2>2. ProcsType'
    BY <1>5, <2>1 DEF SpamInv, ProcsType, ReadNonce
  <2>3. Fresh'
    <3>1. ASSUME NEW j \in Keys, gpc'[j] \in {"auth", "send"}
          PROVE  gnonce'[j] \notin HeldNonces(j)
      <4>1. CASE j = k
        BY <2>1, <4>1 DEF SpamInv, ProcsType
      <4>2. CASE j # k
        <5>1. gnonce'[j] = gnonce[j] /\ gpc'[j] = gpc[j]
          BY <1>5, <2>1, <4>2 DEF SpamInv, ProcsType, ReadNonce
        <5> QED
          BY <3>1, <5>1 DEF SpamInv, Fresh
      <4> QED
        BY <4>1, <4>2
    <3> QED
      BY <1>3, <1>4, <3>1 DEF Fresh
  <2> QED
    BY <1>3, <2>2, <2>3 DEF SpamInv
<1>6. ASSUME NEW by \in Keys, Authorise(k, by) PROVE SpamInv'
  <2>1. PendingNonceAt(by) \in Nat
    BY PendingFresh, AccountFacts DEF SpamInv
  <2>2. [by |-> by, nonce |-> PendingNonceAt(by)] \in Auths
    BY <2>1 DEF Auths
  <2>3. gauth' \in [Keys -> Auths]
    BY <1>6, <2>2 DEF SpamInv, ProcsType, Authorise
  <2>4. ProcsType'
    BY <1>6, <2>3 DEF SpamInv, ProcsType, Authorise
  <2>5. Fresh'
    <3>1. gnonce' = gnonce /\ gpc[k] = "auth" /\ gpc' = [gpc EXCEPT ![k] = "send"]
      BY <1>6 DEF Authorise
    <3>2. \A j \in Keys : gpc'[j] \in {"auth", "send"} => gpc[j] \in {"auth", "send"}
      BY <3>1 DEF SpamInv, ProcsType
    <3> QED
      BY <1>3, <1>4, <3>1, <3>2 DEF SpamInv, Fresh
  <2> QED
    BY <1>3, <2>4, <2>5 DEF SpamInv
<1> QED
  BY <1>5, <1>6

LEMMA SpamTxType == ASSUME SpamInv, NEW k \in Keys PROVE SpamTx(k) \in Txs
<1>1. round * N + gi[k] \in Nat
  BY AccountFacts DEF SpamInv, MainType, ProcsType
<1> QED
  BY <1>1 DEF SpamInv, ProcsType, SpamTx, Tx, Txs

LEMMA StepSend ==
    ASSUME SpamInv, NEW k \in Keys, Send(k) \/ SenderFails(k) PROVE SpamInv'
<1>1. phase = "spam" /\ k \in Accounts /\ SpamTx(k) \in Txs
  BY KeyAtWork, SpamTxType DEF Send, SenderFails
<1>2. UNCHANGED node \/ SendTransaction(k, SpamTx(k), TRUE) \/ SendTransaction(k, SpamTx(k), FALSE)
  BY DEF Send, SenderFails
<1>3. NodeType' /\ used' = used /\ \A j \in Keys : j # k => HeldNonces(j)' = HeldNonces(j)
  <2>1. CASE UNCHANGED node
    BY <2>1, NodeSame DEF SpamInv, node, HeldNonces
  <2>2. ASSUME NEW ok, SendTransaction(k, SpamTx(k), ok)
        PROVE  NodeType' /\ used' = used /\ \A j \in Keys : j # k => HeldNonces(j)' = HeldNonces(j)
    <3>1. NodeType' /\ used' = used /\ \A b \in Accounts : b # k => pool'[b] = pool[b]
      BY <1>1, <2>2, NodeSend DEF SpamInv
    <3> QED
      BY <3>1, AccountFacts DEF HeldNonces
  <2> QED
    BY <1>2, <2>1, <2>2
<1>4. MainType' /\ Behind' /\ phase' = "spam"
  BY <1>1 DEF SpamInv, MainType, Behind, Send, SenderFails, main
<1>5. ProcsType' /\ gpc'[k] \in {"nonce", "wait", "report"}
      /\ \A j \in Keys : j # k => gpc'[j] = gpc[j] /\ gnonce'[j] = gnonce[j]
  <2>1. gnonce' = [gnonce EXCEPT ![k] = 0] /\ gauth' = [gauth EXCEPT ![k] = NoAuth]
    BY DEF Send, SenderFails
  <2>2. gnonce' \in [Keys -> Nat] /\ gauth' \in [Keys -> Auths]
    BY <2>1 DEF SpamInv, ProcsType, Auths
  <2>3. CASE Send(k)
    <3>1. gi' \in [Keys -> Nat]
      BY <2>3 DEF SpamInv, ProcsType, Send
    <3> QED
      BY <2>1, <2>2, <2>3, <3>1 DEF SpamInv, ProcsType, Send
  <2>4. CASE SenderFails(k)
    BY <2>1, <2>2, <2>4 DEF SpamInv, ProcsType, SenderFails
  <2> QED
    BY <2>3, <2>4
<1>6. Fresh'
  <2>1. ASSUME NEW j \in Keys, gpc'[j] \in {"auth", "send"}
        PROVE  gnonce'[j] \notin HeldNonces(j)'
    BY <1>3, <1>5, <2>1 DEF SpamInv, Fresh
  <2> QED
    BY <1>4, <2>1 DEF Fresh
<1> QED
  BY <1>3, <1>4, <1>5, <1>6 DEF SpamInv

LEMMA StepRest ==
    ASSUME SpamInv, NEW k \in Keys, WaitedFor(k) \/ WaitTimesOut(k) \/ Report(k)
    PROVE  SpamInv'
<1>1. phase = "spam"
  BY KeyAtWork DEF WaitedFor, WaitTimesOut, Report
<1>2. UNCHANGED <<main, node, gnonce, gauth, gi>>
  BY DEF WaitedFor, WaitTimesOut, Report
<1>3. NodeType' /\ MainType' /\ Behind' /\ \A j \in Keys : HeldNonces(j)' = HeldNonces(j)
  BY <1>1, <1>2, NodeSame
     DEF SpamInv, MainType, Behind, main, node, HeldNonces
<1>4. ProcsType'
  BY <1>2 DEF SpamInv, ProcsType, WaitedFor, WaitTimesOut, Report
<1>5. \A j \in Keys : gpc'[j] \in {"auth", "send"} => gpc[j] \in {"auth", "send"}
  BY DEF SpamInv, ProcsType, WaitedFor, WaitTimesOut, Report
<1>6. Fresh'
  BY <1>1, <1>2, <1>3, <1>5 DEF SpamInv, Fresh, main
<1> QED
  BY <1>3, <1>4, <1>6 DEF SpamInv

LEMMA StepNode == ASSUME SpamInv, NEW a \in Accounts, Mine(a) \/ Drop(a) PROVE SpamInv'
<1>1. NodeType' /\ \A b \in Accounts : pool'[b] \subseteq pool[b] /\ used'[b] >= used[b]
  BY NodeShrinks DEF SpamInv
<1>2. UNCHANGED <<main, procs>>
  BY DEF Mine, Drop
<1>3. MainType' /\ ProcsType'
  BY <1>2 DEF SpamInv, MainType, ProcsType, main, procs
<1>4. \A b \in Accounts : HeldNonces(b)' \subseteq HeldNonces(b)
  BY <1>1 DEF HeldNonces
<1>5. Fresh'
  BY <1>2, <1>4, AccountFacts DEF SpamInv, Fresh, main, procs
<1>6. Behind'
  <2> SUFFICES ASSUME phase = "unstuck", mpc = "pending" PROVE low <= used'[Account]
    BY <1>2 DEF Behind, Account, main
  <2>1. Account \in Accounts /\ low <= used[Account]
    BY AccountType DEF SpamInv, Behind
  <2>2. low \in Nat /\ used[Account] \in Nat /\ used'[Account] \in Nat
    BY <1>1, <2>1 DEF SpamInv, MainType, NodeType
  <2> QED
    BY <1>1, <2>1, <2>2
<1> QED
  BY <1>1, <1>3, <1>5, <1>6 DEF SpamInv

LEMMA StepStutter == ASSUME SpamInv, UNCHANGED vars PROVE SpamInv'
<1>1. NodeType' /\ MainType' /\ ProcsType'
  BY NodeSame DEF SpamInv, MainType, ProcsType, vars, main, procs
<1>2. Fresh' /\ Behind'
  BY DEF SpamInv, Fresh, Behind, HeldNonces, Account, vars, main, procs, node
<1> QED
  BY <1>1, <1>2 DEF SpamInv

LEMMA SpamInvariant == Spec => []SpamInv
<1>1. Init => SpamInv
  BY SpamInit
<1>2. SpamInv /\ [Next]_vars => SpamInv'
  BY StepReads, StepReadPending, StepResend, StepUnstuck, StepAirdrop, StepRound,
     StepPrepare, StepSend, StepRest, StepNode, StepStutter
     DEF Next, MainStep, KeyStep
<1> QED
  BY <1>1, <1>2, PTL DEF Spec

-----------------------------------------------------------------------------
(* Theorems *)

\* isStuck of spammer/helper.go: an account it finds not stuck has nothing
\* executable when the second answer is given.
THEOREM PassedOverAreClear == Spec => PassedOverIsClear
<1>1. SpamInv => [ ReadPending /\ mpc' # "base" => Executable(Account) = {} ]_vars
  <2> SUFFICES ASSUME SpamInv, ReadPending, mpc' # "base" PROVE Executable(Account) = {}
    OBVIOUS
  <2>2. phase = "unstuck" /\ mpc = "pending"
    BY DEF ReadPending
  <2>3. PendingNonceAt(Account) = low
    BY DEF ReadPending, Stuck
  <2>4. Account \in Accounts /\ low \in Nat /\ used[Account] \in Nat /\ low <= used[Account]
    BY <2>2, AccountType DEF SpamInv, MainType, NodeType, Behind
  <2>5. Cardinality(Executable(Account)) = 0 /\ IsFiniteSet(Executable(Account))
    BY <2>3, <2>4, PendingFresh DEF SpamInv
  <2> QED
    BY <2>5, FS_EmptySet
<1> QED
  BY <1>1, SpamInvariant, PTL DEF Spec, PassedOverIsClear

\* SendBasicTransactions, SendBlobTransactions, Send7702Transactions, Airdrop:
\* what they send never takes the place of a transaction the node holds.
THEOREM SendersNeverReplace == Spec => OnlyUnstuckReplaces
<1> DEFINE Allowed(a, t) == t.kind # "unstuck" => SameNonce(a, t) = {}
<1>a. ASSUME SpamInv, NEW a \in Accounts, NEW t \in Txs, NEW ok, SendTransaction(a, t, ok),
             t.kind = "unstuck" \/ t.nonce \notin HeldNonces(a),
             NEW b \in Accounts, NEW u \in pool'[b] \ pool[b]
      PROVE  Allowed(b, u)
  <2>1. CASE UNCHANGED node
    BY <2>1 DEF node
  <2>2. CASE ~UNCHANGED node
    <3>1. u = t /\ b = a
      BY <1>a, NodeSend DEF SpamInv
    <3>2. t.nonce \notin HeldNonces(a) => SameNonce(a, t) = {}
      BY DEF HeldNonces, SameNonce
    <3> QED
      BY <1>a, <3>1, <3>2
  <2> QED
    BY <2>1, <2>2
<1>1. SpamInv /\ [Next]_vars
      => [ \A a \in Accounts : \A t \in pool'[a] \ pool[a] :
              t.kind # "unstuck" => SameNonce(a, t) = {} ]_vars
  <2> SUFFICES ASSUME SpamInv, Next, NEW b \in Accounts, NEW u \in pool'[b] \ pool[b]
               PROVE  Allowed(b, u)
    OBVIOUS
  <2>1. ~UNCHANGED pool
    OBVIOUS
  <2>2. CASE \E ok \in BOOLEAN : Resend(ok)
    <3> DEFINE t == Tx(low + sent, "unstuck", tries, NoAuth)
    <3>1. t \in Txs /\ t.kind = "unstuck"
      BY DEF SpamInv, MainType, Tx, Txs, Auths
    <3>2. Account \in Accounts /\ \E ok : SendTransaction(Account, t, ok)
      BY <2>2, AccountType DEF SpamInv, Resend
    <3> HIDE DEF t, Allowed
    <3> QED
      BY <1>a, <3>1, <3>2
  <2>3. CASE AirdropSend \/ AirdropFails
    <3> DEFINE t == Tx(low, "airdrop", round, NoAuth)
    <3>1. t \in Txs /\ t.nonce = low /\ Faucet \in Accounts
      BY AccountFacts DEF SpamInv, MainType, Tx, Txs, Auths
    <3>2. mpc = "send" /\ \E ok : SendTransaction(Faucet, t, ok)
      BY <2>1, <2>3 DEF AirdropSend, AirdropFails, node
    <3>3. low \notin HeldNonces(Faucet)
      BY <2>3, <3>2 DEF SpamInv, Fresh, AirdropSend, AirdropFails
    <3> HIDE DEF t, Allowed
    <3> QED
      BY <1>a, <3>1, <3>2, <3>3
  <2>4. ASSUME NEW k \in Keys, Send(k) \/ SenderFails(k)
        PROVE  Allowed(b, u)
    <3>1. SpamTx(k) \in Txs /\ SpamTx(k).nonce = gnonce[k] /\ k \in Accounts
      BY SpamTxType, AccountFacts DEF SpamTx, Tx
    <3>2. gpc[k] = "send" /\ \E ok : SendTransaction(k, SpamTx(k), ok)
      BY <2>1, <2>4 DEF Send, SenderFails, node
    <3>3. gnonce[k] \notin HeldNonces(k)
      BY <3>2 DEF SpamInv, Fresh
    <3> HIDE DEF Allowed
    <3> QED
      BY <1>a, <3>1, <3>2, <3>3
  <2>5. ASSUME NEW a \in Accounts, Mine(a) \/ Drop(a) PROVE Allowed(b, u)
    BY <2>5, NodeShrinks DEF SpamInv
  <2>6. CASE \/ ReadConfirmed \/ ReadPending \/ ReadBase \/ Unstuck \/ NoGasPrice \/ UnstuckFails
             \/ AirdropNonce \/ Airdropped \/ Join \/ WakeUp
    BY <2>1, <2>6 DEF ReadConfirmed, ReadPending, ReadBase, Unstuck, NoGasPrice, UnstuckFails,
                      AirdropNonce, Airdropped, Join, WakeUp, node
  <2>7. ASSUME NEW k \in Keys,
               \/ ReadNonce(k) \/ (\E by \in Keys : Authorise(k, by))
               \/ WaitedFor(k) \/ WaitTimesOut(k) \/ Report(k)
        PROVE  Allowed(b, u)
    BY <2>1, <2>7 DEF ReadNonce, Authorise, WaitedFor, WaitTimesOut, Report, node
  <2> HIDE DEF Allowed
  <2> QED
    BY <2>2, <2>3, <2>4, <2>5, <2>6, <2>7 DEF Next, MainStep, KeyStep
<1> QED
  BY <1>1, SpamInvariant, PTL DEF Spec, OnlyUnstuckReplaces

=============================================================================
