--------------------------- MODULE CampaignNonces ---------------------------
(***************************************************************************)
(* The nonces of a campaign from the builder to the blocks: the campaign   *)
(* builder of spammer/campaign.go over the allocator (module NonceLease),  *)
(* the submission of what it signed, and a node with a pool that includes  *)
(* the transactions of an account in the order of their nonces.            *)
(*                                                                         *)
(* Both runners build and submit one case after the other, and neither     *)
(* ever gives a nonce back; when a case is finalised does not matter here. *)
(* The keys may be used by somebody else, too (the accounts are public     *)
(* test accounts, which the spam loop also sends from).                    *)
(***************************************************************************)
EXTENDS Naturals, Sequences, FiniteSets

CONSTANTS Cases,     \* Config.Cases
          NumKeys,   \* len(Config.keys); with none, the faucet sends
          Pectra,    \* the campaign's family is "pectra"
          NoLane, NoNonce,  \* of NonceLease
          Other,     \* the other user of the keys
          MaxOther   \* bound on its transactions

ASSUME NoncesAssumption ==
    /\ Cases \in Nat \ {0}
    /\ NumKeys \in Nat
    /\ Pectra \in BOOLEAN
    /\ MaxOther \in Nat
    /\ NoLane \notin Nat /\ NoNonce \notin Nat /\ Other \notin Nat

VARIABLES
    mu, next, loaded, leases, step, addr, reg, base,  \* NonceLease; step is its pc
    pc,      \* where the runner stands: "lease", "sign", "submit", "done", "failed"
    seq,     \* the case at work
    nonce,   \* nonce[i]: the nonce case i is signed with
    auth,    \* auth[i]: the nonce of its authorisation ("pectra")
    rejected,\* cases whose submission was not answered with success
    pool,    \* pool[a]: the transactions the node holds of account a
    blocks,  \* blocks[a]: who sent the transactions included of a, by nonce
    dropped  \* the node has evicted or replaced a transaction

allocator == <<mu, next, loaded, leases, step, addr, reg, base>>
campaign  == <<pc, seq, nonce, auth, rejected>>
network   == <<pool, blocks, dropped>>
vars      == <<allocator, campaign, network>>

Case == 1..Cases

\* The key of case i; the faucet is account 0.
Sender(i) == IF NumKeys > 0 THEN ((i - 1) % NumKeys) + 1 ELSE 0
Senders == {Sender(i) : i \in Case}

\* How many of the cases before i the account a sends.
Turns(a, i) == Cardinality({j \in Case : j < i /\ Sender(j) = a})

\* The transactions of a that can be included one after the other, and the
\* pending nonce the node reports, which is the one after them.
Executable(a) ==
    {t \in pool[a] : \A n \in Len(blocks[a])..t.nonce : \E u \in pool[a] : u.nonce = n}
PendingNonce(a) == Len(blocks[a]) + Cardinality(Executable(a))

\* Every case has a lane of its own.
Lease == INSTANCE NonceLease
    WITH Lanes <- Case, Addrs <- Senders, MaxChain <- 0, pc <- step,
         chain <- [a \in Senders |-> PendingNonce(a)]

Init ==
    /\ pool = [a \in Senders |-> {}]
    /\ blocks = [a \in Senders |-> <<>>]
    /\ dropped = FALSE
    /\ Lease!Init
    /\ pc = "lease" /\ seq = 1
    /\ nonce = [i \in Case |-> NoNonce] /\ auth = [i \in Case |-> NoNonce]
    /\ rejected = {}

-----------------------------------------------------------------------------
(* Build and submit *)

\* Build leases the sender's nonce on a new lane.
LeaseStep ==
    /\ pc = "lease"
    /\ UNCHANGED <<campaign, network>>
    /\ \/ Lease!Request(seq, Sender(seq))
       \/ Lease!Lock(seq) \/ Lease!RpcAnswer(seq) \/ Lease!Load(seq) \/ Lease!Grant(seq)

LeaseDone ==
    /\ pc = "lease"
    /\ pc' = "sign"
    /\ UNCHANGED <<seq, nonce, auth, rejected, network>>
    /\ Lease!Store(seq)

\* The error of a lease ends the campaign.
LeaseFails ==
    /\ pc = "lease"
    /\ pc' = "failed"
    /\ UNCHANGED <<seq, nonce, auth, rejected, network>>
    /\ Lease!RpcFail(seq)

\* Mutant of Sign: the builder sets another nonce aside for the authorisation.
SignReservingAnother ==
    /\ pc = "sign" /\ (Pectra => NumKeys > 0)
    /\ LET a == Sender(seq) IN
       /\ nonce' = [nonce EXCEPT ![seq] = leases[seq][a]]
       /\ IF Pectra
          THEN /\ auth' = [auth EXCEPT ![seq] = leases[seq][a]]
               /\ next' = [next EXCEPT ![a] = @ + 1]
          ELSE UNCHANGED <<auth, next>>
    /\ pc' = "submit"
    /\ UNCHANGED <<seq, rejected, network>>
    /\ UNCHANGED <<mu, loaded, leases, step, addr, reg, base>>

\* The rest of Build.  The authoriser of a pectra case is the key of the sender
\* itself; its lease is answered from the cache of the case's lane.  Without
\* configured keys there is no authoriser and Build always fails.
Sign ==
    /\ pc = "sign" /\ (Pectra => NumKeys > 0)
    /\ nonce' = [nonce EXCEPT ![seq] = leases[seq][Sender(seq)]]
    /\ auth' = IF Pectra THEN [auth EXCEPT ![seq] = leases[seq][Sender(seq)]] ELSE auth
    /\ pc' = "submit"
    /\ UNCHANGED <<seq, rejected, allocator, network>>

\* The transaction cannot be made or signed: the leased nonce is lost, and the
\* campaign ends.
SignFails ==
    /\ pc = "sign"
    /\ pc' = "failed"
    /\ UNCHANGED <<seq, nonce, auth, rejected, allocator, network>>

\* Mutant of Submit: a rejected case gives its nonce back.
SubmitGivingBack(taken, answered) ==
    LET a == Sender(seq)
        same == {t \in pool[a] : t.nonce = nonce[seq]}
    IN
    /\ pc = "submit"
    /\ taken => nonce[seq] >= Len(blocks[a])
    /\ IF taken
       THEN /\ pool' = [pool EXCEPT ![a] = (@ \ same) \cup {[nonce |-> nonce[seq], by |-> seq]}]
            /\ dropped' = (dropped \/ same # {})
            /\ UNCHANGED next
       ELSE UNCHANGED <<pool, dropped>> /\ next' = [next EXCEPT ![a] = @ - 1]
    /\ rejected' = IF taken /\ answered THEN rejected ELSE rejected \cup {seq}
    /\ IF seq = Cases THEN pc' = "done" /\ UNCHANGED seq
                      ELSE pc' = "lease" /\ seq' = seq + 1
    /\ UNCHANGED <<nonce, auth, blocks, mu, loaded, leases, step, addr, reg, base>>

\* SubmitAsync.  A node that takes the transaction (`taken`) has room for it:
\* its nonce is not used up, and one of the same nonce in the pool is replaced.
\* The answer may be lost, and then counts as a rejection.
Submit(taken, answered) ==
    LET a == Sender(seq)
        same == {t \in pool[a] : t.nonce = nonce[seq]}
    IN
    /\ pc = "submit"
    /\ taken => nonce[seq] >= Len(blocks[a])
    /\ IF taken
       THEN /\ pool' = [pool EXCEPT ![a] = (@ \ same) \cup {[nonce |-> nonce[seq], by |-> seq]}]
            /\ dropped' = (dropped \/ same # {})
       ELSE UNCHANGED <<pool, dropped>>
    /\ rejected' = IF taken /\ answered THEN rejected ELSE rejected \cup {seq}
    /\ IF seq = Cases THEN pc' = "done" /\ UNCHANGED seq
                      ELSE pc' = "lease" /\ seq' = seq + 1
    /\ UNCHANGED <<nonce, auth, blocks, allocator>>

-----------------------------------------------------------------------------
(* The node and the other user *)

\* The node includes the next transaction of a.  An authorisation is looked at
\* when the nonce of its transaction is used up already; since it carries the
\* same one (TxNoncesConsecutive) it is passed over, and uses up none.
Mine(a) ==
    \E t \in pool[a] :
        /\ t.nonce = Len(blocks[a])
        /\ pool' = [pool EXCEPT ![a] = @ \ {t}]
        /\ blocks' = [blocks EXCEPT ![a] = Append(@, t.by)]
        /\ UNCHANGED <<dropped, allocator, campaign>>

Drop(a) ==
    \E t \in pool[a] :
        /\ pool' = [pool EXCEPT ![a] = @ \ {t}]
        /\ dropped' = TRUE
        /\ UNCHANGED <<blocks, allocator, campaign>>

OthersIn(a) == {t \in pool[a] : t.by = Other}
OthersOf(a) == {n \in DOMAIN blocks[a] : blocks[a][n] = Other}

\* The other user sends with the pending nonce.
OtherSends(a) ==
    /\ Cardinality(OthersIn(a)) + Cardinality(OthersOf(a)) < MaxOther
    /\ pool' = [pool EXCEPT ![a] = @ \cup {[nonce |-> PendingNonce(a), by |-> Other]}]
    /\ UNCHANGED <<blocks, dropped, allocator, campaign>>

RunnerStep ==
    \/ LeaseStep \/ LeaseDone \/ LeaseFails
    \/ Sign \/ SignFails
    \/ \E taken, answered \in BOOLEAN : Submit(taken, answered)

Next ==
    \/ RunnerStep
    \/ \E a \in Senders : Mine(a) \/ Drop(a) \/ OtherSends(a)

\* The runner's calls return, and the node includes what it can.
Fairness == WF_vars(RunnerStep) /\ \A a \in Senders : WF_vars(Mine(a))

Spec == Init /\ [][Next]_vars
FairSpec == Spec /\ Fairness

-----------------------------------------------------------------------------
(* Properties *)

Built == {i \in Case : nonce[i] # NoNonce}

\* The cases of a sender carry consecutive nonces in the order of the campaign,
\* from the value the node reported first: an authorisation shares the nonce of
\* its case and uses none up
\* (TestBuildCampaignTxPectraSharesNonceDomainForSameAddress).
TxNoncesConsecutive ==
    \A i \in Built :
        /\ nonce[i] = base[Sender(i)] + Turns(Sender(i), i)
        /\ Pectra => auth[i] = nonce[i]

\* Where the nonce of a case was used up, it was by the case itself or by the
\* other user: the cases of a campaign never displace each other, whatever the
\* node rejects, evicts or includes meanwhile.
OnlyOthersDisplace ==
    \A i \in Built :
        LET included == blocks[Sender(i)] IN
        nonce[i] < Len(included) => included[nonce[i] + 1] \in {i, Other}

\* Nothing went wrong: every submission was answered with success, nothing was
\* evicted, and nobody else used the keys.
Calm ==
    /\ rejected = {} /\ ~dropped
    /\ \A a \in Senders : OthersIn(a) = {} /\ OthersOf(a) = {}

Included(i) == \E n \in DOMAIN blocks[Sender(i)] : blocks[Sender(i)][n] = i

\* When nothing goes wrong, the node can include every case: the campaign leaves
\* no gap that would keep a transaction in the pool for ever.
AllGetIncluded ==
    (pc = "done" /\ Calm) ~> (~Calm \/ \A i \in Case : Included(i))

\* Nonces are never given back: a case that the node did not take leaves a gap,
\* and the later cases of its sender are not included unless somebody else
\* fills it.
RejectionStrands ==
    \A i, j \in Case :
        /\ i < j /\ Sender(i) = Sender(j) /\ Included(j)
        => Included(i) \/ OthersOf(Sender(i)) # {}

=============================================================================
