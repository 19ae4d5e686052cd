------------------------------ MODULE SpamLoop ------------------------------
(***************************************************************************)
(* The spam loop: spam of cmd/livefuzzer/main.go, Unstuck and tryUnstuck   *)
(* of spammer/helper.go, Airdrop of spammer/addresslist.go,                *)
(* SpamTransactions of spammer/spam.go and the three senders of basic.go,  *)
(* blob.go and eip7702.go, over a node that holds transactions in a pool   *)
(* and includes those of an account in the order of their nonces.          *)
(*                                                                         *)
(* The program unsticks the accounts once, and then for ever pays every    *)
(* key from the faucet and lets one goroutine per key send N transactions. *)
(* It ignores what Unstuck and SpamTransactions return.  A step of the     *)
(* program ends where it calls the node, since the node goes on meanwhile. *)
(***************************************************************************)
EXTENDS Naturals, FiniteSets

CONSTANTS NumKeys,    \* len(Config.keys)
          Faucet,     \* the account of Config.faucet: 0, or 1 with an accounts file
          N,          \* Config.N
          Pectra,     \* the senders are Send7702Transactions
          BatchSize,  \* batchSize
          Tries,      \* the attempts of tryUnstuck (100 in the code)
          NoTx, NoAuth,
          MaxRounds,  \* bound on the rounds of the loop
          MaxStuck    \* bound on the nonces of the transactions held at the start

ASSUME SpamAssumption ==
    /\ NumKeys \in Nat \ {0} /\ Faucet \in {0, 1}
    /\ {N, BatchSize, Tries} \subseteq Nat \ {0}
    /\ {MaxRounds, MaxStuck} \subseteq Nat
    /\ Pectra \in BOOLEAN

VARIABLES
    phase,   \* "unstuck", "airdrop", "spam", "sleep", "exit"
    at,      \* the account at work (unstuck), the key at work (airdrop)
    mpc,     \* the next call to the node of the main goroutine
    tries,   \* attempts of tryUnstuck
    low,     \* the nonce the main goroutine has read
    missing, \* noTx of tryUnstuck
    sent,    \* transactions sent by sendRecurringTx
    last,    \* the transaction the main goroutine waits for
    round,   \* rounds of the loop begun
    gpc,     \* gpc[k]: where the goroutine of key k stands
    gnonce,  \* gnonce[k]: the nonce it has read
    gauth,   \* gauth[k]: the authorisation it has made
    gi,      \* gi[k]: its iterations done
    glast,   \* glast[k]: its last transaction
    errCh,   \* the number of values in the error channel
    used,    \* used[a]: the nonces of a that are used up
    pool,    \* pool[a]: the transactions of a the node holds
    got      \* got[a]: the transactions of a mined while the phase that sent them lasts
             \* (nobody asks for the receipts of the others)

Keys == 1..NumKeys
Accounts == Keys \cup {Faucet}

main  == <<phase, at, mpc, tries, low, missing, sent, last, round>>
procs == <<gpc, gnonce, gauth, gi, glast, errCh>>
node  == <<used, pool>>
vars  == <<main, procs, node, got>>

-----------------------------------------------------------------------------
(* The node *)

\* The nonces the node holds of an account, and those of them it can include one
\* after the other.
HeldNonces(a) == {t.nonce : t \in pool[a]}
Executable(a) == {n \in HeldNonces(a) : used[a]..n \subseteq HeldNonces(a)}

\* The nonce the node counts for an account: of its blocks, and of its pool
\* (also for NonceAt with block -1, which is the pending block).
NonceAt(a) == used[a]
PendingNonceAt(a) == used[a] + Cardinality(Executable(a))

SameNonce(a, t) == {u \in pool[a] : u.nonce = t.nonce}

\* SendTransaction of account a: the node may refuse it, and must when its
\* nonce is used up; if it takes it, one of the same nonce gives way.  The answer
\* may be lost (`ok` is what the caller sees).
SendTransaction(a, t, ok) ==
    \/ /\ t.nonce >= used[a]
       /\ pool' = [pool EXCEPT ![a] = (@ \ SameNonce(a, t)) \cup {t}]
       /\ UNCHANGED used
    \/ ~ok /\ UNCHANGED node

\* The node includes the next transaction of a, and then carries out its
\* authorisation if that has the nonce its authoriser has now: this uses up the
\* nonce, and a transaction of the authoriser with that nonce is lost.
Mine(a) ==
    \E t \in pool[a] :
        LET paid == [used EXCEPT ![a] = @ + 1]
            runs == t.auth # NoAuth /\ paid[t.auth.by] = t.auth.nonce
        IN
        /\ t.nonce = used[a]
        /\ got' = IF t.kind = phase THEN [got EXCEPT ![a] = @ \cup {t}] ELSE got
        /\ used' = IF runs THEN [paid EXCEPT ![t.auth.by] = @ + 1] ELSE paid
        /\ pool' = [b \in Accounts |-> {u \in pool[b] : u.nonce >= used'[b]}]
        /\ UNCHANGED <<main, procs>>

Drop(a) ==
    \E t \in pool[a] :
        /\ pool' = [pool EXCEPT ![a] = @ \ {t}]
        /\ UNCHANGED <<used, got, main, procs>>

Tx(n, kind, tag, auth) == [nonce |-> n, kind |-> kind, tag |-> tag, auth |-> auth]

-----------------------------------------------------------------------------
(* Unstuck *)

Init ==
    /\ phase = "unstuck" /\ at = 0 /\ mpc = "confirmed" /\ tries = 0
    /\ low = 0 /\ missing = 0 /\ sent = 0 /\ last = NoTx /\ round = 0
    /\ gpc = [k \in Keys |-> "over"] /\ gnonce = [k \in Keys |-> 0]
    /\ gauth = [k \in Keys |-> NoAuth] /\ gi = [k \in Keys |-> 0]
    /\ glast = [k \in Keys |-> NoTx] /\ errCh = 0
    /\ used = [a \in Accounts |-> 0]
    /\ \E held \in [Accounts -> SUBSET (0..MaxStuck)] :
          pool = [a \in Accounts |-> {Tx(n, "old", 0, NoAuth) : n \in held[a]}]
    /\ got = [a \in Accounts |-> {}]

\* The faucet is first, then the keys.
Account == IF at = 0 THEN Faucet ELSE at

\* The main goroutine goes to phase p, whose first call is c.
GoTo(p, c, first) ==
    /\ phase' = p /\ mpc' = c /\ at' = first
    /\ tries' = 0 /\ low' = 0 /\ missing' = 0 /\ sent' = 0 /\ last' = NoTx
    /\ got' = [a \in Accounts |-> {}]

\* isStuck, the first read.
ReadConfirmed ==
    /\ phase = "unstuck" /\ mpc = "confirmed"
    /\ low' = NonceAt(Account) /\ mpc' = "pending"
    /\ UNCHANGED <<phase, at, tries, missing, sent, last, round, procs, node, got>>

\* An account is done with: the next one follows, and after the last the airdrop.
NextAccount ==
    IF at = NumKeys THEN GoTo("airdrop", "pending", 1)
                    ELSE GoTo("unstuck", "confirmed", at + 1)

Stuck(pending) ==
    /\ missing' = IF pending - low > BatchSize THEN BatchSize ELSE pending - low
    /\ mpc' = "base" /\ low' = 0
    /\ UNCHANGED <<phase, at, tries, sent, last, got>>

\* Mutant of ReadPending: both reads are of the confirmed nonce.
ReadPendingConfirmed ==
    /\ phase = "unstuck" /\ mpc = "pending"
    /\ IF NonceAt(Account) = low THEN NextAccount ELSE Stuck(NonceAt(Account))
    /\ UNCHANGED <<round, procs, node>>

\* isStuck, the second read, and what tryUnstuck makes of the difference.
ReadPending ==
    /\ phase = "unstuck" /\ mpc = "pending"
    /\ IF PendingNonceAt(Account) = low THEN NextAccount ELSE Stuck(PendingNonceAt(Account))
    /\ UNCHANGED <<round, procs, node>>

\* sendRecurringTx: the confirmed nonce is read again.
ReadBase ==
    /\ phase = "unstuck" /\ mpc = "base"
    /\ low' = NonceAt(Account) /\ mpc' = "send"
    /\ UNCHANGED <<phase, at, tries, missing, sent, last, round, procs, node, got>>

\* sendTxWithNonce; only the error of the last transaction counts, and ends
\* Unstuck.
Resend(ok) ==
    /\ phase = "unstuck" /\ mpc = "send"
    /\ LET t == Tx(low + sent, "unstuck", tries, NoAuth) IN
       /\ SendTransaction(Account, t, ok)
       /\ IF sent + 1 < missing
          THEN sent' = sent + 1 /\ UNCHANGED <<phase, at, mpc, tries, low, missing, last, got>>
          ELSE IF ok
          THEN /\ mpc' = "wait" /\ last' = t /\ low' = 0 /\ missing' = 0 /\ sent' = 0
               /\ UNCHANGED <<phase, at, tries, got>>
          ELSE GoTo("airdrop", "pending", 1)
    /\ UNCHANGED <<round, procs>>

\* No answer to SuggestGasPrice: its error is not looked at, and the product
\* with a nil price crashes the program.
NoGasPrice ==
    /\ phase = "unstuck" /\ mpc = "send"
    /\ phase' = "exit"
    /\ UNCHANGED <<at, mpc, tries, low, missing, sent, last, round, procs, node, got>>

\* WaitMined: the next attempt, or the error after the last one.
Unstuck ==
    /\ phase = "unstuck" /\ mpc = "wait" /\ last \in got[Account]
    /\ IF tries + 1 < Tries
       THEN /\ tries' = tries + 1 /\ mpc' = "confirmed" /\ last' = NoTx
            /\ UNCHANGED <<phase, at, low, missing, sent, got>>
       ELSE GoTo("airdrop", "pending", 1)
    /\ UNCHANGED <<round, procs, node>>

\* An RPC fails, or WaitMined times out: Unstuck returns the error, which the
\* loop ignores.
UnstuckFails ==
    /\ phase = "unstuck" /\ mpc # "send"
    /\ GoTo("airdrop", "pending", 1)
    /\ UNCHANGED <<round, procs, node>>

-----------------------------------------------------------------------------
(* Airdrop *)

AirdropNonce ==
    /\ phase = "airdrop" /\ mpc = "pending" /\ round < MaxRounds
    /\ low' = PendingNonceAt(Faucet) /\ mpc' = "send"
    /\ UNCHANGED <<phase, at, tries, missing, sent, last, round, procs, node, got>>

AirdropSend ==
    /\ phase = "airdrop" /\ mpc = "send"
    /\ LET t == Tx(low, "airdrop", round, NoAuth) IN
       /\ SendTransaction(Faucet, t, TRUE)
       /\ last' = t /\ low' = 0
       /\ IF at < NumKeys THEN at' = at + 1 /\ mpc' = "pending"
                          ELSE mpc' = "wait" /\ UNCHANGED at
    /\ UNCHANGED <<phase, tries, missing, sent, round, procs, got>>

\* Any error ends the program.
AirdropFails ==
    /\ phase = "airdrop"
    /\ IF mpc = "send" THEN SendTransaction(Faucet, Tx(low, "airdrop", round, NoAuth), FALSE)
                       ELSE UNCHANGED node
    /\ phase' = "exit"
    /\ UNCHANGED <<at, mpc, tries, low, missing, sent, last, round, procs, got>>

\* The last transaction is mined: SpamTransactions starts the goroutines.
Airdropped ==
    /\ phase = "airdrop" /\ mpc = "wait" /\ last \in got[Faucet]
    /\ GoTo("spam", "join", 1) /\ round' = round + 1
    /\ gpc' = [k \in Keys |-> "nonce"]
    /\ UNCHANGED <<gnonce, gauth, gi, glast, errCh, node>>

-----------------------------------------------------------------------------
(* The goroutine of key k *)

\* Mutant of ReadNonce: the confirmed nonce is read.
ReadNonceConfirmed(k) ==
    /\ gpc[k] = "nonce"
    /\ gnonce' = [gnonce EXCEPT ![k] = NonceAt(k)]
    /\ gpc' = [gpc EXCEPT ![k] = IF Pectra THEN "auth" ELSE "send"]
    /\ UNCHANGED <<gauth, gi, glast, errCh, main, node, got>>

ReadNonce(k) ==
    /\ gpc[k] = "nonce"
    /\ gnonce' = [gnonce EXCEPT ![k] = PendingNonceAt(k)]
    /\ gpc' = [gpc EXCEPT ![k] = IF Pectra THEN "auth" ELSE "send"]
    /\ UNCHANGED <<gauth, gi, glast, errCh, main, node, got>>

\* The authorisation of any key, with its pending nonce.
Authorise(k, by) ==
    /\ gpc[k] = "auth"
    /\ gauth' = [gauth EXCEPT ![k] = [by |-> by, nonce |-> PendingNonceAt(by)]]
    /\ gpc' = [gpc EXCEPT ![k] = "send"]
    /\ UNCHANGED <<gnonce, gi, glast, errCh, main, node, got>>

SpamTx(k) == Tx(gnonce[k], "spam", round * N + gi[k], gauth[k])

\* After the last transaction the goroutine waits for it.
Send(k) ==
    /\ gpc[k] = "send"
    /\ SendTransaction(k, SpamTx(k), TRUE)
    /\ gi' = [gi EXCEPT ![k] = @ + 1]
    /\ gpc' = [gpc EXCEPT ![k] = IF gi[k] + 1 < N THEN "nonce" ELSE "wait"]
    /\ glast' = [glast EXCEPT ![k] = IF gi[k] + 1 < N THEN NoTx ELSE SpamTx(k)]
    /\ gnonce' = [gnonce EXCEPT ![k] = 0] /\ gauth' = [gauth EXCEPT ![k] = NoAuth]
    /\ UNCHANGED <<errCh, main, got>>

\* A call fails, or the transaction cannot be made or signed.
SenderFails(k) ==
    /\ gpc[k] \in {"nonce", "auth", "send"}
    /\ IF gpc[k] = "send" THEN SendTransaction(k, SpamTx(k), FALSE) ELSE UNCHANGED node
    /\ gpc' = [gpc EXCEPT ![k] = "report"]
    /\ gnonce' = [gnonce EXCEPT ![k] = 0] /\ gauth' = [gauth EXCEPT ![k] = NoAuth]
    /\ UNCHANGED <<gi, glast, errCh, main, got>>

WaitedFor(k) ==
    /\ gpc[k] = "wait" /\ glast[k] \in got[k]
    /\ gpc' = [gpc EXCEPT ![k] = "report"]
    /\ UNCHANGED <<gnonce, gauth, gi, glast, errCh, main, node, got>>

\* WaitMined gives up after TX_TIMEOUT; this is not an error.
WaitTimesOut(k) ==
    /\ gpc[k] = "wait" /\ glast[k] \notin got[k]
    /\ gpc' = [gpc EXCEPT ![k] = "report"]
    /\ UNCHANGED <<gnonce, gauth, gi, glast, errCh, main, node, got>>

\* Mutant of Report: the channel has room for one value.
ReportUnbuffered(k) ==
    /\ gpc[k] = "report" /\ errCh < 1
    /\ errCh' = errCh + 1
    /\ gpc' = [gpc EXCEPT ![k] = "over"]
    /\ UNCHANGED <<gnonce, gauth, gi, glast, main, node, got>>

\* errCh <- fun(...), which has room for every goroutine, and wg.Done().
Report(k) ==
    /\ gpc[k] = "report" /\ errCh < NumKeys
    /\ errCh' = errCh + 1
    /\ gpc' = [gpc EXCEPT ![k] = "over"]
    /\ UNCHANGED <<gnonce, gauth, gi, glast, main, node, got>>

\* wg.Wait() returns; one value is taken, and the channel is garbage.
Join ==
    /\ phase = "spam" /\ \A k \in Keys : gpc[k] = "over"
    /\ GoTo("sleep", "sleep", 1)
    /\ errCh' = 0 /\ gi' = [k \in Keys |-> 0] /\ glast' = [k \in Keys |-> NoTx]
    /\ UNCHANGED <<round, gpc, gnonce, gauth, node>>

WakeUp ==
    /\ phase = "sleep"
    /\ GoTo("airdrop", "pending", 1)
    /\ UNCHANGED <<round, procs, node>>

-----------------------------------------------------------------------------

MainStep ==
    \/ ReadConfirmed \/ ReadPending \/ ReadBase \/ Unstuck
    \/ \E ok \in BOOLEAN : Resend(ok)
    \/ NoGasPrice \/ UnstuckFails
    \/ AirdropNonce \/ AirdropSend \/ Airdropped
    \/ Join \/ WakeUp

KeyStep(k) ==
    \/ ReadNonce(k) \/ Send(k) \/ SenderFails(k)
    \/ \E by \in Keys : Authorise(k, by)
    \/ WaitedFor(k) \/ WaitTimesOut(k) \/ Report(k)

Next ==
    \/ MainStep \/ AirdropFails
    \/ \E k \in Keys : KeyStep(k)
    \/ \E a \in Accounts : Mine(a) \/ Drop(a)

\* Calls to the node return, goroutines are scheduled, waits with a timeout end,
\* and the node includes what it can.  A failure of the airdrop is owed to nobody.
Fairness ==
    /\ WF_vars(MainStep)
    /\ \A k \in Keys : WF_vars(KeyStep(k))
    /\ \A a \in Accounts : WF_vars(Mine(a))

Spec == Init /\ [][Next]_vars
FairSpec == Spec /\ Fairness

-----------------------------------------------------------------------------
(* Properties *)

\* The node cannot include the last transaction of the airdrop: it is no longer
\* held, or one of an earlier nonce is missing.
AirdropStranded ==
    /\ mpc = "wait" /\ last \notin got[Faucet]
    /\ last \in pool[Faucet] => last.nonce \notin Executable(Faucet)

\* No phase lasts for ever, whatever fails and whatever the node drops, so that
\* all the rounds are gone through: the goroutines do not wait for a reader of
\* their results, and all waits end by a timeout, save the one of the airdrop,
\* which lasts for ever when the node has lost the transaction it waits for or
\* one before it.
PhasesEnd ==
    <>[] \/ phase = "exit"
         \/ phase = "airdrop" /\ (round = MaxRounds \/ AirdropStranded)

\* An account that Unstuck passes over, the last one too, really has nothing the
\* node could include: the two reads of isStuck, with the node at work between
\* them, come to the truth at the instant of the second.
PassedOverIsClear ==
    [][ ReadPending /\ mpc' # "base" => Executable(Account) = {} ]_vars

\* Neither the airdrop nor the senders ever take the place of a transaction that
\* the node holds; only Unstuck replaces, which is its purpose.
OnlyUnstuckReplaces ==
    [][ \A a \in Accounts : \A t \in pool'[a] \ pool[a] :
            t.kind # "unstuck" => SameNonce(a, t) = {} ]_vars

=============================================================================
