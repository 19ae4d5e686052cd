---------------------------- MODULE Configuration ----------------------------
(***************************************************************************)
(* From a command line, the files it names and the node's answer to the    *)
(* configuration of a fuzzer (spammer/config.go, accounts.go,              *)
(* endpoints.go) and to the options of a campaign (spammer/campaign.go).   *)
(* What can fail is the set of its results, empty when it returns an       *)
(* error.  A command line c is a record; a flag that is not given and has  *)
(* no default, or a file that is not there, is Unset, and what cannot be   *)
(* read or parsed is Invalid.                                              *)
(***************************************************************************)
EXTENDS Integers, Sequences

CONSTANTS Unset, Invalid,
          Sockets,          \* the addresses of WebSocket and IPC endpoints
          StaticKeys,       \* the keys compiled into the program, a sequence
          SK,               \* the faucet compiled into the program
          DefaultCount,     \* default of the flag accounts
          DefaultGasLimit,  \* default of the flag gaslimit
          WordSize          \* bound: N is an unsigned word of this many values

\* s is a sequence, of whatever it lists.
IsSequence(s) == s \in Seq({s[i] : i \in DOMAIN s})

ASSUME ConfigurationAssumption ==
    /\ StaticKeys # <<>> /\ IsSequence(StaticKeys)
    /\ DefaultCount \in Nat \ {0}
    /\ DefaultGasLimit \in Nat \ {0}
    /\ WordSize \in Nat \ {0}
    /\ Unset # Invalid

OrElse(value, default) == IF value = Unset THEN default ELSE value
OrPositive(value, default) == IF value <= 0 THEN default ELSE value

-----------------------------------------------------------------------------
(* Endpoint *)

\* The first node, or the first one of the client wanted.
SelectExecutionNode(nodes, wanted) ==
    LET fits == {i \in DOMAIN nodes : wanted = Unset \/ nodes[i].client = wanted}
    IN  {nodes[i] : i \in {j \in fits : \A k \in fits : j <= k}}

LoadEndpointInventory(c) == IF c.nodes \in {Unset, Invalid} THEN {} ELSE {c.nodes}

ResolveEndpointSelection(c) ==
    IF c.rpc # Unset
    THEN {[url |-> c.rpc, label |-> OrElse(c.label, OrElse(c.elClient, "explicit-rpc"))]}
    ELSE {[url |-> node.rpc, label |-> OrElse(c.label, node.client)] :
             node \in UNION {SelectExecutionNode(nodes, c.elClient) :
                                nodes \in LoadEndpointInventory(c)}}

\* rpc.Dial fails for an address it has no transport for.  It makes no connection
\* to an HTTP address, but connects to the Sockets at once and may fail.
Dial(endpoints) == {e \in endpoints : e.url # Unset}
MayBeDown(endpoint) == endpoint.url \in Sockets

-----------------------------------------------------------------------------
(* Accounts *)

\* How many of the keys there are a request takes.
Taken(requested, available) ==
    IF requested <= 0 \/ requested > available THEN available ELSE requested

\* Mutant of DefaultKeyList: only requests that are too large are cut.
DefaultKeyListAsAsked(requested) ==
    SubSeq(StaticKeys, 1, IF requested > Len(StaticKeys) THEN Len(StaticKeys) ELSE requested)

DefaultKeyList(requested) == SubSeq(StaticKeys, 1, Taken(requested, Len(StaticKeys)))

\* A file that does not exist is an empty list, an unreadable one an error.
LoadAccountEntries(c) ==
    IF c.accounts = Invalid THEN {} ELSE {OrElse(c.accounts, <<>>)}

ParsedKeys(entries) == {keys \in {entries} : \A i \in DOMAIN keys : keys[i] # Invalid}

ResolveConfiguredAccounts(c, requested) ==
    UNION {IF entries = <<>>
           THEN {[faucet |-> SK, keys |-> DefaultKeyList(requested)]}
           ELSE {[faucet |-> keys[1], keys |-> keys] :
                    keys \in ParsedKeys(SubSeq(entries, 1, Taken(requested, Len(entries))))} :
           entries \in LoadAccountEntries(c)}

\* The flag sk takes the faucet's place.
Faucet(c, resolved) ==
    IF c.sk = Unset THEN {resolved} ELSE {c.sk} \ {Invalid}

-----------------------------------------------------------------------------
(* The configuration *)

\* Transactions per account that fill a block; 0 stands for the crash of a
\* division by zero.
SetupN(c, keys, gasLimit) ==
    IF c.blockGas = Invalid THEN {}
    ELSE IF keys = 0 \/ gasLimit = 0 THEN {0}
    ELSE {OrPositive((c.blockGas \div gasLimit) \div keys, 1)}

TxCount(c, keys, gasLimit) ==
    IF c.txCount = 0 THEN SetupN(c, keys, gasLimit) ELSE {c.txCount % WordSize}

\* Any set of files, or none when the directory or a file cannot be read.
ReadCorpusElements(c) ==
    IF c.corpus = Invalid THEN {} ELSE {OrElse(c.corpus, {})}

NewConfigFromContext(c) ==
    LET requested == IF c.count = 0 THEN DefaultCount ELSE c.count
        gasLimit == OrPositive(c.gasLimit, DefaultGasLimit)
        Configs(accounts) ==
            LET keys == IF accounts.keys = <<>> THEN DefaultKeyList(requested)
                                                ELSE accounts.keys
            IN  {[endpoint |-> endpoint, N |-> n, faucet |-> faucet, keys |-> keys,
                  gasLimit |-> gasLimit, corpus |-> corpus, accessList |-> ~c.noAccessList] :
                    endpoint \in Dial(ResolveEndpointSelection(c)),
                    faucet \in Faucet(c, accounts.faucet),
                    n \in TxCount(c, Len(keys), gasLimit),
                    corpus \in ReadCorpusElements(c)}
    IN  UNION {Configs(accounts) : accounts \in ResolveConfiguredAccounts(c, requested)}

-----------------------------------------------------------------------------
(* The options of a campaign; times are in seconds *)

Legacy == "legacy"
V2SingleLane == "v2-single-lane"

CampaignOptionsFromContext(c) ==
    [family |-> c.family, cases |-> c.cases, rpcLabel |-> c.label,
     retainPerSig |-> c.retainPerSig, mode |-> c.mode, maxInFlight |-> c.maxInFlight,
     receiptTimeout |-> c.receiptTimeout, sla |-> c.sla, drain |-> c.drain]

NormalizeCampaignOptions(o) ==
    LET mode == OrElse(o.mode, Legacy)
        drain == OrPositive(o.drain, 5)
    IN  [family |-> OrElse(o.family, "basic"),
         cases |-> OrPositive(o.cases, 1),
         rpcLabel |-> OrElse(o.rpcLabel, "default-rpc"),
         retainPerSig |-> OrPositive(o.retainPerSig, 1),
         mode |-> mode,
         maxInFlight |-> OrPositive(o.maxInFlight, 8),
         sla |-> OrPositive(o.sla, 2),
         drain |-> drain,
         receiptTimeout |->
             OrPositive(o.receiptTimeout, IF mode = V2SingleLane THEN drain ELSE 2)]

ValidCampaignExecutionMode(o) ==
    \/ o.mode = Legacy
    \/ o.mode = V2SingleLane /\ o.family = "basic"
=============================================================================
