--------------------------- MODULE MCCampaignBuild ---------------------------
(* Command lines that vary one part of the program's input at a time, and    *)
(* corpus elements of no, five and nine bytes.                               *)
EXTENDS CampaignBuild, TLC

CONSTANTS none, one, five, nine

FileContents == (none :> <<>>) @@ (one :> <<1>>) @@ (five :> <<1, 2, 3, 4, 5>>)
                    @@ (nine :> <<1, 2, 3, 4, 5, 6, 7, 8, 9>>)
TwoRandomBytes == <<101, 102>>
CompiledKeys == <<"static1", "static2", "static3">>

Default ==
    [rpc |-> "url", label |-> "default-rpc", elClient |-> Unset, nodes |-> Unset,
     accounts |-> Unset, sk |-> "default", count |-> 2, gasLimit |-> 2, txCount |-> 1,
     blockGas |-> 8, corpus |-> Unset, noAccessList |-> FALSE, family |-> "basic",
     cases |-> 1, retainPerSig |-> 1, mode |-> Legacy, maxInFlight |-> 8, sla |-> 2,
     drain |-> 5, receiptTimeout |-> 2]

Inventory == <<[client |-> "geth", rpc |-> "url1"], [client |-> "besu", rpc |-> Unset],
               [client |-> "geth", rpc |-> "url2"]>>

EndpointLines ==
    {[Default EXCEPT !.rpc = Unset, !.nodes = n, !.elClient = e, !.label = l] :
        n \in {Unset, Invalid, <<>>, Inventory}, e \in {Unset, "geth", "besu", "reth"},
        l \in {Unset, "label"}}

AccountLines ==
    {[Default EXCEPT !.accounts = a, !.count = n, !.sk = s] :
        a \in {Unset, Invalid, <<>>, <<"a1", "a2", "a3">>, <<"a1", Invalid>>},
        n \in {-1, 0, 1, 4}, s \in {"default", Unset, Invalid}}

BlockLines ==
    {[Default EXCEPT !.gasLimit = g, !.txCount = t, !.blockGas = l, !.count = n] :
        g \in {-1, 0, 2}, t \in {-1, 0, 2}, l \in {Invalid, 0, 8}, n \in {-1, 2}}

OptionLines ==
    {[Default EXCEPT !.family = f, !.mode = m, !.cases = v, !.retainPerSig = v,
                     !.maxInFlight = v, !.sla = v, !.drain = v, !.receiptTimeout = v] :
        f \in {Unset, "basic", "blob", "pectra", "other"},
        m \in {Unset, Legacy, V2SingleLane, "other"}, v \in {-1, 0, 1}}

CorpusLines ==
    {[Default EXCEPT !.corpus = files, !.noAccessList = al, !.family = f, !.cases = 2] :
        files \in {Invalid, {}, {none}, {five}, {none, one}}, al \in BOOLEAN,
        f \in {"basic", "blob", "pectra"}}
    \cup {[Default EXCEPT !.corpus = {nine}, !.noAccessList = TRUE]}

AllLines == EndpointLines \cup AccountLines \cup BlockLines \cup OptionLines \cup CorpusLines

AllAnswers ==
    [chain : {Down, 1, 7}, estimate : {Down, 21000}, accessList : {Down, 0, 20},
     tip : {Down, "given"}, price : {Down, "given"}]

\* Up to three blobs of two fields of two bytes.
Blobs == {[i \in 1..n |-> i] : n \in 0..9}
=============================================================================
