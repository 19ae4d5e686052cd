---------------------------- MODULE Transactions -----------------------------
(***************************************************************************)
(* transactions.go: how a transaction of each kind is put together, from a *)
(* configuration that asks the node for a gas price, the chain and an      *)
(* estimate, with the node asked again for an access list and fee caps.    *)
(* The node's answers to the calls of one construction are a record a;     *)
(* each may be Down.  Prices, recipients and code are left out: of prices  *)
(* it matters only whether the node gave them, of code how much gas it     *)
(* costs to carry.                                                         *)
(***************************************************************************)
EXTENDS Integers, Sequences

CONSTANTS Down,           \* the call to the node failed
          FieldsPerBlob,  \* BlobTxFieldElementsPerBlob, 4096 in the code
          BytesPerField   \* data bytes of a field element, 31 in the code

ASSUME TransactionsAssumption ==
    /\ FieldsPerBlob \in Nat \ {0}
    /\ BytesPerField \in Nat \ {0}

DefaultGas == 100000
DefaultChain == 1
AnyChain == 0  \* of a legacy transaction that is not signed yet
Failed == [type |-> "failed"]

\* Gas that a transaction costs before anything is executed; an entry of an
\* access list is an address with one slot.
IntrinsicGas(tx) ==
    21000 + (IF tx.create THEN 32000 ELSE 0) + tx.data + 4300 * tx.accessList + 25000 * tx.auths

Answered(answer, default) == IF answer = Down THEN default ELSE answer

\* The estimate is made for a call, whatever is built in the end.
InitDefaultTxConf(a, data) ==
    [chain |-> Answered(a.chain, DefaultChain),
     gas |-> Answered(a.estimate, DefaultGas),
     data |-> data]

\* The node's list for the transaction that is built.  There is a client always.
CreateAccessList(a) == a.accessList

AccessListOf(a, al) == IF al THEN CreateAccessList(a) ELSE 0

\* getCaps asks for the tip first, then for the price that is the fee cap.
CapsKnown(a) == a.tip # Down /\ a.price # Down

NewTx(type, create, conf) ==
    [type |-> type, create |-> create, gas |-> conf.gas, data |-> conf.data,
     chain |-> IF type = "legacy" THEN AnyChain ELSE conf.chain,
     accessList |-> 0, auths |-> 0, blobs |-> <<>>]

ApplyIntrinsicGasFloor(tx) ==
    IF tx.gas < IntrinsicGas(tx) /\ tx.type \in {"legacy", "accessList", "dynamic"}
    THEN [tx EXCEPT !.gas = IntrinsicGas(tx)]
    ELSE tx

\* legacyTx, emptyAlTx and their contract creations.
PlainTx(type, create, conf) == ApplyIntrinsicGasFloor(NewTx(type, create, conf))

\* tx1559 and contractCreation1559.
DynamicTx(create, conf, a) ==
    IF CapsKnown(a) THEN PlainTx("dynamic", create, conf) ELSE Failed

\* Mutant of FullAl: the floor is applied before the access list only.
FullAlFlooredOnce(type, create, conf, a) ==
    IF CreateAccessList(a) = Down \/ (type = "dynamic" /\ ~CapsKnown(a)) THEN Failed
    ELSE [NewTx(type, create, conf) EXCEPT
             !.gas = PlainTx("legacy", create, conf).gas,
             !.accessList = CreateAccessList(a)]

\* fullAlTx, fullAl1559Tx and their contract creations: a legacy transaction is
\* shown to the node to get its access list.
FullAl(type, create, conf, a) ==
    IF CreateAccessList(a) = Down \/ (type = "dynamic" /\ ~CapsKnown(a)) THEN Failed
    ELSE ApplyIntrinsicGasFloor([NewTx(type, create, conf) EXCEPT
             !.gas = PlainTx("legacy", create, conf).gas,
             !.accessList = CreateAccessList(a)])

NoAlStrategies(conf, a) ==
    {PlainTx(type, create, conf) : type \in {"legacy", "accessList"}, create \in BOOLEAN}
        \cup {DynamicTx(create, conf, a) : create \in BOOLEAN}

AlStrategies(conf, a) ==
    NoAlStrategies(conf, a)
        \cup {FullAl(type, create, conf, a) :
                 type \in {"accessList", "dynamic"}, create \in BOOLEAN}

RandomValidTx(a, data, al) ==
    LET conf == InitDefaultTxConf(a, data)
    IN  IF al THEN AlStrategies(conf, a) ELSE NoAlStrategies(conf, a)

-----------------------------------------------------------------------------
(* Blobs: sequences of fields, of one zero byte and the bytes of data *)

EmptyBlob == [f \in 0..(FieldsPerBlob - 1) |-> [i \in 0..BytesPerField |-> 0]]

Chunks(data) == (Len(data) + BytesPerField - 1) \div BytesPerField

\* The bytes of chunk k, behind the zero byte of a field.
Field(data, k) ==
    LET start == (k - 1) * BytesPerField
    IN  [i \in 0..BytesPerField |-> IF i > 0 /\ start + i <= Len(data) THEN data[start + i] ELSE 0]

\* encodeBlobs as its loop: after k chunks, the blobs and the field last written.
EncodeBlobs(data) ==
    LET Loop[k \in 0..Chunks(data)] ==
            IF k = 0 THEN [blobs |-> <<EmptyBlob>>, field |-> -1]
            ELSE LET before == Loop[k - 1]
                     full == before.field + 1 = FieldsPerBlob
                     field == IF full THEN 0 ELSE before.field + 1
                     blobs == IF full THEN Append(before.blobs, EmptyBlob) ELSE before.blobs
                 IN  [blobs |-> [blobs EXCEPT ![Len(blobs)][field] = Field(data, k)],
                      field |-> field]
    IN  Loop[Chunks(data)].blobs

\* New4844Tx and New7702Tx; no floor is applied to their gas.
BlobTx(conf, accessList, blobData) ==
    [NewTx("blob", FALSE, conf) EXCEPT !.accessList = accessList, !.blobs = EncodeBlobs(blobData)]

SetCodeTx(conf, accessList, auths) ==
    [NewTx("setCode", FALSE, conf) EXCEPT !.accessList = accessList, !.auths = auths]

\* emptyAlBlobTx and fullAlBlobTx.
RandomBlobTx(a, data, al, blobData) ==
    IF AccessListOf(a, al) = Down \/ ~CapsKnown(a) THEN Failed
    ELSE BlobTx(InitDefaultTxConf(a, data), AccessListOf(a, al), blobData)

RandomAuthTx(a, data, al, auths) ==
    IF AccessListOf(a, al) = Down \/ ~CapsKnown(a) THEN Failed
    ELSE SetCodeTx(InitDefaultTxConf(a, data), AccessListOf(a, al), auths)

\* What a reader of blobs takes out of them again.
Decode(blobs) ==
    [i \in 1..(Len(blobs) * FieldsPerBlob * BytesPerField) |->
        LET k == (i - 1) \div BytesPerField
        IN  blobs[1 + (k \div FieldsPerBlob)][k % FieldsPerBlob][1 + ((i - 1) % BytesPerField)]]
=============================================================================
