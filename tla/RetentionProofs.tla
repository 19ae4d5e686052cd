--------------------------- MODULE RetentionProofs ---------------------------
(***************************************************************************)
(* Proofs about Retention for any cases, signatures, scores, cap and       *)
(* number of campaigns.  The invariant has two halves.  MemoryInv relates  *)
(* the store to the decisions of the campaign: it is what the decisions    *)
(* and the choice of the best are about.  DiskInv relates the files to the *)
(* place where Accept stands: a case is known to the corpus, in memory or  *)
(* on disk, only when its bundle is complete, and Accept writes bundles    *)
(* only of a case the corpus does not know.                                *)
(***************************************************************************)
EXTENDS Retention, FiniteSetTheorems, TLAPS

Accepting == {"case", "feedback", "bundle", "tx"}

Stored(c) == disk["bundle"][c] = "complete" /\ disk["tx"][c] = "complete"

Types ==
    /\ pc \in Kinds \cup {"idle"}
    /\ cur \in CaseIds
    /\ meta \in [CaseIds -> Outcomes \cup {NoOutcome}]
    /\ bySig \in [Sigs -> SUBSET CaseIds]
    /\ todo \in SUBSET CaseIds
    /\ disk \in [Kinds -> [CaseIds -> {"absent", "partial", "complete"}]]
    /\ \A d \in mine : d.case \in CaseIds /\ meta[d.case] \in Outcomes

\* The cases this campaign has accepted with signature s.
Seen(s) == {c \in CaseIds : meta[c].sig = s /\ \E d \in mine : d.case = c}

\* x scores as high as every case of signature s that was accepted.
Tops(x, s) == \A c \in Seen(s) : Score(c) <= Score(x)

MemoryInv ==
    /\ \A s \in Sigs : /\ IsFiniteSet(bySig[s]) /\ Cardinality(bySig[s]) <= Cap
                       /\ bySig[s] \subseteq Seen(s)
                       /\ Seen(s) # {} => \E x \in bySig[s] : Tops(x, s)
    /\ OneOriginal

DiskInv ==
    /\ \A c \in CaseIds : disk["entry"][c] # "absent" => Stored(c) /\ meta[c] \in Outcomes
    /\ \A s \in Sigs : \A c \in bySig[s] :
          /\ Stored(c)
          /\ disk["entry"][c] = "complete" \/ (pc = "entry" /\ c \in todo)
    /\ pc = "entry" => \A c \in todo : Stored(c) /\ meta[c] \in Outcomes
    /\ pc \in Accepting => /\ meta[cur] \in Outcomes
                           /\ disk["entry"][cur] = "absent"
                           /\ \A d \in mine : d.case # cur
    /\ pc = "tx" => disk["bundle"][cur] = "complete"

\* A case that was listed when its replay began is still listed.
ReplayInv ==
    /\ replay \in Replays
    /\ ReplayNeedsOnlyNode
    /\ replay.stage = "loaded" =>
          /\ replay.case \in CaseIds
          /\ replay.listed => disk["entry"][replay.case] # "absent"

IInv == Types /\ MemoryInv /\ DiskInv /\ ReplayInv

-----------------------------------------------------------------------------
(* Facts about outcomes and files *)

\* A case that has no outcome is told from one that has.
LEMMA NoOutcomeIsNone == NoOutcome \notin Outcomes
  BY RetentionAssumption DEF NoOutcome, Outcomes

\* The signature and the score of an outcome.
LEMMA OutcomeFields ==
    ASSUME NEW o \in Outcomes
    PROVE  o.sig \in Sigs /\ o.score \in Nat
  BY RetentionAssumption DEF Outcomes

\* The file system keeps its type.
LEMMA OneFileType ==
    ASSUME Types, NEW k \in Kinds, NEW c \in CaseIds, NEW v \in {"absent", "partial", "complete"},
           disk' = [disk EXCEPT ![k][c] = v]
    PROVE  disk' \in [Kinds -> [CaseIds -> {"absent", "partial", "complete"}]]
<1>1. [disk[k] EXCEPT ![c] = v] \in [CaseIds -> {"absent", "partial", "complete"}]
  BY DEF Types
<1>2. disk' = [disk EXCEPT ![k] = [disk[k] EXCEPT ![c] = v]]
  BY DEF Types
<1> QED
  BY <1>1, <1>2 DEF Types

-----------------------------------------------------------------------------
(* The store and its decisions *)

\* What is left of a set of entries after sorting and cutting: some of them, no
\* more than the cap, and one of the best.
LEMMA KeepsBest ==
    ASSUME NEW S, IsFiniteSet(S), NEW K, Keeps(K, S), NEW m \in S,
           \A c \in S : Score(c) \in Nat, \A c \in S : Score(c) <= Score(m)
    PROVE  /\ IsFiniteSet(K) /\ K \subseteq S /\ Cardinality(K) <= Cap
           /\ \E x \in K : Score(m) <= Score(x)
<1>1. /\ K \subseteq S
      /\ Cardinality(K) = IF Cardinality(S) > Cap THEN Cap ELSE Cardinality(S)
      /\ \A x \in K, y \in S \ K : Score(x) >= Score(y)
  BY DEF Keeps
<1>2. IsFiniteSet(K) /\ Cardinality(S) \in Nat
  BY <1>1, FS_Subset, FS_CardinalityType
<1>3. Cardinality(S) # 0
  BY FS_EmptySet
<1>4. Cardinality(K) <= Cap /\ Cardinality(K) # 0
  BY <1>1, <1>2, <1>3, RetentionAssumption
<1>5. PICK k : k \in K
  BY <1>2, <1>4, FS_EmptySet
<1>6. CASE m \in K
  BY <1>1, <1>2, <1>4, <1>6
<1>7. CASE m \notin K
  BY <1>1, <1>2, <1>4, <1>5, <1>7
<1> QED
  BY <1>6, <1>7

\* The signature and the score of a case that has an outcome.
LEMMA MetaFields ==
    ASSUME Types, NEW c \in CaseIds, meta[c] \in Outcomes
    PROVE  meta[c].sig \in Sigs /\ Score(c) \in Nat
  BY OutcomeFields DEF Score

\* A decision that is recorded about the current case.
LEMMA SeenGrows ==
    ASSUME Types, mine' = mine \cup {Decided}, meta' = meta, cur' = cur
    PROVE  /\ \A t \in Sigs : t # meta[cur].sig => Seen(t)' = Seen(t)
           /\ Seen(meta[cur].sig)' = Seen(meta[cur].sig) \cup {cur}
<1>1. Decided.case = cur
  BY DEF Decided
<1>2. \A c : (\E d \in mine' : d.case = c) <=> c = cur \/ \E d \in mine : d.case = c
  BY <1>1
<1>3. cur \in CaseIds
  BY DEF Types
<1>4. \A t : Seen(t)' = {c \in CaseIds : meta[c].sig = t /\ \E d \in mine' : d.case = c}
  BY DEF Seen
<1>5. ASSUME NEW t, t # meta[cur].sig PROVE Seen(t)' = Seen(t)
  BY <1>2, <1>4, <1>5 DEF Seen
<1>6. \A c : c \in {x \in CaseIds : meta[x].sig = meta[cur].sig /\ \E d \in mine' : d.case = x}
              <=> c \in Seen(meta[cur].sig) \/ c = cur
  BY <1>2, <1>3 DEF Seen
<1>7. Seen(meta[cur].sig)' = Seen(meta[cur].sig) \cup {cur}
  BY <1>4, <1>6
<1> QED
  BY <1>5, <1>7

\* The entries of a signature after the decision about the current case, as a
\* set K: those that Save keeps, or the same as before.
LEMMA DecisionStore ==
    ASSUME Types, MemoryInv, meta[cur] \in Outcomes,
           mine' = mine \cup {Decided}, meta' = meta, cur' = cur,
           NEW K,
           bySig' = [bySig EXCEPT ![meta[cur].sig] = K],
           \/ Keeps(K, bySig[meta[cur].sig] \cup {cur})
           \/ ~Retain(cur) /\ K = bySig[meta[cur].sig]
    PROVE  /\ IsFiniteSet(K) /\ Cardinality(K) <= Cap
           /\ K \subseteq Seen(meta[cur].sig)'
           /\ \E x \in K : Tops(x, meta[cur].sig)'
<1> DEFINE s == meta[cur].sig
           S == bySig[s] \cup {cur}
<1>1. /\ cur \in CaseIds /\ s \in Sigs /\ Score(cur) \in Nat
      /\ Seen(s)' = Seen(s) \cup {cur}
  BY MetaFields, SeenGrows DEF Types
<1>2. /\ IsFiniteSet(bySig[s]) /\ Cardinality(bySig[s]) <= Cap
      /\ bySig[s] \subseteq Seen(s)
      /\ Seen(s) # {} => \E x \in bySig[s] : Tops(x, s)
  BY <1>1 DEF MemoryInv
<1>3. \A c \in Seen(s) : Score(c) \in Nat
  BY MetaFields DEF Seen, Types
<1>4. ASSUME NEW x, Tops(x, s), Score(cur) <= Score(x)
      PROVE  Tops(x, s)'
  <2>1. \A c : Score(c)' = Score(c)
    BY DEF Score
  <2> QED
    BY <1>1, <1>4, <2>1 DEF Tops
<1>5. CASE Keeps(K, S)
  <2>1. IsFiniteSet(S)
    BY <1>2, FS_AddElement
  <2>2. \A c \in S : Score(c) \in Nat
    BY <1>1, <1>2, <1>3
  <2>3. PICK m \in S : Tops(m, s) /\ Score(cur) <= Score(m)
    <3>1. CASE Seen(s) = {}
      BY <1>1, <3>1 DEF Tops
    <3>2. CASE Seen(s) # {}
      <4>1. PICK x \in bySig[s] : Tops(x, s)
        BY <1>2, <3>2
      <4>2. Score(x) \in Nat
        BY <1>2, <1>3, <4>1
      <4>3. CASE Score(cur) <= Score(x)
        BY <4>1, <4>3
      <4>4. CASE ~(Score(cur) <= Score(x))
        BY <1>1, <1>3, <4>1, <4>2, <4>4 DEF Tops
      <4> QED
        BY <4>3, <4>4
    <3> QED
      BY <3>1, <3>2
  <2>4. \A c \in S : Score(c) <= Score(m)
    BY <1>2, <2>3 DEF Tops
  <2> HIDE DEF S, s
  <2>5. /\ IsFiniteSet(K) /\ K \subseteq S /\ Cardinality(K) <= Cap
        /\ \E x \in K : Score(m) <= Score(x)
    BY <1>5, <2>1, <2>2, <2>3, <2>4, KeepsBest
  <2>6. PICK x \in K : Score(m) <= Score(x)
    BY <2>5
  <2>7. Tops(x, s) /\ Score(cur) <= Score(x)
    BY <1>1, <1>3, <2>2, <2>3, <2>5, <2>6 DEF Tops
  <2>8. K \subseteq Seen(s)'
    BY <1>1, <1>2, <2>5 DEF S
  <2> QED
    BY <1>4, <2>5, <2>6, <2>7, <2>8 DEF s
<1>6. CASE ~Retain(cur) /\ K = bySig[s]
  <2>1. K # {} /\ \E b \in Best(K) : ~(Score(cur) > Score(b))
    BY <1>6 DEF Retain
  <2>2. PICK b \in Best(K) : ~(Score(cur) > Score(b))
    BY <2>1
  <2>3. b \in K /\ \A d \in K : Score(d) <= Score(b)
    BY <2>2 DEF Best
  <2>4. Score(b) \in Nat
    BY <1>2, <1>3, <1>6, <2>3
  <2>5. PICK x \in K : Tops(x, s)
    BY <1>2, <1>6, <2>3
  <2>6. Score(x) \in Nat
    BY <1>2, <1>3, <1>6, <2>5
  <2>7. Tops(b, s)
    BY <1>3, <2>3, <2>4, <2>5, <2>6 DEF Tops
  <2>8. Tops(b, s)'
    BY <1>1, <1>4, <2>2, <2>4, <2>7
  <2> QED
    BY <1>1, <1>2, <1>6, <2>3, <2>8
<1> QED
  BY <1>5, <1>6

\* The first case of a signature, and only that one, meets an empty store.
LEMMA DecisionOriginal ==
    ASSUME Types, MemoryInv, meta[cur] \in Outcomes, \A d \in mine : d.case # cur,
           mine' = mine \cup {Decided}, meta' = meta, cur' = cur
    PROVE  OneOriginal'
<1> DEFINE s == meta[cur].sig
<1>1. cur \in CaseIds /\ s \in Sigs
  BY MetaFields DEF Types
<1>2. Decided.case = cur
  BY DEF Decided
<1>3. Decided.duplicate <=> bySig[s] # {}
  BY Zenon DEF Decided, Duplicate
<1>4. Decided.retained \/ Decided.duplicate
  <2>1. bySig[s] = {} => Retain(cur)
    BY Zenon DEF Retain
  <2>2. Retain(cur) => Decided.retained
    BY Zenon DEF Decided
  <2> QED
    BY <1>3, <2>1, <2>2, Zenon
<1>5. OneOriginal /\ bySig[s] \subseteq Seen(s) /\ (Seen(s) # {} => bySig[s] # {})
  BY <1>1 DEF MemoryInv
<1>6. ASSUME NEW d \in mine, meta[d.case].sig = s
      PROVE  Seen(s) # {}
  BY <1>6 DEF Seen, Types
<1>7. ASSUME NEW d \in mine', NEW e \in mine', meta[d.case].sig = meta[e.case].sig,
             ~d.duplicate, ~e.duplicate
      PROVE  d = e
  <2>1. CASE d \in mine /\ e \in mine
    BY <1>5, <1>7, <2>1, Zenon DEF OneOriginal
  <2>2. ASSUME NEW f \in mine, meta[f.case].sig = s PROVE Decided.duplicate
    BY <1>3, <1>5, <1>6, <2>2, Zenon
  <2> QED
    BY <1>2, <1>7, <2>1, <2>2, Zenon
<1>8. ASSUME NEW d \in mine'
      PROVE  \E e \in mine' : meta[e.case].sig = meta[d.case].sig /\ ~e.duplicate
  <2>1. CASE d \in mine
    BY <1>5, <2>1, Zenon DEF OneOriginal
  <2>2. CASE d = Decided /\ bySig[s] = {}
    BY <1>3, <2>2, Zenon
  <2>3. CASE d = Decided /\ bySig[s] # {}
    <3>1. PICK f \in mine : meta[f.case].sig = s
      BY <1>5, <2>3, Zenon DEF Seen
    <3> QED
      BY <1>2, <1>5, <2>3, <3>1, Zenon DEF OneOriginal
  <2> QED
    BY <2>1, <2>2, <2>3, Zenon
<1>9. ASSUME NEW d \in mine' PROVE d.retained \/ d.duplicate
  <2>1. CASE d \in mine
    BY <1>5, <2>1, Zenon DEF OneOriginal
  <2> QED
    BY <1>4, <2>1, Zenon
<1> QED
  BY <1>7, <1>8, <1>9, Zenon DEF OneOriginal

\* A decision keeps the store's half of the invariant.
LEMMA DecisionMemory ==
    ASSUME Types, MemoryInv, meta[cur] \in Outcomes, \A d \in mine : d.case # cur,
           mine' = mine \cup {Decided}, meta' = meta, cur' = cur,
           NEW K,
           bySig' = [bySig EXCEPT ![meta[cur].sig] = K],
           \/ Keeps(K, bySig[meta[cur].sig] \cup {cur})
           \/ ~Retain(cur) /\ K = bySig[meta[cur].sig]
    PROVE  MemoryInv'
<1> DEFINE s == meta[cur].sig
<1>1. s \in Sigs
  BY MetaFields DEF Types
<1>2. bySig'[s] = K /\ \A t \in Sigs : t # s => bySig'[t] = bySig[t]
  BY <1>1 DEF Types
<1>3. /\ IsFiniteSet(K) /\ Cardinality(K) <= Cap /\ K \subseteq Seen(s)'
      /\ \E x \in K : Tops(x, s)'
  BY DecisionStore
<1>4. ASSUME NEW t \in Sigs, t # s
      PROVE  Seen(t)' = Seen(t) /\ \A x : Tops(x, t)' <=> Tops(x, t)
  <2>1. Seen(t)' = Seen(t)
    BY <1>4, SeenGrows
  <2>2. \A c : Score(c)' = Score(c)
    BY DEF Score
  <2> QED
    BY <2>1, <2>2 DEF Tops
<1>5. ASSUME NEW t \in Sigs
      PROVE  (/\ IsFiniteSet(bySig[t]) /\ Cardinality(bySig[t]) <= Cap
              /\ bySig[t] \subseteq Seen(t)
              /\ Seen(t) # {} => \E x \in bySig[t] : Tops(x, t))'
  <2>1. CASE t = s
    BY <1>2, <1>3, <2>1
  <2>2. CASE t # s
    BY <1>2, <1>4, <2>2 DEF MemoryInv
  <2> QED
    BY <2>1, <2>2
<1> QED
  BY <1>5, DecisionOriginal DEF MemoryInv

\* The store's half does not change while the campaign decides nothing.
LEMMA SameMemory ==
    ASSUME Types, MemoryInv, UNCHANGED <<bySig, mine>>,
           \A c \in CaseIds : meta[c] \in Outcomes => meta'[c] = meta[c],
           \A s : Seen(s)' = Seen(s)
    PROVE  MemoryInv'
<1>1. \A s, c : c \in Seen(s) => Score(c)' = Score(c)
  BY DEF Seen, Score, Types
<1>2. ASSUME NEW s \in Sigs, NEW x \in bySig[s] PROVE Tops(x, s)' <=> Tops(x, s)
  BY <1>1, <1>2 DEF Tops, MemoryInv
<1>3. \A d \in mine : meta'[d.case] = meta[d.case]
  BY DEF Types
<1>4. OneOriginal
  BY DEF MemoryInv
<1>5. OneOriginal'
  BY <1>3, <1>4, Zenon DEF OneOriginal
<1> QED
  BY <1>2, <1>5 DEF MemoryInv

\* Accept calls what it does only of a case the store does not hold.
LEMMA CurrentIsNew ==
    ASSUME IInv, pc \in Accepting
    PROVE  /\ meta[cur] \in Outcomes /\ meta[cur].sig \in Sigs
           /\ \A s \in Sigs : cur \notin bySig[s]
<1>1. meta[cur] \in Outcomes /\ \A d \in mine : d.case # cur
  BY DEF IInv, DiskInv
<1>2. \A s \in Sigs : bySig[s] \subseteq Seen(s)
  BY DEF IInv, MemoryInv
<1> QED
  BY <1>1, <1>2, OutcomeFields DEF Seen

\* A replay is not disturbed by a step that removes no entry file.
LEMMA SameReplay ==
    ASSUME ReplayInv, replay' = replay,
           \A c \in CaseIds : disk["entry"][c] # "absent" => disk'["entry"][c] # "absent"
    PROVE  ReplayInv'
  BY DEF ReplayInv, ReplayNeedsOnlyNode

\* The write of a file other than an entry file, of a case that is being
\* accepted: no file of a case the corpus knows changes.
LEMMA OtherFiles ==
    ASSUME IInv, pc \in Accepting, NEW v,
           disk' = [disk EXCEPT ![pc][cur] = v]
    PROVE  /\ \A c \in CaseIds : disk'["entry"][c] = disk["entry"][c]
           /\ \A l \in Kinds, c \in CaseIds : c # cur => disk'[l][c] = disk[l][c]
           /\ disk'[pc][cur] = v
           /\ \A l \in Kinds : l # pc => disk'[l][cur] = disk[l][cur]
<1>1. pc \in Kinds /\ cur \in CaseIds /\ pc # "entry" /\ Types
  BY DEF IInv, Types, Accepting, Kinds
<1>2. \A l \in Kinds, x \in CaseIds : disk'[l][x] = IF l = pc /\ x = cur THEN v ELSE disk[l][x]
  BY <1>1 DEF Types
<1>3. "entry" \in Kinds
  BY DEF Kinds
<1> QED
  BY <1>1, <1>2, <1>3

-----------------------------------------------------------------------------
(* The invariant *)

LEMMA InitInv == Init => IInv
<1> SUFFICES ASSUME Init PROVE IInv
  OBVIOUS
<1>1. Types
  BY DEF Init, Types
<1>2. MemoryInv
  <2>1. \A s \in Sigs : bySig[s] = {} /\ Seen(s) = {}
    BY DEF Init, Seen
  <2>2. OneOriginal
    BY DEF Init, OneOriginal
  <2> QED
    BY <2>1, <2>2, FS_EmptySet, RetentionAssumption DEF MemoryInv
<1>3. DiskInv
  BY DEF Init, DiskInv, Accepting, Kinds
<1>4. ReplayInv
  BY DEF Init, ReplayInv, ReplayNeedsOnlyNode, Replays
<1> QED
  BY <1>1, <1>2, <1>3, <1>4 DEF IInv

LEMMA BeginInv ==
    ASSUME IInv, NEW c \in CaseIds, NEW o \in Outcomes, Begin(c, o), UNCHANGED replay
    PROVE  IInv'
<1>1. /\ Types /\ MemoryInv /\ DiskInv /\ ReplayInv
      /\ pc = "idle" /\ pc' = "case" /\ cur' = c /\ meta[c] = NoOutcome
      /\ meta' = [meta EXCEPT ![c] = o]
      /\ UNCHANGED <<bySig, todo, disk, mine>>
  BY DEF IInv, Begin, Fresh
<1>2. meta'[c] = o /\ \A x \in CaseIds : x # c => meta'[x] = meta[x]
  BY <1>1 DEF Types
<1>3. meta[c] \notin Outcomes
  BY <1>1, NoOutcomeIsNone
<1>4. \A d \in mine : d.case # c
  BY <1>1, <1>3 DEF Types
<1>5. Types'
  BY <1>1, <1>2, <1>4 DEF Types, Kinds
<1>6. MemoryInv'
  <2>1. \A s : Seen(s)' = Seen(s)
    BY <1>1, <1>2, <1>4 DEF Seen
  <2> QED
    BY <1>1, <1>2, <1>3, <2>1, SameMemory
<1>7. DiskInv'
  <2>1. \A x \in CaseIds : Stored(x)' <=> Stored(x)
    BY <1>1 DEF Stored
  <2>2. disk["entry"][c] = "absent"
    BY <1>1, <1>3 DEF DiskInv
  <2> QED
    BY <1>1, <1>2, <1>3, <1>4, <2>1, <2>2 DEF DiskInv, Types
<1>8. ReplayInv'
  BY <1>1, SameReplay
<1> QED
  BY <1>5, <1>6, <1>7, <1>8 DEF IInv

LEMMA TruncateInv ==
    ASSUME IInv, NEW c \in CaseIds, Truncate(c), UNCHANGED replay
    PROVE  IInv'
<1>1. /\ Types /\ MemoryInv /\ DiskInv /\ ReplayInv
      /\ pc # "idle" /\ c \in Current /\ pc \in Kinds
      /\ disk' = [disk EXCEPT ![pc][c] = "partial"]
      /\ UNCHANGED <<pc, cur, meta, bySig, todo, mine>>
  BY DEF IInv, Truncate, Types
<1>2. \A l \in Kinds, x \in CaseIds :
         disk'[l][x] = IF l = pc /\ x = c THEN "partial" ELSE disk[l][x]
  BY <1>1 DEF Types
<1>3. Types'
  BY <1>1, OneFileType DEF Types
<1>4. MemoryInv'
  <2>1. \A s : Seen(s)' = Seen(s)
    BY <1>1 DEF Seen
  <2> QED
    BY <1>1, <2>1, SameMemory
<1>5. {"entry", "bundle", "tx"} \subseteq Kinds
  BY DEF Kinds
<1>6. ReplayInv'
  BY <1>1, <1>2, <1>5, SameReplay
<1>7. CASE pc = "entry"
  <2>1. c \in todo
    BY <1>1, <1>7 DEF Current, Best
  <2>2. \A x \in CaseIds : Stored(x)' <=> Stored(x)
    BY <1>2, <1>5, <1>7 DEF Stored
  <2>3. DiskInv'
    BY <1>1, <1>2, <1>5, <1>7, <2>1, <2>2 DEF DiskInv, Types, Accepting
  <2> QED
    BY <1>3, <1>4, <1>6, <2>3 DEF IInv
<1>8. CASE pc # "entry"
  <2>1. c = cur /\ pc \in Accepting
    BY <1>1, <1>8 DEF Current, Accepting, Kinds
  <2>2. \A s \in Sigs : cur \notin bySig[s]
    BY <2>1, CurrentIsNew
  <2>3. \A x \in CaseIds : /\ disk'["entry"][x] = disk["entry"][x]
                           /\ x # cur => (Stored(x)' <=> Stored(x))
    BY <1>2, <1>5, <1>8, <2>1 DEF Stored
  <2>4. pc = "tx" => disk'["bundle"][cur] = "complete"
    BY <1>1, <1>2, <1>5, <2>1 DEF DiskInv
  <2>5. DiskInv'
    <3>1. \A x \in CaseIds : disk'["entry"][x] # "absent" => Stored(x)' /\ meta[x] \in Outcomes
      BY <1>1, <2>1, <2>3 DEF DiskInv
    <3>2. \A s \in Sigs : \A x \in bySig[s] : Stored(x)' /\ disk'["entry"][x] = "complete"
      BY <1>1, <1>8, <2>2, <2>3 DEF DiskInv, Types
    <3>3. meta[cur] \in Outcomes /\ disk'["entry"][cur] = "absent" /\ \A d \in mine : d.case # cur
      BY <1>1, <2>1, <2>3 DEF DiskInv
    <3> QED
      BY <1>1, <1>8, <2>4, <3>1, <3>2, <3>3 DEF DiskInv
  <2> QED
    BY <1>3, <1>4, <1>6, <2>5 DEF IInv
<1> QED
  BY <1>7, <1>8

\* Accept goes on to the next file of a case that the store does not hold yet.
LEMMA AdvanceInv ==
    ASSUME IInv, pc \in Accepting, Written(cur), UNCHANGED replay,
           pc' \in {"feedback", "bundle", "tx"}, pc' = "tx" => pc = "bundle",
           UNCHANGED <<cur, meta, bySig, todo, mine>>
    PROVE  IInv'
<1>1. Types /\ MemoryInv /\ DiskInv /\ ReplayInv /\ pc \in Kinds /\ cur \in CaseIds
  BY DEF IInv, Types, Accepting, Kinds
<1>2. disk' = [disk EXCEPT ![pc][cur] = "complete"]
  BY DEF Written
<1>3. /\ \A x \in CaseIds : disk'["entry"][x] = disk["entry"][x]
      /\ \A l \in Kinds, x \in CaseIds : x # cur => disk'[l][x] = disk[l][x]
      /\ disk'[pc][cur] = "complete"
  BY <1>2, OtherFiles
<1>4. Types'
  BY <1>1, <1>2, OneFileType DEF Types, Kinds
<1>5. MemoryInv'
  <2>1. \A s : Seen(s)' = Seen(s)
    BY DEF Seen
  <2> QED
    BY <1>1, <2>1, SameMemory
<1>6. DiskInv'
  <2>1. \A x \in CaseIds : x # cur => (Stored(x)' <=> Stored(x))
    BY <1>3 DEF Stored, Kinds
  <2>2. \A s \in Sigs : cur \notin bySig[s]
    BY CurrentIsNew
  <2>3. /\ meta[cur] \in Outcomes /\ disk'["entry"][cur] = "absent"
        /\ \A d \in mine : d.case # cur
    BY <1>1, <1>3 DEF DiskInv
  <2>4. \A x \in CaseIds : disk'["entry"][x] # "absent" => Stored(x)' /\ meta[x] \in Outcomes
    BY <1>1, <1>3, <2>1, <2>3 DEF DiskInv
  <2>5. \A s \in Sigs : \A x \in bySig[s] : Stored(x)' /\ disk'["entry"][x] = "complete"
    BY <1>1, <1>3, <2>1, <2>2 DEF DiskInv, Types, Accepting
  <2> QED
    BY <1>3, <2>3, <2>4, <2>5 DEF DiskInv
<1>7. ReplayInv'
  BY <1>1, <1>3, SameReplay
<1> QED
  BY <1>4, <1>5, <1>6, <1>7 DEF IInv

\* Accept drops a case the store turns away.
LEMMA DropInv ==
    ASSUME IInv, pc \in Accepting, Written(cur), UNCHANGED replay,
           ~Retain(cur), pc' = "idle", mine' = mine \cup {Decided},
           UNCHANGED <<cur, meta, bySig, todo>>
    PROVE  IInv'
<1>1. Types /\ MemoryInv /\ DiskInv /\ ReplayInv /\ pc \in Kinds /\ cur \in CaseIds
  BY DEF IInv, Types, Accepting, Kinds
<1>2. disk' = [disk EXCEPT ![pc][cur] = "complete"]
  BY DEF Written
<1>3. /\ \A x \in CaseIds : disk'["entry"][x] = disk["entry"][x]
      /\ \A l \in Kinds, x \in CaseIds : x # cur => disk'[l][x] = disk[l][x]
  BY <1>2, OtherFiles
<1>4. /\ meta[cur] \in Outcomes /\ meta[cur].sig \in Sigs
      /\ \A s \in Sigs : cur \notin bySig[s]
      /\ \A d \in mine : d.case # cur
      /\ disk["entry"][cur] = "absent"
  BY <1>1, CurrentIsNew DEF DiskInv
<1>5. Types'
  <2>1. Decided.case = cur
    BY DEF Decided
  <2>2. \A d \in mine' : d.case \in CaseIds /\ meta[d.case] \in Outcomes
    BY <1>1, <1>4, <2>1 DEF Types
  <2>3. disk' \in [Kinds -> [CaseIds -> {"absent", "partial", "complete"}]]
    BY <1>1, <1>2, OneFileType
  <2> QED
    BY <1>1, <2>2, <2>3 DEF Types
<1>6. MemoryInv'
  <2>1. bySig' = [bySig EXCEPT ![meta[cur].sig] = bySig[meta[cur].sig]]
    BY <1>1, <1>4 DEF Types
  <2> QED
    BY <1>1, <1>4, <2>1, DecisionMemory
<1>7. DiskInv'
  <2>1. \A x \in CaseIds : x # cur => (Stored(x)' <=> Stored(x))
    BY <1>3 DEF Stored, Kinds
  <2>2. \A x \in CaseIds : disk'["entry"][x] # "absent" => Stored(x)' /\ meta[x] \in Outcomes
    BY <1>1, <1>3, <1>4, <2>1 DEF DiskInv
  <2>3. \A s \in Sigs : \A x \in bySig[s] : Stored(x)' /\ disk'["entry"][x] = "complete"
    BY <1>1, <1>3, <1>4, <2>1 DEF DiskInv, Types, Accepting
  <2> QED
    BY <2>2, <2>3 DEF DiskInv, Accepting
<1>8. ReplayInv'
  BY <1>1, <1>3, SameReplay
<1> QED
  BY <1>5, <1>6, <1>7, <1>8 DEF IInv

\* A decision, whichever way it goes.
LEMMA DecideInv ==
    ASSUME IInv, pc \in {"case", "feedback"}, Written(cur), Decide, UNCHANGED replay,
           UNCHANGED <<cur, meta, bySig, todo>>
    PROVE  IInv'
<1>1. CASE Retain(cur)
  BY <1>1, AdvanceInv DEF Decide, Accepting
<1>2. CASE ~Retain(cur)
  BY <1>2, DropInv DEF Decide, Accepting
<1> QED
  BY <1>1, <1>2

\* Save puts the case into the store and goes on to write the entries; the
\* bundle is complete.
LEMMA WriteTxInv ==
    ASSUME IInv, WriteTx, UNCHANGED replay
    PROVE  IInv'
<1>1. /\ Types /\ MemoryInv /\ DiskInv /\ ReplayInv
      /\ pc = "tx" /\ pc \in Kinds /\ pc \in Accepting /\ cur \in CaseIds
  BY DEF IInv, Types, WriteTx, Accepting, Kinds
<1>2. /\ disk' = [disk EXCEPT ![pc][cur] = "complete"]
      /\ mine' = mine \cup {Decided} /\ pc' = "entry"
      /\ UNCHANGED <<cur, meta>>
  BY DEF WriteTx, Written
<1>3. PICK K \in SUBSET CaseIds :
         /\ Keeps(K, bySig[meta[cur].sig] \cup {cur})
         /\ bySig' = [bySig EXCEPT ![meta[cur].sig] = K]
         /\ todo' = K
  BY DEF WriteTx
<1>4. /\ \A x \in CaseIds : disk'["entry"][x] = disk["entry"][x]
      /\ \A l \in Kinds, x \in CaseIds : x # cur => disk'[l][x] = disk[l][x]
      /\ disk'[pc][cur] = "complete"
      /\ \A l \in Kinds : l # pc => disk'[l][cur] = disk[l][cur]
  BY <1>1, <1>2, OtherFiles
<1>5. /\ meta[cur] \in Outcomes /\ meta[cur].sig \in Sigs
      /\ \A d \in mine : d.case # cur
      /\ disk["entry"][cur] = "absent" /\ disk["bundle"][cur] = "complete"
  BY <1>1, CurrentIsNew DEF DiskInv
<1>6. Types'
  <2>1. Decided.case = cur
    BY DEF Decided
  <2>2. \A d \in mine' : d.case \in CaseIds /\ meta[d.case] \in Outcomes
    BY <1>1, <1>2, <1>5, <2>1 DEF Types
  <2>3. disk' \in [Kinds -> [CaseIds -> {"absent", "partial", "complete"}]]
    BY <1>1, <1>2, OneFileType
  <2>4. bySig' \in [Sigs -> SUBSET CaseIds] /\ todo' \in SUBSET CaseIds
    BY <1>1, <1>3 DEF Types
  <2> QED
    BY <1>1, <1>2, <2>2, <2>3, <2>4 DEF Types, Kinds
<1>7. MemoryInv'
  BY <1>1, <1>2, <1>3, <1>5, DecisionMemory
<1>8. DiskInv'
  <2>1. \A x \in CaseIds : Stored(x) => Stored(x)'
    BY <1>1, <1>4 DEF Stored, Kinds
  <2>2. Stored(cur)'
    BY <1>1, <1>2, <1>4, <1>5 DEF Stored, Kinds
  <2>3. \A x \in K : Stored(x)' /\ meta[x] \in Outcomes
    <3>1. \A x \in bySig[meta[cur].sig] : Stored(x) /\ x \in Seen(meta[cur].sig)
      BY <1>1, <1>5 DEF DiskInv, MemoryInv
    <3>2. \A x \in bySig[meta[cur].sig] : Stored(x)' /\ meta[x] \in Outcomes
      BY <1>1, <2>1, <3>1 DEF Seen, Types
    <3> QED
      BY <1>2, <1>3, <1>5, <2>2, <3>2 DEF Keeps
  <2>4. \A x \in CaseIds : disk'["entry"][x] # "absent" => Stored(x)' /\ meta[x] \in Outcomes
    BY <1>1, <1>4, <2>1 DEF DiskInv
  <2>5. ASSUME NEW s \in Sigs, NEW x \in bySig'[s]
        PROVE  Stored(x)' /\ (disk'["entry"][x] = "complete" \/ x \in K)
    <3>1. CASE s = meta[cur].sig
      BY <1>1, <1>3, <1>5, <2>3, <2>5, <3>1 DEF Types
    <3>2. CASE s # meta[cur].sig
      BY <1>1, <1>3, <1>4, <2>1, <2>5, <3>2 DEF Types, DiskInv
    <3> QED
      BY <3>1, <3>2
  <2> QED
    BY <1>2, <1>3, <2>3, <2>4, <2>5 DEF DiskInv, Accepting
<1>9. ReplayInv'
  BY <1>1, <1>4, SameReplay
<1> QED
  BY <1>6, <1>7, <1>8, <1>9 DEF IInv

\* One entry file more is complete; when none is left Accept returns.
LEMMA WriteEntryInv ==
    ASSUME IInv, NEW c \in CaseIds, WriteEntry(c), UNCHANGED replay
    PROVE  IInv'
<1>1. /\ Types /\ MemoryInv /\ DiskInv /\ ReplayInv
      /\ pc = "entry" /\ pc \in Kinds
      /\ c \in todo /\ disk' = [disk EXCEPT ![pc][c] = "complete"]
      /\ todo' = todo \ {c} /\ pc' = IF todo' = {} THEN "idle" ELSE "entry"
      /\ UNCHANGED <<cur, meta, bySig, mine>>
  BY DEF IInv, WriteEntry, Written, Current, Best, Kinds
<1>2. \A l \in Kinds, x \in CaseIds :
         disk'[l][x] = IF l = "entry" /\ x = c THEN "complete" ELSE disk[l][x]
  BY <1>1 DEF Types
<1>3. Types'
  BY <1>1, OneFileType DEF Types, Kinds
<1>4. MemoryInv'
  <2>1. \A s : Seen(s)' = Seen(s)
    BY <1>1 DEF Seen
  <2> QED
    BY <1>1, <2>1, SameMemory
<1>5. DiskInv'
  <2>1. \A x \in CaseIds : Stored(x)' <=> Stored(x)
    BY <1>2 DEF Stored, Kinds
  <2>2. \A x \in CaseIds : disk'["entry"][x] = IF x = c THEN "complete" ELSE disk["entry"][x]
    BY <1>2 DEF Kinds
  <2>3. Stored(c) /\ meta[c] \in Outcomes
    BY <1>1 DEF DiskInv
  <2>4. \A x \in CaseIds : disk'["entry"][x] # "absent" => Stored(x)' /\ meta[x] \in Outcomes
    BY <1>1, <2>1, <2>2, <2>3 DEF DiskInv
  <2>5. \A s \in Sigs : \A x \in bySig[s] :
           Stored(x)' /\ (disk'["entry"][x] = "complete" \/ x \in todo')
    BY <1>1, <2>1, <2>2 DEF DiskInv, Types
  <2>6. \A x \in todo' : Stored(x)' /\ meta[x] \in Outcomes
    BY <1>1, <2>1 DEF DiskInv, Types
  <2> QED
    BY <1>1, <2>4, <2>5, <2>6 DEF DiskInv, Accepting
<1>6. ReplayInv'
  BY <1>1, <1>2, SameReplay DEF Kinds
<1> QED
  BY <1>3, <1>4, <1>5, <1>6 DEF IInv

\* A new campaign knows nothing; the files stay.
LEMMA RestartInv ==
    ASSUME IInv, Restart, UNCHANGED replay
    PROVE  IInv'
<1>1. /\ Types /\ MemoryInv /\ DiskInv /\ ReplayInv
      /\ pc' = "idle" /\ todo' = {} /\ mine' = {} /\ bySig' = [s \in Sigs |-> {}]
      /\ UNCHANGED <<cur, meta, disk>>
  BY DEF IInv, Restart
<1>2. Types'
  BY <1>1 DEF Types
<1>3. MemoryInv'
  <2>1. \A s \in Sigs : bySig'[s] = {} /\ Seen(s)' = {}
    BY <1>1 DEF Seen
  <2>2. OneOriginal'
    BY <1>1 DEF OneOriginal
  <2> QED
    BY <2>1, <2>2, FS_EmptySet, RetentionAssumption DEF MemoryInv
<1>4. DiskInv'
  <2>1. \A x : Stored(x)' <=> Stored(x)
    BY <1>1 DEF Stored
  <2> QED
    BY <1>1, <2>1 DEF DiskInv, Accepting
<1>5. ReplayInv'
  BY <1>1, SameReplay
<1> QED
  BY <1>2, <1>3, <1>4, <1>5 DEF IInv

\* The campaign's half of the invariant says nothing of a replay.
LEMMA CampaignStands ==
    ASSUME IInv, UNCHANGED campaignVars
    PROVE  Types' /\ MemoryInv' /\ DiskInv'
<1>1. Types /\ MemoryInv /\ DiskInv /\ UNCHANGED <<pc, cur, meta, bySig, todo, disk, mine>>
  BY DEF IInv, campaignVars
<1>2. Types'
  BY <1>1 DEF Types
<1>3. MemoryInv'
  <2>1. \A s : Seen(s)' = Seen(s)
    BY <1>1 DEF Seen
  <2> QED
    BY <1>1, <2>1, SameMemory
<1>4. DiskInv'
  <2>1. \A x : Stored(x)' <=> Stored(x)
    BY <1>1 DEF Stored
  <2> QED
    BY <1>1, <2>1 DEF DiskInv
<1> QED
  BY <1>2, <1>3, <1>4

\* A replay that begins with a listed case finds its bundle.
LEMMA ReplayLoadInv ==
    ASSUME IInv, NEW c \in CaseIds, ReplayLoad(c)
    PROVE  IInv'
<1>1. DiskInv /\ UNCHANGED campaignVars /\ disk' = disk
  BY DEF IInv, ReplayLoad, campaignVars
<1>2. PICK stage \in IF BundleRead(c) THEN {"loaded", "noURL"} ELSE {"unreadable"} :
         replay' = [case |-> IF stage = "loaded" THEN c ELSE NoCase,
                    listed |-> disk["entry"][c] # "absent", stage |-> stage]
  BY DEF ReplayLoad
<1>3. /\ replay'.listed <=> disk["entry"][c] # "absent"
      /\ replay'.stage = stage
      /\ stage = "loaded" => replay'.case = c
  BY <1>2, Zenon
<1>4. disk["entry"][c] # "absent" => stage \in {"loaded", "noURL"}
  BY <1>1, <1>2 DEF DiskInv, Stored, BundleRead
<1>5. replay' \in Replays
  <2>1. stage \in {"loaded", "noURL", "unreadable"}
    BY <1>2
  <2>2. (disk["entry"][c] # "absent") \in BOOLEAN
    OBVIOUS
  <2> QED
    BY <1>2, <2>1, <2>2 DEF Replays, Ends
<1>6. ReplayInv'
  BY <1>1, <1>3, <1>4, <1>5 DEF ReplayInv, ReplayNeedsOnlyNode
<1> QED
  BY <1>1, <1>6, CampaignStands DEF IInv

\* The transaction of a listed case is complete when a replay reads it.
LEMMA ReplaySendInv ==
    ASSUME IInv, ReplaySend
    PROVE  IInv'
<1>1. /\ Types /\ DiskInv /\ ReplayInv /\ UNCHANGED campaignVars
      /\ replay.stage = "loaded" /\ replay \in Replays
  BY DEF IInv, ReplaySend, ReplayInv
<1>2. PICK stage \in SendsRaw(disk["tx"][replay.case]) :
         replay' = [replay EXCEPT !.stage = stage, !.case = NoCase]
  BY DEF ReplaySend
<1>3. disk["tx"][replay.case] \in {"absent", "partial", "complete"}
  BY <1>1 DEF ReplayInv, Types, Kinds
<1>4. stage \in Ends
  BY <1>2, <1>3 DEF SendsRaw, Ends
<1>5. replay.listed => stage \in {"noNode", "error", "delivered"}
  BY <1>1, <1>2 DEF SendsRaw, ReplayInv, DiskInv, Stored
<1>6. /\ replay'.stage = stage /\ replay' \in Replays
      /\ replay'.listed <=> replay.listed
  BY <1>1, <1>2, <1>4 DEF Replays
<1>7. ReplayInv'
  BY <1>4, <1>5, <1>6 DEF ReplayInv, ReplayNeedsOnlyNode, Ends
<1> QED
  BY <1>1, <1>7, CampaignStands DEF IInv

\* Every step, and a step that changes nothing.
LEMMA StepInv == IInv /\ [Next]_vars => IInv'
<1> SUFFICES ASSUME IInv, [Next]_vars PROVE IInv'
  OBVIOUS
<1>1. ASSUME NEW c \in CaseIds, NEW o \in Outcomes, Begin(c, o), UNCHANGED replay
      PROVE  IInv'
  BY <1>1, BeginInv
<1>2. ASSUME NEW c \in CaseIds, Truncate(c), UNCHANGED replay PROVE IInv'
  BY <1>2, TruncateInv
<1>3. ASSUME NEW c \in CaseIds, WriteEntry(c), UNCHANGED replay PROVE IInv'
  BY <1>3, WriteEntryInv
<1>4. CASE WriteCase /\ UNCHANGED replay
  <2>1. CASE meta[cur].terminal
    BY <1>4, <2>1, AdvanceInv DEF WriteCase, Accepting
  <2>2. CASE ~meta[cur].terminal
    BY <1>4, <2>2, DecideInv DEF WriteCase
  <2> QED
    BY <2>1, <2>2
<1>5. CASE WriteFeedback /\ UNCHANGED replay
  BY <1>5, DecideInv DEF WriteFeedback
<1>6. CASE WriteBundle /\ UNCHANGED replay
  BY <1>6, AdvanceInv DEF WriteBundle, Accepting
<1>7. CASE WriteTx /\ UNCHANGED replay
  BY <1>7, WriteTxInv
<1>8. CASE Restart /\ UNCHANGED replay
  BY <1>8, RestartInv
<1>9. ASSUME NEW c \in CaseIds, ReplayLoad(c) PROVE IInv'
  BY <1>9, ReplayLoadInv
<1>10. CASE ReplaySend
  BY <1>10, ReplaySendInv
<1>11. CASE UNCHANGED vars
  <2>1. UNCHANGED campaignVars /\ UNCHANGED replay /\ disk' = disk
    BY <1>11 DEF vars, campaignVars
  <2> QED
    BY <2>1, CampaignStands, SameReplay DEF IInv
<1> QED
  BY <1>1, <1>2, <1>3, <1>4, <1>5, <1>6, <1>7, <1>8, <1>9, <1>10, <1>11
     DEF Next, CampaignNext

THEOREM AlwaysInv == Spec => []IInv
  BY InitInv, StepInv, PTL DEF Spec

-----------------------------------------------------------------------------
(* Theorems *)

\* Whatever the numbers of cases, signatures and campaigns, wherever a process
\* died: the replay of a case that was in the corpus directory reads a whole bundle
\* and a whole transaction; what it may still lack is the node.
THEOREM ListedIsReplayable == Spec => []ReplayNeedsOnlyNode
<1>1. IInv => ReplayNeedsOnlyNode
  BY DEF IInv, ReplayInv
<1> QED
  BY AlwaysInv, <1>1, PTL

\* Accept exports a bundle before it saves the case: an entry of the corpus
\* directory has its bundle and transaction complete, after any crash.
THEOREM EntryHasBundle == Spec => []CorpusReplayable
<1>1. IInv => CorpusReplayable
  BY DEF IInv, DiskInv, CorpusReplayable, Stored
<1> QED
  BY AlwaysInv, <1>1, PTL

\* The store never holds more than its cap of a signature, never loses the best
\* score of the campaign, and has what it holds on disk between two calls.
THEOREM StoreKeepsBest == Spec => []BestIsKept
<1>1. ASSUME IInv, NEW s \in Sigs,
             NEW seen, seen = {d.case : d \in {e \in mine : meta[e.case].sig = s}}
      PROVE  /\ Cardinality(bySig[s]) <= Cap
             /\ seen # {} => bySig[s] \cap Best(seen) # {}
             /\ pc = "idle" => \A c \in bySig[s] : disk["entry"][c] = "complete"
  <2>1. \A d \in mine : d.case \in CaseIds
    BY <1>1 DEF IInv, Types
  <2>2. seen = Seen(s)
    BY <1>1, <2>1 DEF Seen
  <2>3. /\ Cardinality(bySig[s]) <= Cap /\ bySig[s] \subseteq Seen(s)
        /\ Seen(s) # {} => \E x \in bySig[s] : Tops(x, s)
    BY <1>1 DEF IInv, MemoryInv
  <2>4. \A x \in Seen(s) : Tops(x, s) => x \in Best(Seen(s))
    BY DEF Best, Tops
  <2>5. pc = "idle" => \A c \in bySig[s] : disk["entry"][c] = "complete"
    BY <1>1 DEF IInv, DiskInv
  <2> QED
    BY <2>2, <2>3, <2>4, <2>5
<1>2. IInv => BestIsKept
  BY <1>1 DEF BestIsKept
<1> QED
  BY AlwaysInv, <1>2, PTL

\* Exactly one case of each signature a campaign has met is marked an original,
\* and only duplicates are dropped.
THEOREM OneOriginalEach == Spec => []OneOriginal
<1>1. IInv => OneOriginal
  BY DEF IInv, MemoryInv
<1> QED
  BY AlwaysInv, <1>1, PTL
=============================================================================
