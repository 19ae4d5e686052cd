----------------------------- MODULE Retention ------------------------------
(***************************************************************************)
(* What a campaign leaves on disk: campaignSink.Accept of                  *)
(* spammer/campaign.go, the corpus store (corpus/store.go) and the replay  *)
(* bundle (replay/export.go).  One call of Accept is a series of file      *)
(* writes; os.WriteFile truncates before it writes, and the process may    *)
(* stop between any two steps (a crash, or a failed write, after which the *)
(* campaign returns).  A new campaign on the same directories starts with  *)
(* an empty store, because NewStore reads nothing back.  Meanwhile another *)
(* process may replay bundles: the command replay (cmd/livefuzzer/main.go) *)
(* reads bundle.json and then tx.rlp, with the campaign going on between.  *)
(***************************************************************************)
EXTENDS Naturals, FiniteSets

CONSTANTS CaseIds,  \* all test cases of all campaigns (their ids are unique)
          Sigs,     \* the stable keys of signatures
          Scores,   \* the scores ScoreFeedback gives: 20, 70 or 80 by the kind of
                    \* signature, 100 for any signature with a process signal
          Cap,      \* Store.cap
          MaxRuns   \* bound on the campaigns run on the same directories

ASSUME RetentionAssumption ==
    /\ Scores \subseteq Nat
    /\ Cap \in Nat \ {0}
    /\ MaxRuns \in Nat \ {0}
    /\ "none" \notin Sigs  \* a signature is a hash

VARIABLES
    pc,     \* where Accept stands: the kind of file it writes next
    open,   \* the file that is truncated and not yet written
    cur,    \* the case being accepted
    meta,   \* signature, score and terminality of the cases accepted so far
    bySig,  \* Store.bySig, as sets: only scores order the entries
    todo,   \* entry files that Store.write still has to write
    disk,   \* disk[k][c]: the file of kind k of case c
    mine,   \* cases this campaign has accepted, with the decision taken
    runs,   \* campaigns started so far
    replay  \* the replay that is going on, or how the last one ended

campaignVars == <<pc, open, cur, meta, bySig, todo, disk, mine, runs>>
vars == <<campaignVars, replay>>

Kinds == {"case", "feedback", "bundle", "tx", "entry"}
NoOutcome == [sig |-> "none", score |-> 0, terminal |-> FALSE]
Outcomes == [sig : Sigs, score : Scores, terminal : BOOLEAN]

NoCase == "no case"

\* How a replay may end.  Three ends leave the bundle nil, which runReplay uses all
\* the same and crashes: a file is unreadable, no URL is given, the node cannot be
\* dialled.  Otherwise ReplayBundle sent nothing and reports success, sent a cut
\* transaction, got an error for the whole one (a refusal, or a lost reply: the node
\* may have it), or delivered it.
Ends == {"unreadable", "noURL", "noNode", "nothing", "cutSent", "error", "delivered"}

\* Whether the case was in the corpus when its replay began, and how the replay stands.
Replays == [case : CaseIds \cup {NoCase}, listed : BOOLEAN,
            stage : {"none", "loaded"} \cup Ends]

Fresh == {c \in CaseIds : meta[c] = NoOutcome}
Score(c) == meta[c].score

\* The cases of a set with the highest score in it: entries[0] is one of them.
Best(S) == {c \in S : \A d \in S : Score(d) <= Score(c)}

Init ==
    /\ pc = "idle" /\ open = FALSE /\ runs = 1
    /\ cur \in CaseIds
    /\ meta = [c \in CaseIds |-> NoOutcome]
    /\ bySig = [s \in Sigs |-> {}]
    /\ todo = {}
    /\ disk = [k \in Kinds |-> [c \in CaseIds |-> "absent"]]
    /\ mine = {}
    /\ replay = [case |-> NoCase, listed |-> FALSE, stage |-> "none"]

\* Accept is called with a new outcome.
Begin(c, o) ==
    /\ pc = "idle"
    /\ c \in Fresh
    /\ cur' = c
    /\ meta' = [meta EXCEPT ![c] = o]
    /\ pc' = "case"
    /\ UNCHANGED <<open, bySig, todo, disk, mine, runs>>

\* Whose file Accept is at: Store.write goes through the entries as sorted.
Current == IF pc = "entry" THEN Best(todo) ELSE {cur}

\* os.WriteFile opens with O_TRUNC.
Truncate(c) ==
    /\ pc # "idle" /\ ~open
    /\ c \in Current
    /\ open' = TRUE
    /\ disk' = [disk EXCEPT ![pc][c] = "partial"]
    /\ UNCHANGED <<pc, cur, meta, bySig, todo, mine, runs>>

\* The contents of the open file arrive; the next step is the one given.
Written(c) ==
    /\ open
    /\ disk[pc][c] = "partial" /\ c \in Current
    /\ open' = FALSE
    /\ disk' = [disk EXCEPT ![pc][c] = "complete"]

\* Store.Decide.
Retain(c) ==
    LET entries == bySig[meta[c].sig] IN
    \/ entries = {}
    \/ \A b \in Best(entries) : Score(c) > Score(b)
    \/ Cardinality(entries) < Cap

\* Mutant of Duplicate: only a case the full store turns away is a duplicate.
DuplicateWhenFull(c) == Cardinality(bySig[meta[c].sig]) >= Cap

Duplicate(c) == bySig[meta[c].sig] # {}

\* After the case metadata (and the canonical feedback, if the outcome is
\* terminal) the store decides.
Decided == [case |-> cur, duplicate |-> Duplicate(cur), retained |-> Retain(cur)]

Decide ==
    IF Retain(cur) THEN pc' = "bundle" /\ UNCHANGED mine
                   ELSE pc' = "idle" /\ mine' = mine \cup {Decided}

WriteCase ==
    /\ pc = "case"
    /\ Written(cur)
    /\ IF meta[cur].terminal THEN pc' = "feedback" /\ UNCHANGED mine ELSE Decide
    /\ UNCHANGED <<cur, meta, bySig, todo, runs>>

WriteFeedback ==
    /\ pc = "feedback"
    /\ Written(cur)
    /\ Decide
    /\ UNCHANGED <<cur, meta, bySig, todo, runs>>

\* Mutant of Keeps: the entries are sorted the other way round.
KeepsWorst(K, S) ==
    /\ K \subseteq S
    /\ Cardinality(K) = IF Cardinality(S) > Cap THEN Cap ELSE Cardinality(S)
    /\ \A x \in K, y \in S \ K : Score(x) <= Score(y)

\* Store.Save: append, sort by descending score, cut to the cap.  Which of the
\* entries with the lowest score go is the sort's choice.
Keeps(K, S) ==
    /\ K \subseteq S
    /\ Cardinality(K) = IF Cardinality(S) > Cap THEN Cap ELSE Cardinality(S)
    /\ \A x \in K, y \in S \ K : Score(x) >= Score(y)

\* Mutant of WriteBundle: the case is saved before tx.rlp is written.
WriteBundleAndSave ==
    /\ pc = "bundle"
    /\ Written(cur)
    /\ \E K \in SUBSET CaseIds :
         /\ Keeps(K, bySig[meta[cur].sig] \cup {cur})
         /\ bySig' = [bySig EXCEPT ![meta[cur].sig] = K]
         /\ todo' = K
    /\ mine' = mine \cup {Decided}
    /\ pc' = "entry"
    /\ UNCHANGED <<cur, meta, runs>>

\* ExportBundle: bundle.json, then tx.rlp.
WriteBundle ==
    /\ pc = "bundle"
    /\ Written(cur)
    /\ pc' = "tx"
    /\ UNCHANGED <<cur, meta, bySig, todo, mine, runs>>

\* tx.rlp is complete: Save changes bySig before it rewrites every entry file.
WriteTx ==
    /\ pc = "tx"
    /\ Written(cur)
    /\ \E K \in SUBSET CaseIds :
         /\ Keeps(K, bySig[meta[cur].sig] \cup {cur})
         /\ bySig' = [bySig EXCEPT ![meta[cur].sig] = K]
         /\ todo' = K
    /\ mine' = mine \cup {Decided}
    /\ pc' = "entry"
    /\ UNCHANGED <<cur, meta, runs>>

\* Store.write: one file per entry; files of entries cut off stay.
WriteEntry(c) ==
    /\ pc = "entry"
    /\ Written(c)
    /\ todo' = todo \ {c}
    /\ pc' = IF todo' = {} THEN "idle" ELSE "entry"
    /\ UNCHANGED <<cur, meta, bySig, mine, runs>>

\* The process ends, in the middle of Accept or not, and another campaign runs.
Restart ==
    /\ runs < MaxRuns
    /\ runs' = runs + 1
    /\ pc' = "idle" /\ open' = FALSE /\ todo' = {}
    /\ bySig' = [s \in Sigs |-> {}]
    /\ mine' = {}
    /\ UNCHANGED <<cur, meta, disk>>

\* LoadBundle refuses a file that is not there and one that is cut.
BundleRead(c) == disk["bundle"][c] = "complete"

\* ReplayBundle loads the bundle; then it needs the URL of a node, from the command or
\* from the bundle, where ExportBundle's caller never puts one.
ReplayLoad(c) ==
    /\ replay.stage # "loaded"
    /\ \E stage \in IF BundleRead(c) THEN {"loaded", "noURL"} ELSE {"unreadable"} :
         replay' = [case |-> IF stage = "loaded" THEN c ELSE NoCase,
                    listed |-> disk["entry"][c] # "absent", stage |-> stage]
    /\ UNCHANGED campaignVars

\* What becomes of the bytes of tx.rlp; of a file that is being written ReplayBundle
\* sees none, and does not even dial, or some.
SendsRaw(file) ==
    CASE file = "absent" -> {"unreadable"}
      [] file = "partial" -> {"nothing", "noNode", "cutSent"}
      [] file = "complete" -> {"noNode", "error", "delivered"}

ReplaySend ==
    /\ replay.stage = "loaded"
    /\ \E stage \in SendsRaw(disk["tx"][replay.case]) :
         replay' = [replay EXCEPT !.stage = stage, !.case = NoCase]
    /\ UNCHANGED campaignVars

CampaignNext ==
    \/ \E c \in CaseIds, o \in Outcomes : Begin(c, o)
    \/ \E c \in CaseIds : Truncate(c) \/ WriteEntry(c)
    \/ WriteCase \/ WriteFeedback \/ WriteBundle \/ WriteTx
    \/ Restart

Next ==
    \/ CampaignNext /\ UNCHANGED replay
    \/ \E c \in CaseIds : ReplayLoad(c)
    \/ ReplaySend

Spec == Init /\ [][Next]_vars

-----------------------------------------------------------------------------
(* Properties *)

\* Every variable has its type.
TypeOK ==
    /\ pc \in Kinds \cup {"idle"}
    /\ open \in BOOLEAN
    /\ cur \in CaseIds
    /\ meta \in [CaseIds -> Outcomes \cup {NoOutcome}]
    /\ bySig \in [Sigs -> SUBSET CaseIds]
    /\ todo \in SUBSET CaseIds
    /\ disk \in [Kinds -> [CaseIds -> {"absent", "partial", "complete"}]]
    /\ mine \in SUBSET [case : CaseIds, duplicate : BOOLEAN, retained : BOOLEAN]
    /\ runs \in 1..MaxRuns
    /\ replay \in Replays

\* The bundle and the transaction of a case that appears in the corpus directory
\* were complete before its entry was begun (Accept exports before it saves), and
\* stay so.
CorpusReplayable ==
    \A c \in CaseIds :
        disk["entry"][c] # "absent" =>
            disk["bundle"][c] = "complete" /\ disk["tx"][c] = "complete"

\* Wherever a process died and whatever a campaign writes between the two reads of a
\* replay: once a case is in the corpus directory its files are never what a replay
\* of it fails on.  Neither is unreadable, no cut transaction is sent, and success is
\* never reported for nothing sent.  Only the node can be missing (no URL, no
\* connection: the command crashes on the nil bundle) or answer with an error.
ReplayNeedsOnlyNode ==
    replay.listed => replay.stage \in {"loaded", "noURL", "noNode", "error", "delivered"}

\* Within one campaign a signature is represented at least by a case with the
\* best score seen, at most by Cap cases, and all of them are on disk whenever
\* Accept is not at work.
BestIsKept ==
    \A s \in Sigs :
        LET seen == {d.case : d \in {e \in mine : meta[e.case].sig = s}} IN
        /\ Cardinality(bySig[s]) <= Cap
        /\ seen # {} => bySig[s] \cap Best(seen) # {}
        /\ pc = "idle" => \A c \in bySig[s] : disk["entry"][c] = "complete"

\* In one campaign exactly the first case of a signature is no duplicate, and a
\* case that is dropped is always one.
OneOriginal ==
    /\ \A d, e \in mine :
          meta[d.case].sig = meta[e.case].sig /\ ~d.duplicate /\ ~e.duplicate => d = e
    /\ \A d \in mine :
          \E e \in mine : meta[e.case].sig = meta[d.case].sig /\ ~e.duplicate
    /\ \A d \in mine : d.retained \/ d.duplicate

\* What the option retain-per-signature says ("Maximum retained cases per
\* deduplicated signature", flags/flags.go:127), of the directory the retained
\* cases are in.  Does not hold: a second campaign on the directory starts from
\* an empty store.
DirectoryWithinCap ==
    \A s \in Sigs :
        Cardinality({c \in CaseIds : meta[c].sig = s /\ disk["entry"][c] = "complete"}) <= Cap

=============================================================================
