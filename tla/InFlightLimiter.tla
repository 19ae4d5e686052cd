-------------------------- MODULE InFlightLimiter ---------------------------
(***************************************************************************)
(* The in-flight limiter, runner/inflight.go (InFlightLimiter), with the   *)
(* callers it is built for: workers that send on lanes.  Its methods hold  *)
(* one mutex from beginning to end, so each is one step.  The v2 runner    *)
(* uses it with one lane (module CampaignV2); here are several lanes, a    *)
(* cap of each kind or none, and releases too many, which the unit tests   *)
(* call "over-release" and make on empty lanes.  Release only knows the    *)
(* lane: on a lane where somebody holds a slot a release too many frees    *)
(* it.  No caller in the repository makes one; how far it can reach is     *)
(* what the properties say.                                                *)
(***************************************************************************)
EXTENDS Naturals, FiniteSets

CONSTANTS Workers,    \* concurrent senders, each with at most one slot
          Lanes,      \* lane ids
          GlobalCap,  \* InFlightLimiter.globalCap, 0 for unlimited
          LaneCap,    \* InFlightLimiter.laneCap, 0 for unlimited
          NoLane,     \* a worker that holds no slot
          MaxStray    \* bound on the releases too many on lanes with a holder

ASSUME LimiterAssumption ==
    /\ IsFiniteSet(Workers)
    /\ GlobalCap \in Nat /\ LaneCap \in Nat
    /\ NoLane \notin Lanes
    /\ MaxStray \in Nat

VARIABLES
    global,    \* InFlightLimiter.global
    perLane,   \* InFlightLimiter.perLane, 0 for a deleted key
    maxGlobal, \* InFlightLimiter.maxGlobalObserved
    maxLane,   \* InFlightLimiter.maxLaneObserved
    holds,     \* holds[w]: the lane on which worker w has a slot
    refused,   \* the lane the last TryAcquire refused, or NoLane
    strays,    \* releases too many made while the lane had a holder,
    laneStrays \* and those on each lane (history variables)

marks == <<maxGlobal, maxLane>>
strayed == <<strays, laneStrays>>
limiterVars == <<global, perLane, marks, holds, refused, strayed>>

LimiterInit ==
    /\ global = 0 /\ perLane = [l \in Lanes |-> 0]
    /\ maxGlobal = 0 /\ maxLane = [l \in Lanes |-> 0]
    /\ holds = [w \in Workers |-> NoLane]
    /\ refused = NoLane
    /\ strays = 0 /\ laneStrays = [l \in Lanes |-> 0]

Larger(a, b) == IF a > b THEN a ELSE b

\* Mutant of Full: the cap of a lane is not looked at.
FullGlobally(l) == GlobalCap > 0 /\ global >= GlobalCap

\* Mutant of Full: the cap is taken as reached one slot early.
FullEarly(l) ==
    \/ GlobalCap > 0 /\ global + 1 >= GlobalCap
    \/ LaneCap > 0 /\ perLane[l] >= LaneCap

\* TryAcquire refuses: a cap that is set is reached.
Full(l) ==
    \/ GlobalCap > 0 /\ global >= GlobalCap
    \/ LaneCap > 0 /\ perLane[l] >= LaneCap

\* Mutant of TryAcquire: the marks are taken before the counts go up.
TryAcquireMarkFirst(w, l) ==
    /\ holds[w] = NoLane
    /\ IF Full(l)
       THEN refused' = l /\ UNCHANGED <<global, perLane, marks, holds>>
       ELSE /\ global' = global + 1
            /\ perLane' = [perLane EXCEPT ![l] = @ + 1]
            /\ maxGlobal' = Larger(global, maxGlobal)
            /\ maxLane' = [maxLane EXCEPT ![l] = Larger(perLane[l], @)]
            /\ holds' = [holds EXCEPT ![w] = l]
            /\ refused' = NoLane
    /\ UNCHANGED strayed

\* A worker that holds no slot asks for one on lane l.
TryAcquire(w, l) ==
    /\ holds[w] = NoLane
    /\ IF Full(l)
       THEN refused' = l /\ UNCHANGED <<global, perLane, marks, holds>>
       ELSE /\ global' = global + 1
            /\ perLane' = [perLane EXCEPT ![l] = @ + 1]
            /\ maxGlobal' = Larger(global', maxGlobal)
            /\ maxLane' = [maxLane EXCEPT ![l] = Larger(perLane'[l], @)]
            /\ holds' = [holds EXCEPT ![w] = l]
            /\ refused' = NoLane
    /\ UNCHANGED strayed

\* Mutant of Give: only the lane's count goes down.
GiveLaneOnly(l) ==
    /\ perLane' = [perLane EXCEPT ![l] = IF @ > 0 THEN @ - 1 ELSE @]
    /\ UNCHANGED global

\* What Release does to the counts; a lane or a limiter at zero is left alone.
Give(l) ==
    IF perLane[l] <= 0 \/ global <= 0
    THEN UNCHANGED <<global, perLane>>
    ELSE /\ global' = global - 1
         /\ perLane' = [perLane EXCEPT ![l] = @ - 1]

\* A worker gives back the slot it holds.
Release(w) ==
    /\ holds[w] # NoLane
    /\ Give(holds[w])
    /\ holds' = [holds EXCEPT ![w] = NoLane]
    /\ refused' = NoLane
    /\ UNCHANGED <<marks, strayed>>

Holders(l) == {w \in Workers : holds[w] = l}

\* A release too many on lane l, by someone who holds no slot there.
StrayRelease(l) ==
    /\ Give(l)
    /\ IF Holders(l) = {}
       THEN UNCHANGED strayed
       ELSE /\ strays < MaxStray
            /\ strays' = strays + 1
            /\ laneStrays' = [laneStrays EXCEPT ![l] = @ + 1]
    /\ refused' = NoLane
    /\ UNCHANGED <<marks, holds>>

LimiterNext ==
    \/ \E w \in Workers : Release(w) \/ \E l \in Lanes : TryAcquire(w, l)
    \/ \E l \in Lanes : StrayRelease(l)

LimiterSpec == LimiterInit /\ [][LimiterNext]_limiterVars

-----------------------------------------------------------------------------
(* Properties *)

\* Every variable has its type; a count never goes below zero.
LimiterTypeOK ==
    /\ global \in Nat /\ perLane \in [Lanes -> Nat]
    /\ maxGlobal \in Nat /\ maxLane \in [Lanes -> Nat]
    /\ holds \in [Workers -> Lanes \cup {NoLane}]
    /\ refused \in Lanes \cup {NoLane}
    /\ strays \in Nat /\ laneStrays \in [Lanes -> Nat]

AllHolders == {w \in Workers : holds[w] # NoLane}

\* The counts, overall and on each lane, are the slots of the same holders: all of
\* them, but for one at most for each release too many on an occupied lane.  So no
\* slot is ever leaked, the two counts never drift apart, a release too many on an
\* empty lane changes nothing, and one on an occupied lane hides at most one holder
\* of that lane and none of another's.
CountsAreHolders ==
    /\ \E counted \in SUBSET AllHolders :
          /\ global = Cardinality(counted)
          /\ \A l \in Lanes : perLane[l] = Cardinality(counted \cap Holders(l))
    /\ Cardinality(AllHolders) <= global + strays
    /\ \A l \in Lanes : Cardinality(Holders(l)) <= perLane[l] + laneStrays[l]

\* The holders never exceed a cap that is set, but for one for each release too many,
\* and on a lane only for those on that lane.
WithinCaps ==
    /\ GlobalCap > 0 => Cardinality(AllHolders) <= GlobalCap + strays
    /\ LaneCap > 0 => \A l \in Lanes : Cardinality(Holders(l)) <= LaneCap + laneStrays[l]

\* A refusal is never spurious, whatever was released: whoever is refused meets at
\* least as many holders as a cap allows.
RefusedOnlyWhenFull ==
    refused # NoLane =>
        \/ GlobalCap > 0 /\ Cardinality(AllHolders) >= GlobalCap
        \/ LaneCap > 0 /\ Cardinality(Holders(refused)) >= LaneCap

\* A mark never falls, never shows more than were held at once, and misses no
\* holders but those that a release too many has hidden.
Observes(mark, next, held, hidden) ==
    mark <= next /\ next <= Larger(mark, held) /\ held <= next + hidden

\* The high-water marks of the report follow the slots held, at every step, overall
\* and on each lane: without releases too many they are the maxima.
HighWater ==
    [][/\ Observes(maxGlobal, maxGlobal', Cardinality(AllHolders'), strays')
       /\ \A l \in Lanes :
             Observes(maxLane[l], maxLane'[l], Cardinality(Holders(l)'), laneStrays'[l])]_limiterVars

=============================================================================
