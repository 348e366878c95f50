-------------------------- MODULE EvaluationsProofs --------------------------
(***************************************************************************)
(* Proofs about the evaluation of predictions, for any prices, horizons,   *)
(* length of the queue and number of deaths and failing writes: a settled  *)
(* prediction carries the outcome of its whole horizon, and keeps it.      *)
(***************************************************************************)
EXTENDS Evaluations, FiniteSetTheorems, TLAPS

------------------------------------------------------------------------------
(* Sets of numbers *)

\* The elements of S below i: how many there are is the place of i in S.
Below(S, i) == {j \in S : j < i}
Place(S, i) == Cardinality(Below(S, i))

\* A larger element has a later place, and the place of an element is less
\* than the number of elements.
LEMMA PlaceGrows ==
    ASSUME NEW S \in SUBSET Int, IsFiniteSet(S), NEW i \in S, NEW j \in S
    PROVE  /\ Place(S, i) \in Nat /\ Place(S, i) < Cardinality(S)
           /\ Cardinality(S) \in Nat
           /\ i < j => Place(S, i) < Place(S, j)
  <1>1. Cardinality(S) \in Nat
    BY FS_CardinalityType
  <1>2. ASSUME NEW T \in SUBSET S, NEW B \in SUBSET T, NEW x \in T, x \notin B
        PROVE  /\ Cardinality(B) \in Nat /\ Cardinality(T) \in Nat
               /\ Cardinality(B) < Cardinality(T)
    <2>1. IsFiniteSet(T)
      BY FS_Subset
    <2>2. IsFiniteSet(B) /\ Cardinality(B) <= Cardinality(T)
      BY <2>1, FS_Subset
    <2>3. Cardinality(T) # Cardinality(B)
      BY <1>2, <2>1, FS_Subset
    <2>4. Cardinality(B) \in Nat /\ Cardinality(T) \in Nat
      BY <2>1, <2>2, FS_CardinalityType
    <2> QED
      BY <2>2, <2>3, <2>4
  <1>3. Below(S, i) \in SUBSET S /\ i \notin Below(S, i) /\ Below(S, j) \in SUBSET S
    BY DEF Below
  <1>4. ASSUME i < j PROVE Below(S, i) \in SUBSET Below(S, j) /\ i \in Below(S, j)
    <2>1. \A k \in S : k < i => k < j
      BY <1>4
    <2> QED
      BY <1>4, <2>1 DEF Below
  <1>5. Cardinality(Below(S, i)) \in Nat /\ Cardinality(Below(S, i)) < Cardinality(S)
    BY <1>2, <1>3
  <1>6. i < j => Cardinality(Below(S, i)) < Cardinality(Below(S, j))
    BY <1>2, <1>3, <1>4
  <1> QED
    BY <1>1, <1>5, <1>6 DEF Place

\* Every place of a finite set is taken.
LEMMA PlacesTaken ==
    ASSUME NEW S \in SUBSET Int, IsFiniteSet(S),
           NEW k \in Nat, k < Cardinality(S)
    PROVE  \E i \in S : Place(S, i) = k
  <1> DEFINE N == Cardinality(S)
             f == [i \in S |-> Place(S, i)]
  <1>1. N \in Nat
    BY FS_CardinalityType
  <1>2. \A i \in S : Place(S, i) \in 0..N-1
    BY <1>1, PlaceGrows
  <1>3. \A i, j \in S : Place(S, i) = Place(S, j) => i = j
    <2> SUFFICES ASSUME NEW i \in S, NEW j \in S, Place(S, i) = Place(S, j), i # j
                 PROVE  FALSE
      OBVIOUS
    <2>1. i < j \/ j < i
      OBVIOUS
    <2>2. i < j => Place(S, i) < Place(S, j)
      BY PlaceGrows
    <2>3. j < i => Place(S, j) < Place(S, i)
      BY PlaceGrows
    <2>4. Place(S, i) \in Nat
      BY PlaceGrows
    <2> QED
      BY <2>1, <2>2, <2>3, <2>4
  <1>4. f \in Injection(S, 0..N-1)
    BY <1>2, <1>3 DEF Injection, IsInjective
  <1>5. IsFiniteSet(0..N-1) /\ Cardinality(0..N-1) = N
    <2> HIDE DEF N
    <2>1. N - 1 \in Int /\ 0 \in Int
      BY <1>1
    <2>2. /\ IsFiniteSet(0..N-1)
          /\ Cardinality(0..N-1) = IF 0 > N - 1 THEN 0 ELSE (N - 1) - 0 + 1
      BY <2>1, FS_Interval
    <2> QED
      BY <1>1, <2>2
  <1>6. f \in Surjection(S, 0..N-1)
    BY <1>4, <1>5, FS_Injection
  <1>7. k \in 0..N-1
    BY <1>1
  <1> HIDE DEF N
  <1>8. \E i \in S : f[i] = k
    BY <1>6, <1>7 DEF Surjection
  <1> QED
    BY <1>8

\* A finite set of integers that is not empty has a largest and a smallest
\* element, and Max and Min are these.
LEMMA MaxMin ==
    ASSUME NEW S \in SUBSET Int, IsFiniteSet(S), S # {}
    PROVE  /\ Max(S) \in S /\ \A i \in S : i <= Max(S)
           /\ Min(S) \in S /\ \A i \in S : Min(S) <= i
  <1>1. Cardinality(S) \in Nat /\ Cardinality(S) # 0
    BY FS_CardinalityType, FS_EmptySet
  <1>2. PICK m \in S : Place(S, m) = Cardinality(S) - 1
    BY <1>1, PlacesTaken
  <1>3. PICK n \in S : Place(S, n) = 0
    BY <1>1, PlacesTaken
  <1>4. ASSUME NEW i \in S PROVE n <= i /\ i <= m
    <2>1. i < n => Place(S, i) < 0
      BY <1>3, PlaceGrows
    <2>2. m < i => Cardinality(S) - 1 < Place(S, i)
      BY <1>2, PlaceGrows
    <2>3. Place(S, i) \in Nat /\ Place(S, i) < Cardinality(S)
      BY PlaceGrows
    <2> QED
      BY <1>1, <2>1, <2>2, <2>3
  <1>5. \E x \in S : \A y \in S : x >= y
    BY <1>4
  <1>6. \E x \in S : \A y \in S : x =< y
    BY <1>4
  <1>7. Max(S) \in S /\ \A i \in S : Max(S) >= i
    BY <1>5 DEF Max
  <1>8. Min(S) \in S /\ \A i \in S : Min(S) =< i
    BY <1>6 DEF Min
  <1> QED
    BY <1>7, <1>8

------------------------------------------------------------------------------
(* The queue and the horizons *)

\* The queue holds predictions that are not evaluated, none of them twice.
LEMMA QueueIsPending ==
    ASSUME NEW rows, NEW n \in Nat, DOMAIN rows = 1..n, NEW limit
    PROVE  /\ Queue(rows, limit) \in Seq(Pending(rows))
           /\ \A k, l \in DOMAIN Queue(rows, limit) :
                  Queue(rows, limit)[k] = Queue(rows, limit)[l] => k = l
  <1> DEFINE head == {i \in Pending(rows) :
                          Cardinality({j \in Pending(rows) : j < i}) < limit}
             N == Cardinality(head)
             nth(k) == CHOOSE i \in head : Place(head, i) = k - 1
             q == [k \in 1..N |-> nth(k)]
  <1>1. Queue(rows, limit) = q
    BY DEF Queue, Place, Below
  <1>2. head \in SUBSET Pending(rows) /\ head \in SUBSET (1..n)
    BY DEF Pending
  <1>3. IsFiniteSet(head) /\ head \in SUBSET Int
    <2>1. IsFiniteSet(1..n)
      BY FS_Interval
    <2>2. head \in SUBSET Int
      BY <1>2
    <2> HIDE DEF head
    <2> QED
      BY <1>2, <2>1, <2>2, FS_Subset
  <1>4. N \in Nat
    <2> HIDE DEF head
    <2> QED
      BY <1>3, FS_CardinalityType
  <1> HIDE DEF head
  <1> HIDE DEF N
  <1>5. ASSUME NEW k \in 1..N PROVE nth(k) \in head /\ Place(head, nth(k)) = k - 1
    <2>1. k - 1 \in Nat /\ k - 1 < N
      BY <1>4
    <2>2. \E i \in head : Place(head, i) = k - 1
      BY <1>3, <2>1, PlacesTaken DEF N
    <2> QED
      BY <2>2
  <1> HIDE DEF nth
  <1>6. DOMAIN q = 1..N /\ \A k \in 1..N : q[k] = nth(k)
    OBVIOUS
  <1>7. \A k, l \in DOMAIN q : q[k] = q[l] => k = l
    <2> SUFFICES ASSUME NEW k \in 1..N, NEW l \in 1..N, nth(k) = nth(l) PROVE k = l
      BY <1>6
    <2>1. k - 1 = l - 1
      BY <1>5
    <2> QED
      BY <1>4, <2>1
  <1>8. q \in Seq(Pending(rows))
    <2>1. \A k \in 1..N : nth(k) \in Pending(rows)
      BY <1>2, <1>5
    <2> QED
      BY <1>4, <2>1
  <1> QED
    BY <1>1, <1>7, <1>8

\* The horizon at which a prediction is settled is one of the horizons, and the
\* longest.
LEMMA LongestHorizon ==
    /\ LongHorizon \in Horizons /\ LongHorizon \in Nat \ {0}
    /\ \A h \in Horizons : h <= LongHorizon
  <1>1. Horizons \in SUBSET Int /\ IsFiniteSet(Horizons) /\ Horizons # {}
    BY TrackerAssumption
  <1> QED
    BY <1>1, MaxMin, TrackerAssumption DEF LongHorizon

\* The horizon that has matured is one that has passed, or 0, and none that has
\* passed is longer.
LEMMA MaturedHorizon ==
    ASSUME NEW p, p.born \in Nat, NEW t \in Nat
    PROVE  /\ Matured(p, t) \in Horizons \cup {0} /\ Matured(p, t) \in Nat
           /\ Matured(p, t) # 0 => p.born + Matured(p, t) <= t
           /\ p.born + LongHorizon <= t => Matured(p, t) = LongHorizon
  <1> DEFINE passed == {h \in Horizons : p.born + h <= t}
             S == {0} \cup passed
  <1>1. /\ passed \in SUBSET Horizons /\ S \in SUBSET Int /\ S # {}
        /\ S \subseteq Nat /\ Horizons \subseteq Nat \ {0}
    <2>1. Horizons \subseteq Nat \ {0}
      BY TrackerAssumption
    <2>2. passed \in SUBSET Horizons /\ 0 \in S
      OBVIOUS
    <2>3. \A h \in S : h \in Nat
      BY <2>1
    <2> HIDE DEF S, passed
    <2> QED
      BY <2>1, <2>2, <2>3
  <1>2. IsFiniteSet(S)
    <2>1. IsFiniteSet(passed)
      BY <1>1, FS_Subset, TrackerAssumption
    <2>2. S = passed \cup {0}
      OBVIOUS
    <2> HIDE DEF S, passed
    <2> QED
      BY <2>1, <2>2, FS_AddElement
  <1>3. Matured(p, t) = Max(S)
    BY DEF Matured
  <1>4. /\ \A h \in S : h \in Horizons \cup {0}
        /\ \A h \in S : h # 0 => p.born + h <= t
        /\ p.born + LongHorizon <= t => LongHorizon \in S
    BY LongestHorizon
  <1> HIDE DEF S
  <1>5. Max(S) \in S /\ \A h \in S : h <= Max(S)
    BY <1>1, <1>2, MaxMin
  <1>6. p.born + LongHorizon <= t => Max(S) = LongHorizon
    <2> SUFFICES ASSUME p.born + LongHorizon <= t PROVE Max(S) = LongHorizon
      OBVIOUS
    <2>1. LongHorizon <= Max(S)
      BY <1>4, <1>5
    <2>2. Max(S) \in Horizons \/ Max(S) = 0
      BY <1>4, <1>5
    <2> QED
      <3> DEFINE m == Max(S)
      <3>1. LongHorizon <= m /\ (m \in Horizons \/ m = 0) /\ (m \in Horizons => m \in Nat)
        BY <1>1, <2>1, <2>2
      <3> HIDE DEF m
      <3>2. m = LongHorizon
        BY <3>1, LongestHorizon
      <3> QED
        BY <3>2 DEF m
  <1> QED
    BY <1>1, <1>3, <1>4, <1>5, <1>6

------------------------------------------------------------------------------
(* Outcomes *)

Outcomes == [span : Horizons \cup {0}, correct : {Unscored, 0, 1},
             hit : {"none", "stop", "target"}, pnl : Int]

PredictionRow == [direction : Directions, entry : Int, stop : Int, target : Int,
                  born : Nat, evaluated : BOOLEAN, outcome : Outcomes]

\* The first tick at which a level is reached is within the span.
LEMMA FirstHitWithin ==
    ASSUME NEW p, NEW path, NEW span \in Nat
    PROVE  FirstHit(p, path, span) \in 0..span
  <1> DEFINE Hits == {m \in 1..span :
                         \/ StopReached(p, PriceAt(path, p.born + m))
                         \/ TargetReached(p, PriceAt(path, p.born + m))}
  <1>1. FirstHit(p, path, span) = IF Hits = {} THEN 0 ELSE Min(Hits)
    BY DEF FirstHit
  <1>2. Hits \in SUBSET (1..span)
    OBVIOUS
  <1> HIDE DEF Hits
  <1>3. IsFiniteSet(Hits) /\ Hits \in SUBSET Int
    <2>1. IsFiniteSet(1..span)
      BY FS_Interval
    <2>2. IsFiniteSet(Hits)
      BY <1>2, <2>1, FS_Subset
    <2> QED
      BY <1>2, <2>2
  <1>4. Hits # {} => Min(Hits) \in 0..span
    <2>1. Hits # {} => Min(Hits) \in Hits
      BY <1>3, MaxMin
    <2>2. \A m \in Hits : m \in 0..span
      BY <1>2
    <2> QED
      BY <2>1, <2>2
  <1> QED
    BY <1>1, <1>4

\* The outcome depends on what was predicted and on the prices up to the end of
\* the span alone: not on what is known of the outcome, nor on later prices.
LEMMA SameOutcome ==
    ASSUME NEW p, NEW r, NEW P, NEW Q, NEW span \in Nat, NEW final,
           /\ r.direction = p.direction /\ r.entry = p.entry /\ r.stop = p.stop
           /\ r.target = p.target /\ r.born = p.born,
           \A m \in 0..span : PriceAt(Q, p.born + m) = PriceAt(P, p.born + m)
    PROVE  OutcomeAt(r, Q, span, final) = OutcomeAt(p, P, span, final)
  <1>1. Sign(r) = Sign(p)
    BY DEF Sign
  <1>2. \A px : StopReached(r, px) = StopReached(p, px)
                /\ TargetReached(r, px) = TargetReached(p, px)
    BY <1>1 DEF StopReached, TargetReached
  <1> DEFINE Hits(x, path) == {m \in 1..span :
                                  \/ StopReached(x, PriceAt(path, x.born + m))
                                  \/ TargetReached(x, PriceAt(path, x.born + m))}
  <1>3. Hits(r, Q) = Hits(p, P)
    BY <1>2
  <1>4. /\ FirstHit(r, Q, span) = IF Hits(r, Q) = {} THEN 0 ELSE Min(Hits(r, Q))
        /\ FirstHit(p, P, span) = IF Hits(p, P) = {} THEN 0 ELSE Min(Hits(p, P))
    BY DEF FirstHit
  <1> HIDE DEF Hits
  <1>5. FirstHit(r, Q, span) = FirstHit(p, P, span)
    BY <1>3, <1>4
  <1>6. FirstHit(p, P, span) \in 0..span
    BY FirstHitWithin
  <1> DEFINE first == FirstHit(p, P, span)
  <1>7. PriceAt(Q, r.born + first) = PriceAt(P, p.born + first)
    BY <1>6
  <1>8. StopReached(r, PriceAt(Q, r.born + first))
          = StopReached(p, PriceAt(P, p.born + first))
    BY <1>2, <1>7
  <1> QED
    BY <1>1, <1>5, <1>8 DEF OutcomeAt

\* An outcome is an outcome.
LEMMA OutcomeTyped ==
    ASSUME NEW p \in PredictionRow, NEW path, NEW span \in Horizons \cup {0},
           NEW final \in Int
    PROVE  /\ OutcomeAt(p, path, span, final) \in Outcomes
           /\ OutcomeAt(p, path, span, final).span = span
  <1>1. Sign(p) \in Int /\ p.entry \in Int /\ p.stop \in Int /\ p.target \in Int
    BY DEF Sign, PredictionRow
  <1>2. \A x \in Int : Sign(p) * (x - p.entry) \in Int
    BY <1>1
  <1> QED
    BY <1>1, <1>2 DEF OutcomeAt, NoOutcome, Outcomes, Unscored

------------------------------------------------------------------------------
(* The inductive invariant *)

EvaluationTyped ==
    /\ ProcessOK
    /\ step \in {"idle", "scan", "evaluate"}
    /\ step # "idle" => now \in Nat
    /\ price \in Seq(Levels \cup {0}) /\ Len(price) = clock + 1
    /\ preds \in Seq(PredictionRow) /\ Len(preds) <= MaxRows
    /\ \A i \in DOMAIN preds : preds[i].born <= clock
    /\ givenUp \subseteq DOMAIN preds

\* What is left of the queue is still to be evaluated, each prediction once.
QueueFresh ==
    /\ queue \in Seq(Nat)
    /\ \A k \in DOMAIN queue : queue[k] \in Pending(preds)
    /\ \A k, l \in DOMAIN queue : queue[k] = queue[l] => k = l

\* A settled prediction was settled after its last horizon, with the outcome
\* the whole horizon gives.
SettledAtEnd ==
    \A i \in DOMAIN preds :
        preds[i].evaluated /\ i \notin givenUp =>
            /\ preds[i].born + LongHorizon <= clock
            /\ preds[i].outcome = Outcome(preds[i], price, preds[i].born + LongHorizon)

EvaluationInv == EvaluationTyped /\ QueueFresh /\ SettledAtEnd

\* The constants, one by one.
LEMMA EvaluationBounds ==
    /\ MaxClock \in Nat /\ MaxFaults \in Nat /\ MaxCrashes \in Nat
    /\ MaxRows \in Nat /\ FreshSymbols \in Nat /\ Levels \subseteq Int
    /\ Horizons \subseteq Nat \ {0}
  BY ProcessAssumption, EvaluationAssumption, TrackerAssumption

\* The process starts within its bounds.
LEMMA ProcessStarts ==
    ASSUME ProcessInit
    PROVE  ProcessOK /\ step = "idle" /\ clock = 0
  <1>1. /\ clock = 0 /\ up = FALSE /\ step = "idle" /\ now = -1
        /\ faults = 0 /\ crashes = 0
    BY DEF ProcessInit, NoTime
  <1>2. 0 \in 0..MaxClock /\ 0 \in 0..MaxFaults /\ 0 \in 0..MaxCrashes /\ -1 \in -1..0
    BY EvaluationBounds
  <1> QED
    BY <1>1, <1>2 DEF ProcessOK

LEMMA InitEvaluations == EvaluationInit => EvaluationInv
  <1> SUFFICES ASSUME EvaluationInit PROVE EvaluationInv
    OBVIOUS
  <1>1. ProcessOK /\ step = "idle" /\ clock = 0
    BY ProcessStarts DEF EvaluationInit
  <1>2. preds = <<>> /\ queue = <<>> /\ givenUp = {} /\ price = <<0>>
    BY DEF EvaluationInit
  <1>3. EvaluationTyped
    BY <1>1, <1>2, EvaluationBounds DEF EvaluationTyped
  <1>4. QueueFresh /\ SettledAtEnd
    BY <1>2 DEF QueueFresh, SettledAtEnd
  <1> QED
    BY <1>3, <1>4 DEF EvaluationInv

------------------------------------------------------------------------------
(* The steps *)

\* The process stays within its bounds, whatever it does.
LEMMA ProcessMoves ==
    ASSUME ProcessOK,
           \/ Elapse \/ Up \/ Down \/ UNCHANGED process
           \/ \E s : Wake(s) \/ Go(s) \/ Swallow(s)
    PROVE  /\ ProcessOK'
           /\ clock <= clock' /\ clock' \in Nat /\ clock \in Nat
           /\ now' # now => now' \in {NoTime, clock}
           /\ clock' # clock => clock' = clock + 1
  <1>1. /\ clock \in 0..MaxClock /\ up \in BOOLEAN /\ now \in -1..clock
        /\ faults \in 0..MaxFaults /\ crashes \in 0..MaxCrashes
        /\ MaxClock \in Nat /\ MaxFaults \in Nat /\ MaxCrashes \in Nat
    BY EvaluationBounds DEF ProcessOK
  <1>2. CASE Elapse
    BY <1>1, <1>2 DEF Elapse, ProcessOK
  <1>3. CASE Up
    <2>1. up' \in BOOLEAN /\ UNCHANGED <<clock, now, faults, crashes>>
      BY <1>3 DEF Up
    <2> QED
      BY <1>1, <2>1 DEF ProcessOK
  <1>4. CASE Down
    <2>1. up' \in BOOLEAN
      BY <1>4 DEF Down
    <2>2. /\ now' = -1 /\ crashes < MaxCrashes /\ crashes' = crashes + 1
          /\ UNCHANGED <<clock, faults>>
      BY <1>4 DEF Down, NoTime
    <2>3. crashes' \in 0..MaxCrashes /\ now' \in -1..clock'
      BY <1>1, <2>2
    <2> QED
      BY <1>1, <2>1, <2>2, <2>3 DEF ProcessOK, NoTime
  <1>6. CASE UNCHANGED process
    <2>1. UNCHANGED <<clock, up, now, faults, crashes>>
      BY <1>6 DEF process
    <2> QED
      BY <1>1, <2>1 DEF ProcessOK
  <1>5. ASSUME NEW s, Wake(s) \/ Go(s) \/ Swallow(s)
        PROVE  /\ ProcessOK' /\ clock' = clock
               /\ now' # now => now' = clock
    <2>1. CASE Wake(s)
      BY <1>1, <2>1 DEF Wake, ProcessOK
    <2>2. CASE Go(s)
      BY <1>1, <2>2 DEF Go, ProcessOK
    <2>3. CASE Swallow(s)
      BY <1>1, <2>3 DEF Swallow, ProcessOK
    <2> QED
      BY <1>5, <2>1, <2>2, <2>3
  <1> QED
    BY <1>1, <1>2, <1>3, <1>4, <1>5, <1>6

\* Taking the first prediction off the queue leaves the others, once each.
LEMMA RestOfQueue ==
    ASSUME QueueFresh, queue # <<>>
    PROVE  /\ Head(queue) \in Pending(preds)
           /\ Tail(queue) \in Seq(Nat)
           /\ \A k \in DOMAIN Tail(queue) : /\ Tail(queue)[k] \in Pending(preds)
                                            /\ Tail(queue)[k] # Head(queue)
           /\ \A k, l \in DOMAIN Tail(queue) : Tail(queue)[k] = Tail(queue)[l] => k = l
  <1>1. queue \in Seq(Nat) /\ Len(queue) \in Nat \ {0} /\ DOMAIN queue = 1..Len(queue)
    BY DEF QueueFresh
  <1>2. /\ Head(queue) = queue[1] /\ Tail(queue) \in Seq(Nat)
        /\ DOMAIN Tail(queue) = 1..(Len(queue) - 1)
        /\ \A k \in 1..(Len(queue) - 1) : Tail(queue)[k] = queue[k + 1]
    BY <1>1
  <1>3. \A k \in 1..(Len(queue) - 1) : k + 1 \in DOMAIN queue /\ k + 1 # 1
    BY <1>1
  <1>4. 1 \in DOMAIN queue
    BY <1>1
  <1>5. \A k \in DOMAIN Tail(queue) : /\ Tail(queue)[k] \in Pending(preds)
                                      /\ Tail(queue)[k] # Head(queue)
    BY <1>2, <1>3, <1>4 DEF QueueFresh
  <1>6. ASSUME NEW k \in DOMAIN Tail(queue), NEW l \in DOMAIN Tail(queue),
               Tail(queue)[k] = Tail(queue)[l]
        PROVE  k = l
    <2>1. k + 1 = l + 1
      BY <1>2, <1>3, <1>6 DEF QueueFresh
    <2> QED
      BY <1>2, <2>1
  <1> QED
    BY <1>2, <1>4, <1>5, <1>6 DEF QueueFresh

\* A step that writes neither a price nor a prediction keeps the invariant, if
\* the queue gets no longer.
LEMMA QuietStep ==
    ASSUME EvaluationInv, ProcessOK', clock' = clock,
           UNCHANGED <<price, preds, givenUp>>,
           step' \in {"idle", "scan", "evaluate"}, step' # "idle" => now' \in Nat,
           \/ queue' = queue \/ queue' = <<>>
           \/ queue # <<>> /\ queue' = Tail(queue)
    PROVE  EvaluationInv'
  <1>1. EvaluationTyped'
    BY DEF EvaluationInv, EvaluationTyped
  <1>2. QueueFresh'
    <2>1. CASE queue' = queue
      BY <2>1 DEF EvaluationInv, QueueFresh, Pending
    <2>3. CASE queue' = <<>>
      BY <2>3 DEF QueueFresh
    <2>2. CASE queue # <<>> /\ queue' = Tail(queue)
      BY <2>2, RestOfQueue DEF EvaluationInv, QueueFresh, Pending
    <2> QED
      BY <2>1, <2>2, <2>3
  <1>3. SettledAtEnd'
    BY DEF EvaluationInv, SettledAtEnd
  <1> QED
    BY <1>1, <1>2, <1>3 DEF EvaluationInv

\* The outcome over the whole horizon.
LEMMA WholeHorizon ==
    ASSUME NEW p, p.born \in Nat, NEW path
    PROVE  Outcome(p, path, p.born + LongHorizon)
             = OutcomeAt(p, path, LongHorizon, PriceAt(path, p.born + LongHorizon))
  <1>1. p.born + LongHorizon \in Nat
    BY LongestHorizon
  <1>2. Matured(p, p.born + LongHorizon) = LongHorizon
    BY <1>1, MaturedHorizon
  <1> QED
    BY <1>2 DEF Outcome

\* The prices known at a tick are integers.
LEMMA PricesKnown ==
    ASSUME EvaluationTyped
    PROVE  /\ clock \in Nat /\ now \in -1..clock
           /\ \A t \in 0..clock : PriceAt(price, t) \in Int
  <1>1. clock \in Nat /\ now \in -1..clock
    BY EvaluationBounds DEF EvaluationTyped, ProcessOK
  <1>2. ASSUME NEW t \in 0..clock PROVE price[t + 1] \in Int
    <2>1. price \in Seq(Levels \cup {0}) /\ t + 1 \in 1..Len(price)
      BY <1>1 DEF EvaluationTyped
    <2>2. price[t + 1] \in Levels \cup {0}
      BY <2>1
    <2>3. \A x \in Levels \cup {0} : x \in Int
      BY EvaluationBounds
    <2> QED
      BY <2>2, <2>3
  <1> QED
    BY <1>1, <1>2 DEF PriceAt

\* A prediction is a row.
LEMMA RowsTyped ==
    ASSUME EvaluationTyped, NEW i \in DOMAIN preds
    PROVE  /\ preds[i] \in PredictionRow
           /\ preds[i].born \in Nat /\ preds[i].born <= clock
  <1>1. preds \in Seq(PredictionRow) /\ DOMAIN preds = 1..Len(preds)
    BY DEF EvaluationTyped
  <1>2. preds[i] \in PredictionRow
    BY <1>1
  <1> QED
    BY <1>2 DEF PredictionRow, EvaluationTyped

\* Time passes: what is settled lies in the past, and the past stays.
LEMMA PriceMovesKeeps == EvaluationInv /\ PriceMoves => EvaluationInv'
  <1> SUFFICES ASSUME EvaluationInv, PriceMoves PROVE EvaluationInv'
    OBVIOUS
  <1>1. PICK l \in Levels : price' = Append(price, l)
    BY DEF PriceMoves
  <1>2. /\ Elapse /\ UNCHANGED <<preds, queue, givenUp>>
        /\ step' = step /\ step = "idle" /\ clock' = clock + 1
    BY DEF PriceMoves, Elapse
  <1>3. ProcessOK' /\ clock \in Nat
    BY <1>2, ProcessMoves DEF EvaluationInv, EvaluationTyped
  <1>4. /\ price' \in Seq(Levels \cup {0}) /\ Len(price') = clock' + 1
        /\ \A t \in 0..clock : PriceAt(price', t) = PriceAt(price, t)
    <2>1. price \in Seq(Levels \cup {0}) /\ Len(price) = clock + 1
      BY DEF EvaluationInv, EvaluationTyped
    <2>2. \A k \in 1..Len(price) : price'[k] = price[k]
      BY <1>1, <2>1
    <2>3. \A t \in 0..clock : t + 1 \in 1..Len(price)
      BY <1>3, <2>1
    <2>4. \A t \in 0..clock : PriceAt(price', t) = PriceAt(price, t)
      BY <2>2, <2>3 DEF PriceAt
    <2>5. Len(price') = clock' + 1
      BY <1>1, <1>2, <1>3, <2>1
    <2>6. price' \in Seq(Levels \cup {0})
      BY <1>1, <2>1
    <2> QED
      BY <2>4, <2>5, <2>6
  <1>5. EvaluationTyped'
    <2>1. \A i \in DOMAIN preds : preds[i].born \in Nat /\ preds[i].born <= clock
      BY RowsTyped DEF EvaluationInv
    <2>2. \A i \in DOMAIN preds : preds[i].born <= clock'
      BY <1>2, <1>3, <2>1
    <2> QED
      BY <1>2, <1>3, <1>4, <2>2 DEF EvaluationInv, EvaluationTyped
  <1>6. QueueFresh'
    BY <1>2 DEF EvaluationInv, QueueFresh, Pending
  <1>7. SettledAtEnd'
    <2> SUFFICES ASSUME NEW i \in DOMAIN preds, preds[i].evaluated, i \notin givenUp
                 PROVE  /\ preds[i].born + LongHorizon <= clock + 1
                        /\ preds[i].outcome
                             = Outcome(preds[i], price', preds[i].born + LongHorizon)
      BY <1>2 DEF SettledAtEnd
    <2>1. preds[i] \in PredictionRow /\ preds[i].born \in Nat
      BY RowsTyped DEF EvaluationInv
    <2>2. /\ preds[i].born + LongHorizon <= clock
          /\ preds[i].outcome = Outcome(preds[i], price, preds[i].born + LongHorizon)
      BY DEF EvaluationInv, SettledAtEnd
    <2>3. \A m \in 0..LongHorizon : PriceAt(price', preds[i].born + m)
                                      = PriceAt(price, preds[i].born + m)
      BY <1>3, <1>4, <2>1, <2>2, LongestHorizon
    <2>4. LongHorizon \in 0..LongHorizon /\ LongHorizon \in Nat
      BY LongestHorizon
    <2>5. PriceAt(price', preds[i].born + LongHorizon)
            = PriceAt(price, preds[i].born + LongHorizon)
      BY <2>3, <2>4
    <2>6. Outcome(preds[i], price', preds[i].born + LongHorizon)
            = Outcome(preds[i], price, preds[i].born + LongHorizon)
      BY <2>1, <2>3, <2>4, <2>5, WholeHorizon, SameOutcome
    <2> QED
      BY <1>3, <2>1, <2>2, <2>4, <2>6
  <1> QED
    BY <1>5, <1>6, <1>7 DEF EvaluationInv

\* A new prediction is a row.
LEMMA PredictionTyped ==
    ASSUME EvaluationTyped, now \in Nat, NEW d \in Directions
    PROVE  /\ Prediction(d) \in PredictionRow
           /\ ~Prediction(d).evaluated /\ Prediction(d).born = now
  <1> DEFINE px == PriceAt(price, now)
             sign == CASE d = "buy" -> 1 [] d = "sell" -> -1 [] d = "hold" -> 0
  <1>1. px \in Int
    BY PricesKnown
  <1>2. sign \in Int
    BY DEF Directions
  <1>3. Prediction(d) = [direction |-> d, entry |-> px, stop |-> px - sign,
                         target |-> px + sign, born |-> now, evaluated |-> FALSE,
                         outcome |-> NoOutcome]
    BY DEF Prediction
  <1>4. NoOutcome \in Outcomes
    BY DEF NoOutcome, Outcomes, Unscored
  <1> HIDE DEF px, sign
  <1> QED
    BY <1>1, <1>2, <1>3, <1>4 DEF PredictionRow

\* The batch of the scan adds rows that are not evaluated, and the queue is read
\* from what is then in the table.
LEMMA ScanStoredKeeps == EvaluationInv /\ ScanStored => EvaluationInv'
  <1> SUFFICES ASSUME EvaluationInv, ScanStored PROVE EvaluationInv'
    OBVIOUS
  <1>1. /\ At("scan") /\ Go("evaluate") /\ price' = price /\ givenUp' = givenUp
        /\ queue' = Queue(preds', EvalPerCycle)
    BY DEF ScanStored
  <1>0. PICK n \in 0..Min({FreshSymbols, MaxRows - Len(preds)}) :
            \E ds \in [1..n -> Directions] :
               preds' = preds \o [i \in 1..n |-> Prediction(ds[i])]
    BY DEF ScanStored
  <1>2. PICK ds \in [1..n -> Directions] :
            preds' = preds \o [i \in 1..n |-> Prediction(ds[i])]
    BY <1>0
  <1> DEFINE new == [i \in 1..n |-> Prediction(ds[i])]
  <1>3. preds \in Seq(PredictionRow) /\ Len(preds) \in Nat /\ Len(preds) <= MaxRows
    BY DEF EvaluationInv, EvaluationTyped
  <1>4. n \in Nat /\ n <= MaxRows - Len(preds)
    <2> DEFINE a == FreshSymbols
               b == MaxRows - Len(preds)
    <2>1. a \in Int /\ b \in Int
      BY <1>3, EvaluationBounds
    <2> HIDE DEF a, b
    <2>2. IsFiniteSet({a, b}) /\ {a, b} \in SUBSET Int /\ {a, b} # {}
      <3>1. IsFiniteSet({a} \cup {b}) /\ {a} \cup {b} = {a, b}
        BY FS_Singleton, FS_AddElement
      <3> QED
        BY <2>1, <3>1
    <2>3. Min({a, b}) \in Int /\ Min({a, b}) <= b
      BY <2>1, <2>2, MaxMin
    <2>4. n \in 0..Min({a, b})
      BY <1>2 DEF a, b
    <2>5. n \in Nat /\ n <= b
      BY <2>1, <2>3, <2>4
    <2> QED
      BY <2>5 DEF b
  <1>5. now \in Nat /\ now <= clock
    BY <1>1, PricesKnown DEF At, EvaluationInv, EvaluationTyped
  <1>6. ASSUME NEW i \in 1..n
        PROVE  /\ new[i] \in PredictionRow
               /\ ~new[i].evaluated /\ new[i].born = now
    BY <1>2, <1>5, PredictionTyped DEF EvaluationInv
  <1>7. new \in Seq(PredictionRow) /\ Len(new) = n
    BY <1>4, <1>6
  <1> HIDE DEF new
  <1>8. /\ preds' \in Seq(PredictionRow) /\ Len(preds') = Len(preds) + n
        /\ \A i \in 1..Len(preds) : preds'[i] = preds[i]
        /\ \A i \in 1..Len(preds') : i \notin 1..Len(preds) =>
               i - Len(preds) \in 1..n /\ preds'[i] = new[i - Len(preds)]
    BY <1>2, <1>3, <1>4, <1>7 DEF new
  <1>9. DOMAIN preds = 1..Len(preds) /\ DOMAIN preds' = 1..Len(preds')
        /\ DOMAIN preds \subseteq DOMAIN preds'
    BY <1>3, <1>4, <1>8
  <1>10. \A i \in DOMAIN preds' :
            \/ i \in DOMAIN preds /\ preds'[i] = preds[i]
            \/ ~preds'[i].evaluated /\ preds'[i].born = now
    BY <1>6, <1>8, <1>9
  <1>11. ProcessOK' /\ clock' = clock /\ now' = now /\ step' = "evaluate"
    BY <1>1, ProcessMoves DEF Go, EvaluationInv, EvaluationTyped
  <1>12. EvaluationTyped'
    <2>1. \A i \in DOMAIN preds' : preds'[i].born <= clock
      BY <1>5, <1>10, RowsTyped DEF EvaluationInv
    <2>2. Len(preds') <= MaxRows
      BY <1>3, <1>4, <1>8, EvaluationBounds
    <2>3. givenUp' \subseteq DOMAIN preds'
      BY <1>1, <1>9 DEF EvaluationInv, EvaluationTyped
    <2> QED
      BY <1>1, <1>5, <1>8, <1>11, <2>1, <2>2, <2>3 DEF EvaluationInv, EvaluationTyped
  <1>13. QueueFresh'
    <2>1. Len(preds') \in Nat
      BY <1>3, <1>4, <1>8
    <2>2. /\ queue' \in Seq(Pending(preds'))
          /\ \A k, l \in DOMAIN queue' : queue'[k] = queue'[l] => k = l
      BY <1>1, <1>9, <2>1, QueueIsPending
    <2>3. Pending(preds') \subseteq Nat
      BY <1>9 DEF Pending
    <2>4. queue' \in Seq(Nat) /\ \A k \in DOMAIN queue' : queue'[k] \in Pending(preds')
      BY <2>2, <2>3
    <2> QED
      BY <2>2, <2>4 DEF QueueFresh, Pending
  <1>14. SettledAtEnd'
    BY <1>1, <1>10, <1>11 DEF EvaluationInv, SettledAtEnd
  <1> QED
    BY <1>12, <1>13, <1>14 DEF EvaluationInv

\* The prediction at the head of the queue is worked on: whatever is written to
\* it, the rest of the queue is of other predictions.
LEMMA HeadWritten ==
    ASSUME EvaluationInv, queue # <<>>, queue' = Tail(queue),
           NEW row, preds' = [preds EXCEPT ![Head(queue)] = row]
    PROVE  /\ Head(queue) \in DOMAIN preds /\ ~preds[Head(queue)].evaluated
           /\ DOMAIN preds' = DOMAIN preds /\ preds'[Head(queue)] = row
           /\ \A i \in DOMAIN preds \ {Head(queue)} : preds'[i] = preds[i]
           /\ QueueFresh'
  <1>1. Head(queue) \in DOMAIN preds /\ ~preds[Head(queue)].evaluated
    BY RestOfQueue DEF EvaluationInv, Pending
  <1>2. /\ DOMAIN preds' = DOMAIN preds /\ preds'[Head(queue)] = row
        /\ \A i \in DOMAIN preds \ {Head(queue)} : preds'[i] = preds[i]
    BY <1>1
  <1>3. \A i \in Pending(preds) : i # Head(queue) => i \in Pending(preds')
    BY <1>2 DEF Pending
  <1>4. \A k \in DOMAIN queue' : queue'[k] \in Pending(preds')
    BY <1>3, RestOfQueue DEF EvaluationInv
  <1>5. queue' \in Seq(Nat) /\ \A k, l \in DOMAIN queue' : queue'[k] = queue'[l] => k = l
    BY RestOfQueue DEF EvaluationInv
  <1> QED
    BY <1>1, <1>2, <1>4, <1>5 DEF QueueFresh, Pending

\* Writing a row of the table to the head of the queue keeps the types.
LEMMA RowWritten ==
    ASSUME EvaluationInv, queue # <<>>, queue' = Tail(queue),
           NEW row \in PredictionRow, row.born = preds[Head(queue)].born,
           preds' = [preds EXCEPT ![Head(queue)] = row],
           UNCHANGED <<process, price>>, givenUp' \subseteq givenUp \cup {Head(queue)}
    PROVE  EvaluationTyped'
  <1>1. ProcessOK' /\ UNCHANGED <<clock, step, now>>
    BY DEF EvaluationInv, EvaluationTyped, process, ProcessOK
  <1>2. preds \in Seq(PredictionRow) /\ Head(queue) \in DOMAIN preds
    BY HeadWritten DEF EvaluationInv, EvaluationTyped
  <1>3. preds' \in Seq(PredictionRow) /\ Len(preds') = Len(preds)
    BY <1>2
  <1>4. \A j \in DOMAIN preds' : preds'[j].born <= clock
    <2> SUFFICES ASSUME NEW j \in DOMAIN preds' PROVE preds'[j].born <= clock
      OBVIOUS
    <2>1. j \in DOMAIN preds /\ preds'[j].born = preds[j].born
      BY HeadWritten
    <2> QED
      BY <2>1, RowsTyped DEF EvaluationInv
  <1>5. givenUp' \subseteq DOMAIN preds'
    BY <1>2, HeadWritten DEF EvaluationInv, EvaluationTyped
  <1> QED
    BY <1>1, <1>3, <1>4, <1>5 DEF EvaluationInv, EvaluationTyped

\* A prediction is evaluated over the longest horizon that has passed, and
\* settled if that is the longest of all.
LEMMA EvaluateKeeps == EvaluationInv /\ Evaluate => EvaluationInv'
  <1> SUFFICES ASSUME EvaluationInv, Evaluate PROVE EvaluationInv'
    OBVIOUS
  <1> DEFINE h == Head(queue)
             p == preds[h]
             outcome == Outcome(p, price, now)
             row == [p EXCEPT !.outcome = outcome, !.evaluated = (outcome.span = LongHorizon)]
  <1>1. /\ queue # <<>> /\ queue' = Tail(queue) /\ Mature
        /\ UNCHANGED <<process, price, givenUp>> /\ step = "evaluate"
        /\ preds' = [preds EXCEPT ![h].outcome = outcome,
                                  ![h].evaluated = (outcome.span = LongHorizon)]
    BY DEF Evaluate, Evaluating, At
  <1>2. h \in DOMAIN preds /\ ~p.evaluated
    BY <1>1, RestOfQueue DEF EvaluationInv, Pending
  <1>3. /\ p \in PredictionRow /\ p.born \in Nat
        /\ now \in Nat /\ now <= clock /\ clock \in Nat
    BY <1>1, <1>2, RowsTyped, PricesKnown DEF EvaluationInv, EvaluationTyped
  <1> DEFINE span == Matured(p, now)
  <1>4. span \in Horizons /\ span \in Nat /\ p.born + span <= now /\ span > 0
    <2>1. span # 0 /\ span \in Nat
      BY <1>1, <1>3, MaturedHorizon DEF Mature
    <2> QED
      BY <1>3, <2>1, MaturedHorizon
  <1>5. outcome \in Outcomes /\ outcome.span = span
    <2>1. PriceAt(price, p.born + span) \in Int
      BY <1>3, <1>4, PricesKnown DEF EvaluationInv
    <2>2. outcome = OutcomeAt(p, price, span, PriceAt(price, p.born + span))
      BY DEF Outcome
    <2> HIDE DEF p, span, outcome
    <2> QED
      BY <1>3, <1>4, <2>1, <2>2, OutcomeTyped
  <1> HIDE DEF outcome
  <1>6. /\ row \in PredictionRow /\ row.outcome = outcome
        /\ row.evaluated = (outcome.span = LongHorizon)
        /\ row.direction = p.direction /\ row.entry = p.entry /\ row.stop = p.stop
        /\ row.target = p.target /\ row.born = p.born
    BY <1>3, <1>5 DEF PredictionRow
  <1>7. preds' = [preds EXCEPT ![h] = row]
    BY <1>1, <1>2
  <1> HIDE DEF h, p, row, span
  <1>8. EvaluationTyped'
    BY <1>1, <1>6, <1>7, RowWritten DEF h, p
  <1>9. /\ QueueFresh' /\ DOMAIN preds' = DOMAIN preds /\ preds'[h] = row
        /\ \A i \in DOMAIN preds \ {h} : preds'[i] = preds[i]
    BY <1>1, <1>7, HeadWritten DEF h
  <1>10. SettledAtEnd'
    <2>1. UNCHANGED <<clock, price, givenUp>>
      BY <1>1 DEF process
    <2> SUFFICES ASSUME NEW i \in DOMAIN preds', preds'[i].evaluated, i \notin givenUp
                 PROVE  /\ preds'[i].born + LongHorizon <= clock
                        /\ preds'[i].outcome
                             = Outcome(preds'[i], price, preds'[i].born + LongHorizon)
      BY <2>1 DEF SettledAtEnd
    <2>2. CASE i # h
      BY <1>9, <2>2 DEF EvaluationInv, SettledAtEnd
    <2>3. CASE i = h
      <3>1. preds'[i] = row /\ span = LongHorizon
        BY <1>5, <1>6, <1>9, <2>3
      <3>2. row.born + LongHorizon <= clock
        BY <1>3, <1>4, <1>6, <3>1
      <3>3. outcome = Outcome(p, price, p.born + LongHorizon)
        <4>1. outcome = OutcomeAt(p, price, span, PriceAt(price, p.born + span))
          BY DEF outcome, Outcome, span
        <4> QED
          BY <1>3, <3>1, <4>1, WholeHorizon
      <3>4. Outcome(row, price, row.born + LongHorizon)
              = Outcome(p, price, p.born + LongHorizon)
        <4>1. OutcomeAt(row, price, LongHorizon, PriceAt(price, p.born + LongHorizon))
                = OutcomeAt(p, price, LongHorizon, PriceAt(price, p.born + LongHorizon))
          BY <1>6, LongestHorizon, SameOutcome
        <4>2. row.born \in Nat
          BY <1>3, <1>6
        <4> QED
          BY <1>3, <1>6, <4>1, <4>2, WholeHorizon
      <3> QED
        BY <1>6, <3>1, <3>2, <3>3, <3>4
    <2> QED
      BY <2>2, <2>3
  <1> QED
    BY <1>8, <1>9, <1>10 DEF EvaluationInv

\* A prediction that is given up is remembered as such.
LEMMA GiveUpKeeps == EvaluationInv /\ GiveUp => EvaluationInv'
  <1> SUFFICES ASSUME EvaluationInv, GiveUp PROVE EvaluationInv'
    OBVIOUS
  <1> DEFINE h == Head(queue)
             row == [preds[h] EXCEPT !.evaluated = TRUE]
  <1>1. /\ queue # <<>> /\ queue' = Tail(queue) /\ givenUp' = givenUp \cup {h}
        /\ UNCHANGED <<process, price>>
        /\ preds' = [preds EXCEPT ![h].evaluated = TRUE]
    BY DEF GiveUp, Evaluating
  <1>2. h \in DOMAIN preds
    BY <1>1, RestOfQueue DEF EvaluationInv, Pending
  <1>3. row \in PredictionRow /\ row.born = preds[h].born
    BY <1>2, RowsTyped DEF EvaluationInv, PredictionRow
  <1>4. preds' = [preds EXCEPT ![h] = row]
    BY <1>1, <1>2
  <1> HIDE DEF h, row
  <1>5. EvaluationTyped'
    BY <1>1, <1>3, <1>4, RowWritten DEF h
  <1>6. /\ QueueFresh' /\ DOMAIN preds' = DOMAIN preds
        /\ \A i \in DOMAIN preds \ {h} : preds'[i] = preds[i]
    BY <1>1, <1>4, HeadWritten DEF h
  <1>7. SettledAtEnd'
    <2>1. UNCHANGED <<clock, price>>
      BY <1>1 DEF process
    <2> QED
      BY <1>1, <1>6, <2>1 DEF EvaluationInv, SettledAtEnd
  <1> QED
    BY <1>5, <1>6, <1>7 DEF EvaluationInv

LEMMA EvaluationStep == EvaluationInv /\ [EvaluationNext]_evaluationVars => EvaluationInv'
  <1> SUFFICES ASSUME EvaluationInv, [EvaluationNext]_evaluationVars PROVE EvaluationInv'
    OBVIOUS
  <1>1. /\ ProcessOK /\ step \in {"idle", "scan", "evaluate"} /\ (step # "idle" => now \in Nat)
        /\ clock \in Nat
    BY PricesKnown DEF EvaluationInv, EvaluationTyped
  <1>2. CASE PriceMoves
    BY <1>2, PriceMovesKeeps
  <1>3. CASE ScanStored
    BY <1>3, ScanStoredKeeps
  <1>4. CASE Evaluate
    BY <1>4, EvaluateKeeps
  <1>5. CASE GiveUp
    BY <1>5, GiveUpKeeps
  <1>6. CASE EvaluatorStarts \/ UNCHANGED evaluationVars
    <2>1. /\ Up \/ UNCHANGED process
          /\ UNCHANGED <<clock, step, now, price, preds, queue, givenUp>>
      BY <1>6 DEF EvaluatorStarts, Up, evaluationVars, process
    <2>2. ProcessOK'
      BY <1>1, <2>1, ProcessMoves
    <2> QED
      BY <1>1, <2>1, <2>2, QuietStep
  <1>7. CASE EvaluatorDies
    <2>1. /\ Down /\ queue' = <<>> /\ UNCHANGED <<price, preds, givenUp>>
          /\ step' = "idle" /\ clock' = clock
      BY <1>7 DEF EvaluatorDies, Down
    <2>2. ProcessOK'
      BY <1>1, <2>1, ProcessMoves
    <2> QED
      BY <2>1, <2>2, QuietStep
  <1>8. CASE EvaluatorWakes
    <2>1. /\ Wake("scan") /\ UNCHANGED <<price, preds, queue, givenUp>>
          /\ step' = "scan" /\ clock' = clock /\ now' = clock
      BY <1>8 DEF EvaluatorWakes, Wake
    <2>2. ProcessOK'
      BY <1>1, <2>1, ProcessMoves
    <2> QED
      BY <1>1, <2>1, <2>2, QuietStep
  <1>9. CASE ScanLost
    <2>1. /\ Swallow("idle") /\ UNCHANGED <<price, preds, queue, givenUp>>
          /\ step' = "idle" /\ clock' = clock
      BY <1>9 DEF ScanLost, Raise, Swallow
    <2>2. ProcessOK'
      BY <1>1, <2>1, ProcessMoves
    <2> QED
      BY <2>1, <2>2, QuietStep
  <1>10. CASE Premature
    <2>1. /\ UNCHANGED <<process, price, preds, givenUp>>
          /\ queue # <<>> /\ queue' = Tail(queue)
      BY <1>10 DEF Premature, Evaluating
    <2>2. UNCHANGED <<clock, step, now>>
      BY <2>1 DEF process
    <2>3. ProcessOK'
      BY <1>1, <2>1, ProcessMoves
    <2> QED
      BY <1>1, <2>1, <2>2, <2>3, QuietStep
  <1>11. CASE GiveUpLost
    <2>1. /\ Swallow("evaluate") /\ UNCHANGED <<price, preds, givenUp>>
          /\ queue # <<>> /\ queue' = Tail(queue)
          /\ step' = "evaluate" /\ step = "evaluate" /\ clock' = clock /\ now' = now
      BY <1>11 DEF GiveUpLost, Evaluating, At, Swallow
    <2>2. ProcessOK'
      BY <1>1, <2>1, ProcessMoves
    <2> QED
      BY <1>1, <2>1, <2>2, QuietStep
  <1>12. CASE EvaluateFails
    <2>1. /\ Swallow("idle") /\ UNCHANGED <<price, preds, givenUp>> /\ queue' = <<>>
          /\ step' = "idle" /\ clock' = clock
      BY <1>12 DEF EvaluateFails, Raise, Swallow
    <2>2. ProcessOK'
      BY <1>1, <2>1, ProcessMoves
    <2> QED
      BY <2>1, <2>2, QuietStep
  <1>13. CASE EvaluatorRests
    <2>1. /\ Go("idle") /\ UNCHANGED <<price, preds, queue, givenUp>>
          /\ step' = "idle" /\ clock' = clock
      BY <1>13 DEF EvaluatorRests, Go
    <2>2. ProcessOK'
      BY <1>1, <2>1, ProcessMoves
    <2> QED
      BY <2>1, <2>2, QuietStep
  <1> QED
    BY <1>2, <1>3, <1>4, <1>5, <1>6, <1>7, <1>8, <1>9, <1>10, <1>11, <1>12, <1>13
       DEF EvaluationNext, EvaluatorStep

------------------------------------------------------------------------------
(* Theorems *)

\* _evaluate_predictions: the inductive invariant of the predictions, their
\* queue and their outcomes.
THEOREM EvaluationsSafe == EvaluationSpec => []EvaluationInv
  BY InitEvaluations, EvaluationStep, PTL DEF EvaluationSpec

LEMMA EvaluationTypesFollow == EvaluationInv => EvaluationTypeOK
  <1> SUFFICES ASSUME EvaluationInv PROVE EvaluationTypeOK
    OBVIOUS
  <1>1. ASSUME NEW i \in DOMAIN preds
        PROVE  /\ preds[i].direction \in Directions /\ preds[i].born \in 0..clock
               /\ preds[i].outcome.span \in Horizons \cup {0}
    BY RowsTyped, PricesKnown DEF EvaluationInv, PredictionRow, Outcomes
  <1>2. \A k \in DOMAIN queue : queue[k] \in DOMAIN preds
    BY DEF EvaluationInv, QueueFresh, Pending
  <1> QED
    BY <1>1, <1>2 DEF EvaluationTypeOK, EvaluationInv, EvaluationTyped

\* The types of the evaluation.
THEOREM EvaluationTypes == EvaluationSpec => []EvaluationTypeOK
  BY EvaluationTypesFollow, EvaluationsSafe, PTL

LEMMA SettledFollows == EvaluationInv => SettledOutcomeIsFinal
  BY DEF EvaluationInv, SettledAtEnd, SettledOutcomeIsFinal

\* evaluate_prediction and upsert_outcome_and_mark_evaluated: a prediction that
\* was settled by its prices has the outcome of its whole horizon, whenever the
\* process got to it.
THEOREM SettledByWholeHorizon == EvaluationSpec => []SettledOutcomeIsFinal
  BY SettledFollows, EvaluationsSafe, PTL

\* What a step may not touch.
SettledStep == \A i \in DOMAIN preds : preds[i].evaluated => preds'[i] = preds[i]

LEMMA StepsLeaveSettled ==
    ASSUME EvaluationInv, [EvaluationNext]_evaluationVars
    PROVE  SettledStep
  <1>1. CASE preds' = preds
    BY <1>1 DEF SettledStep
  <1>2. CASE ScanStored
    <2>1. PICK n \in 0..Min({FreshSymbols, MaxRows - Len(preds)}) :
              \E ds \in [1..n -> Directions] :
                 preds' = preds \o [i \in 1..n |-> Prediction(ds[i])]
      BY <1>2 DEF ScanStored
    <2> QED
      BY <2>1 DEF EvaluationInv, EvaluationTyped, SettledStep
  <1>3. CASE Evaluate \/ GiveUp
    <2>1. \A i \in DOMAIN preds \ {Head(queue)} : preds'[i] = preds[i]
      BY <1>3 DEF Evaluate, GiveUp
    <2>2. ~preds[Head(queue)].evaluated
      BY <1>3, RestOfQueue DEF Evaluate, GiveUp, Evaluating, EvaluationInv, Pending
    <2> QED
      BY <2>1, <2>2 DEF SettledStep
  <1> QED
    BY <1>1, <1>2, <1>3 DEF EvaluationNext, EvaluatorStep, PriceMoves, EvaluatorStarts,
       EvaluatorDies, EvaluatorWakes, ScanLost, Premature, GiveUpLost, EvaluateFails,
       EvaluatorRests, evaluationVars

\* unevaluated_predictions: what is settled does not come back to the queue, so
\* nothing is written to it again.
THEOREM SettledStaySettled == EvaluationSpec => SettledPredictionsStay
  <1>1. EvaluationInv /\ [EvaluationNext]_evaluationVars => [SettledStep]_evaluationVars
    BY StepsLeaveSettled
  <1>2. EvaluationSpec => [][SettledStep]_evaluationVars
    BY <1>1, EvaluationsSafe, PTL DEF EvaluationSpec
  <1> QED
    BY <1>2 DEF SettledPredictionsStay, SettledStep
==============================================================================
