-------------------------- MODULE BookkeepingProofs --------------------------
(***************************************************************************)
(* Proofs about the alerts, the market feed and the entry gates, and about *)
(* the parts of the bookkeeping together.                                  *)
(***************************************************************************)
EXTENDS Bookkeeping, EvaluationsProofs, DayBookProofs, SequenceTheorems

------------------------------------------------------------------------------
(* Alerts: the inductive invariant *)

\* No time passes during a cycle.
DeskTyped == /\ AlertTypeOK
             /\ step \in {"idle", "scan", "alert"}
             /\ step # "idle" => now = clock

\* A cooldown runs from the row of the delivery, unless that was lost.
CooldownHasRow == \A k \in AlertKinds \ muted : lastEmitted[k] # Never
                                                  => alertRows[k] = lastEmitted[k]

\* A kind is out in this cycle if it was delivered now or not long ago.
Out(k) == /\ lastEmitted[k] # Never
          /\ lastEmitted[k] = now \/ now - lastEmitted[k] < AlertCooldown

\* What is listed in a sequence of alerts.
Listed(q, k) == \E n \in DOMAIN q : q[n] = k

\* During the loop over the alerts a critical condition is still due or out.
DueOrOut == step = "alert" =>
                \A k \in seen \ muted : Out(k) \/ Listed(due, k)

DeskInv == DeskTyped /\ CooldownHasRow /\ DueOrOut

LEMMA InitDesk == AlertInit => DeskInv
  <1> SUFFICES ASSUME AlertInit PROVE DeskInv
    OBVIOUS
  <1>1. ProcessOK /\ step = "idle" /\ clock = 0
    BY ProcessStarts DEF AlertInit
  <1>2. AlertTypeOK
    BY <1>1 DEF AlertInit, AlertTypeOK, Quiet
  <1>3. CooldownHasRow
    BY DEF AlertInit, CooldownHasRow
  <1> QED
    BY <1>1, <1>2, <1>3 DEF DeskInv, DeskTyped, DueOrOut

\* The times on record stay times on record as the clock goes on.
LEMMA TimesStay ==
    ASSUME NEW c \in Nat, NEW d \in Nat, c <= d,
           NEW f \in [AlertKinds -> 0..c \cup {Never}]
    PROVE  f \in [AlertKinds -> 0..d \cup {Never}]
  <1>1. 0..c \cup {Never} \subseteq 0..d \cup {Never}
    OBVIOUS
  <1> QED
    BY <1>1

\* A step that touches no row and no cooldown, and leaves the loop.
LEMMA DeskQuiet ==
    ASSUME DeskInv, ProcessOK', clock \in Nat, clock' \in Nat, clock <= clock',
           UNCHANGED <<lastEmitted, alertRows, muted>>,
           seen' \in {seen, Quiet}, due' \in {due, <<>>},
           \/ step' \in {"idle", "scan"} /\ (step' = "idle" \/ now' = clock')
           \/ UNCHANGED <<step, now, seen, due, clock>>
    PROVE  DeskInv'
  <1>1. /\ lastEmitted' \in [AlertKinds -> 0..clock' \cup {Never}]
        /\ alertRows' \in [AlertKinds -> 0..clock' \cup {Never}]
    BY TimesStay DEF DeskInv, DeskTyped, AlertTypeOK
  <1>2. seen' \subseteq AlertKinds /\ due' \in Seq(AlertKinds) /\ muted' \subseteq AlertKinds
    <2>1. seen \subseteq AlertKinds /\ due \in Seq(AlertKinds) /\ muted \subseteq AlertKinds
      BY DEF DeskInv, DeskTyped, AlertTypeOK
    <2>2. <<>> \in Seq(AlertKinds)
      OBVIOUS
    <2> QED
      BY <2>1, <2>2 DEF Quiet
  <1>3. DeskTyped'
    BY <1>1, <1>2 DEF DeskInv, DeskTyped, AlertTypeOK
  <1>4. CooldownHasRow'
    BY DEF DeskInv, CooldownHasRow
  <1>5. DueOrOut'
    BY DEF DeskInv, DueOrOut, Out
  <1> QED
    BY <1>3, <1>4, <1>5 DEF DeskInv

\* emit writes to its own kind alone: it holds the alert back, or its cooldown
\* and its row begin now.
LEMMA EmitOne ==
    ASSUME DeskTyped, clock \in Nat, NEW kind \in AlertKinds, Emit(kind, clock, TRUE)
    PROVE  /\ lastEmitted' \in [AlertKinds -> 0..clock \cup {Never}]
           /\ alertRows' \in [AlertKinds -> 0..clock \cup {Never}]
           /\ \A k \in AlertKinds \ {kind} : /\ lastEmitted'[k] = lastEmitted[k]
                                             /\ alertRows'[k] = alertRows[k]
           /\ \/ Suppressed(kind, clock) /\ UNCHANGED <<lastEmitted, alertRows>>
              \/ /\ ~Suppressed(kind, clock)
                 /\ lastEmitted'[kind] = clock /\ alertRows'[kind] = clock
  <1>1. /\ lastEmitted \in [AlertKinds -> 0..clock \cup {Never}]
        /\ alertRows \in [AlertKinds -> 0..clock \cup {Never}]
        /\ clock \in 0..clock \cup {Never}
    BY DEF DeskTyped, AlertTypeOK
  <1>2. CASE Suppressed(kind, clock)
    BY <1>1, <1>2 DEF Emit
  <1>3. CASE ~Suppressed(kind, clock)
    BY <1>1, <1>3 DEF Emit, Emitted
  <1> QED
    BY <1>2, <1>3

\* It is listed in what the sequence is joined to as well.
LEMMA ListedJoined ==
    ASSUME NEW S, NEW a \in Seq(S), NEW b \in Seq(S), NEW k
    PROVE  /\ a \o b \in Seq(S)
           /\ Listed(a, k) \/ Listed(b, k) => Listed(a \o b, k)
  <1> DEFINE ab == a \o b
  <1>1. /\ ab \in Seq(S) /\ DOMAIN ab = 1..Len(a) + Len(b)
        /\ Len(a) \in Nat /\ Len(b) \in Nat
        /\ DOMAIN a = 1..Len(a) /\ DOMAIN b = 1..Len(b)
        /\ \A i \in 1..Len(a) + Len(b) :
               ab[i] = IF i <= Len(a) THEN a[i] ELSE b[i - Len(a)]
    BY ConcatProperties, LenProperties
  <1> HIDE DEF ab
  <1>2. ASSUME NEW n \in DOMAIN a PROVE n \in DOMAIN ab /\ ab[n] = a[n]
    BY <1>1
  <1>3. ASSUME NEW n \in DOMAIN b
        PROVE  Len(a) + n \in DOMAIN ab /\ ab[Len(a) + n] = b[n]
    <2>1. Len(a) + n \in DOMAIN ab /\ ~(Len(a) + n <= Len(a)) /\ Len(a) + n - Len(a) = n
      BY <1>1
    <2> QED
      BY <1>1, <2>1
  <1>4. Listed(a, k) \/ Listed(b, k) => Listed(ab, k)
    BY <1>2, <1>3 DEF Listed
  <1> QED
    BY <1>1, <1>4 DEF ab

\* What the cycle finds critical is among the alerts it has to emit.
LEMMA CriticalListed ==
    ASSUME NEW a \in Seq(AlertKinds), NEW b \in Seq(AlertKinds),
           NEW c \in Seq(AlertKinds), NEW d \in Seq(AlertKinds), NEW k
    PROVE  /\ a \o b \o c \o d \in Seq(AlertKinds)
           /\ Listed(a, k) \/ Listed(c, k) => Listed(a \o b \o c \o d, k)
  <1> DEFINE ab == a \o b
             abc == ab \o c
  <1>1. ab \in Seq(AlertKinds) /\ (Listed(a, k) => Listed(ab, k))
    BY ListedJoined
  <1> HIDE DEF ab
  <1>2. abc \in Seq(AlertKinds) /\ (Listed(ab, k) \/ Listed(c, k) => Listed(abc, k))
    BY <1>1, ListedJoined
  <1> HIDE DEF abc
  <1>3. abc \o d \in Seq(AlertKinds) /\ (Listed(abc, k) => Listed(abc \o d, k))
    BY <1>2, ListedJoined
  <1> QED
    BY <1>1, <1>2, <1>3 DEF abc, ab

------------------------------------------------------------------------------
(* Alerts: the steps *)

\* The scan: what it finds critical is due.
LEMMA AssessKeeps == DeskInv /\ Assess => DeskInv'
  <1> SUFFICES ASSUME DeskInv, Assess PROVE DeskInv'
    OBVIOUS
  <1>1. /\ At("scan") /\ Go("alert") /\ UNCHANGED <<lastEmitted, alertRows, muted>>
        /\ ProcessOK
    BY DEF Assess, DeskInv, DeskTyped, AlertTypeOK
  <1>2. PICK fresh \in SUBSET Symbols, tooDeep \in BOOLEAN, accuracy \in Accuracies :
            \E view \in [fresh -> Views] :
               LET condition == [s \in fresh |->
                       Condition(view[s], Score(view[s], accuracy # "good"))]
                   illiquid == Cardinality({s \in fresh : condition[s] = "ILLIQUID"})
                   market == Aggregate(condition)
               IN  /\ seen' = (IF market = "PANIC" THEN {"panic"} ELSE {})
                              \cup (IF tooDeep THEN {"drawdown"} ELSE {})
                   /\ due' = ConditionAlerts(market = "PANIC", illiquid, tooDeep,
                                             accuracy = "collapsed")
    BY DEF Assess
  <1>3. PICK view \in [fresh -> Views] :
            LET condition == [s \in fresh |->
                    Condition(view[s], Score(view[s], accuracy # "good"))]
                illiquid == Cardinality({s \in fresh : condition[s] = "ILLIQUID"})
                market == Aggregate(condition)
            IN  /\ seen' = (IF market = "PANIC" THEN {"panic"} ELSE {})
                           \cup (IF tooDeep THEN {"drawdown"} ELSE {})
                /\ due' = ConditionAlerts(market = "PANIC", illiquid, tooDeep,
                                          accuracy = "collapsed")
    BY <1>2
  <1>4. ProcessOK' /\ clock' = clock /\ now' = now /\ step' = "alert"
    BY <1>1, ProcessMoves DEF Go
  <1>5. /\ due' \in Seq(AlertKinds) /\ seen' \subseteq AlertKinds
        /\ \A k \in seen' : Listed(due', k)
    <2> DEFINE condition == [s \in fresh |->
                   Condition(view[s], Score(view[s], accuracy # "good"))]
               illiquid == {s \in fresh : condition[s] = "ILLIQUID"}
               market == Aggregate(condition)
               a == IF market = "PANIC" THEN <<"panic">> ELSE <<>>
               b == [i \in 1..Cardinality(illiquid) |-> "illiquid"]
               c == IF tooDeep THEN <<"drawdown">> ELSE <<>>
               d == IF accuracy = "collapsed" THEN <<"accuracy">> ELSE <<>>
    <2>1. illiquid \in SUBSET Symbols
      OBVIOUS
    <2>2. due' = a \o b \o c \o d
      BY <1>3 DEF ConditionAlerts
    <2>3. seen' = (IF market = "PANIC" THEN {"panic"} ELSE {})
                  \cup (IF tooDeep THEN {"drawdown"} ELSE {})
      BY <1>3
    <2> HIDE DEF illiquid, market
    <2>4. Cardinality(illiquid) \in Nat
      <3>1. IsFiniteSet(illiquid)
        BY <2>1, FS_Subset, DeskAssumption
      <3> QED
        BY <3>1, FS_CardinalityType
    <2>5. {"panic", "illiquid", "drawdown", "accuracy"} \subseteq AlertKinds
      BY DEF AlertKinds
    <2>6. a \in Seq(AlertKinds) /\ c \in Seq(AlertKinds) /\ d \in Seq(AlertKinds)
      BY <2>5
    <2>7. b \in Seq(AlertKinds)
      BY <2>4, <2>5
    <2>8. \A k \in seen' : \/ market = "PANIC" /\ k = "panic"
                           \/ tooDeep /\ k = "drawdown"
      BY <2>3
    <2>9. market = "PANIC" => Listed(a, "panic")
      BY DEF Listed
    <2>10. tooDeep => Listed(c, "drawdown")
      BY DEF Listed
    <2>11. \A k \in seen' : Listed(a, k) \/ Listed(c, k)
      BY <2>8, <2>9, <2>10
    <2> HIDE DEF a, b, c, d
    <2>12. \A k \in seen' : Listed(due', k)
      BY <2>2, <2>6, <2>7, <2>11, CriticalListed
    <2>13. due' \in Seq(AlertKinds)
      BY <2>2, <2>6, <2>7, CriticalListed
    <2>14. seen' \subseteq AlertKinds
      BY <2>5, <2>8
    <2> QED
      BY <2>12, <2>13, <2>14
  <1>6. DeskTyped'
    BY <1>1, <1>4, <1>5 DEF DeskInv, DeskTyped, AlertTypeOK, At
  <1>7. CooldownHasRow'
    BY <1>1 DEF DeskInv, CooldownHasRow
  <1>8. DueOrOut'
    BY <1>5 DEF DueOrOut
  <1> QED
    BY <1>6, <1>7, <1>8 DEF DeskInv

\* One alert of the loop is delivered, or held back by its own cooldown.
LEMMA EmitNextKeeps == DeskInv /\ EmitNext => DeskInv'
  <1> SUFFICES ASSUME DeskInv, EmitNext PROVE DeskInv'
    OBVIOUS
  <1> DEFINE kind == Head(due)
  <1>1. /\ step = "alert" /\ due # <<>> /\ due' = Tail(due)
        /\ muted' = IF Suppressed(kind, now) THEN muted ELSE muted \ {kind}
        /\ Emit(kind, now, TRUE)
        /\ UNCHANGED <<clock, up, step, now, faults, crashes, seen>>
    BY DEF EmitNext, At, process
  <1>2. /\ now = clock /\ clock \in Nat /\ due \in Seq(AlertKinds)
        /\ muted \subseteq AlertKinds /\ seen \subseteq AlertKinds
    BY <1>1, EvaluationBounds DEF DeskInv, DeskTyped, AlertTypeOK, ProcessOK
  <1>3. /\ kind = due[1] /\ kind \in AlertKinds /\ Tail(due) \in Seq(AlertKinds)
        /\ \A n \in DOMAIN due : n # 1 => n - 1 \in DOMAIN Tail(due)
                                          /\ Tail(due)[n - 1] = due[n]
    BY <1>1, <1>2
  <1> HIDE DEF kind
  <1>4. /\ lastEmitted' \in [AlertKinds -> 0..clock \cup {Never}]
        /\ alertRows' \in [AlertKinds -> 0..clock \cup {Never}]
        /\ \A k \in AlertKinds \ {kind} : /\ lastEmitted'[k] = lastEmitted[k]
                                          /\ alertRows'[k] = alertRows[k]
        /\ \/ Suppressed(kind, clock) /\ UNCHANGED <<lastEmitted, alertRows>>
           \/ /\ ~Suppressed(kind, clock)
              /\ lastEmitted'[kind] = clock /\ alertRows'[kind] = clock
    BY <1>1, <1>2, <1>3, EmitOne DEF DeskInv
  <1>5. muted' \subseteq AlertKinds /\ \A k \in AlertKinds \ muted' : k = kind \/ k \notin muted
    BY <1>1, <1>2
  <1>6. DeskTyped'
    BY <1>1, <1>2, <1>3, <1>4, <1>5 DEF DeskInv, DeskTyped, AlertTypeOK, ProcessOK
  <1>7. CooldownHasRow'
    BY <1>1, <1>2, <1>3, <1>4 DEF DeskInv, CooldownHasRow
  <1>8. DueOrOut'
    <2> SUFFICES ASSUME NEW k \in seen \ muted'
                 PROVE  Out(k)' \/ Listed(Tail(due), k)
      BY <1>1 DEF DueOrOut
    <2>1. k \in AlertKinds
      BY <1>2
    <2>2. CASE k = kind
      <3>1. CASE Suppressed(kind, clock)
        BY <1>1, <1>2, <1>4, <2>2, <3>1 DEF Out, Suppressed
      <3>2. CASE ~Suppressed(kind, clock)
        BY <1>1, <1>2, <1>4, <2>2, <3>2 DEF Out, Never
      <3> QED
        BY <3>1, <3>2
    <2>3. CASE k # kind
      <3>1. k \in seen \ muted
        BY <1>5, <2>1, <2>3
      <3>2. Out(k) \/ Listed(due, k)
        BY <1>1, <3>1 DEF DeskInv, DueOrOut
      <3>3. CASE Out(k)
        BY <1>1, <1>4, <2>1, <2>3, <3>3 DEF Out
      <3>4. CASE Listed(due, k)
        BY <1>3, <2>3, <3>4 DEF Listed
      <3> QED
        BY <3>2, <3>3, <3>4
    <2> QED
      BY <2>2, <2>3
  <1> QED
    BY <1>6, <1>7, <1>8 DEF DeskInv

\* A delivery whose row is lost mutes its kind; the crash alert it causes has
\* its row.
LEMMA EmitFailsKeeps == DeskInv /\ EmitFails => DeskInv'
  <1> SUFFICES ASSUME DeskInv, EmitFails PROVE DeskInv'
    OBVIOUS
  <1> DEFINE kind == Head(due)
             crashed == ~Suppressed("crash", clock)
  <1>1. /\ step = "alert" /\ due # <<>> /\ Swallow("idle")
        /\ lastEmitted' = [lastEmitted EXCEPT ![kind] = now,
                                              !["crash"] = IF crashed THEN clock ELSE @]
        /\ alertRows' = [alertRows EXCEPT !["crash"] = IF crashed THEN clock ELSE @]
        /\ muted' = muted \cup {kind} /\ seen' = {} /\ due' = <<>>
    BY DEF EmitFails, At, Raise, Quiet
  <1>2. /\ now = clock /\ clock \in Nat /\ due \in Seq(AlertKinds)
        /\ muted \subseteq AlertKinds /\ ProcessOK
        /\ lastEmitted \in [AlertKinds -> 0..clock \cup {Never}]
        /\ alertRows \in [AlertKinds -> 0..clock \cup {Never}]
    BY <1>1, EvaluationBounds DEF DeskInv, DeskTyped, AlertTypeOK, ProcessOK
  <1>3. kind \in AlertKinds /\ "crash" \in AlertKinds
    BY <1>1, <1>2 DEF AlertKinds
  <1> HIDE DEF kind, crashed
  <1>4. ProcessOK' /\ clock' = clock /\ step' = "idle"
    BY <1>1, <1>2, ProcessMoves DEF Swallow
  <1>5. /\ lastEmitted' \in [AlertKinds -> 0..clock \cup {Never}]
        /\ alertRows' \in [AlertKinds -> 0..clock \cup {Never}]
    <2>1. now \in 0..clock \cup {Never} /\ clock \in 0..clock \cup {Never}
      BY <1>2
    <2> QED
      BY <1>1, <1>2, <2>1
  <1>6. DeskTyped'
    BY <1>1, <1>2, <1>3, <1>4, <1>5 DEF DeskTyped, AlertTypeOK
  <1>7. CooldownHasRow'
    <2> SUFFICES ASSUME NEW k \in AlertKinds, k \notin muted, k # kind,
                        lastEmitted'[k] # Never
                 PROVE  alertRows'[k] = lastEmitted'[k]
      BY <1>1 DEF CooldownHasRow
    <2>1. CASE k = "crash" /\ crashed
      BY <1>1, <1>2, <2>1
    <2>2. CASE ~(k = "crash" /\ crashed)
      <3>1. lastEmitted'[k] = lastEmitted[k] /\ alertRows'[k] = alertRows[k]
        BY <1>1, <1>2, <2>2
      <3> QED
        BY <3>1 DEF DeskInv, CooldownHasRow
    <2> QED
      BY <2>1, <2>2
  <1> QED
    BY <1>4, <1>6, <1>7 DEF DeskInv, DueOrOut

\* A cycle that fails before its alerts emits one of its own.
LEMMA AssessFailsKeeps == DeskInv /\ AssessFails => DeskInv'
  <1> SUFFICES ASSUME DeskInv, AssessFails PROVE DeskInv'
    OBVIOUS
  <1>1. Swallow("idle") /\ Emit("crash", clock, TRUE) /\ UNCHANGED <<seen, due, muted>>
    BY DEF AssessFails, Raise
  <1>2. ProcessOK /\ clock \in Nat /\ "crash" \in AlertKinds
    BY EvaluationBounds DEF DeskInv, DeskTyped, AlertTypeOK, ProcessOK, AlertKinds
  <1>3. ProcessOK' /\ clock' = clock /\ step' = "idle"
    BY <1>1, <1>2, ProcessMoves DEF Swallow
  <1>4. /\ lastEmitted' \in [AlertKinds -> 0..clock \cup {Never}]
        /\ alertRows' \in [AlertKinds -> 0..clock \cup {Never}]
        /\ \A k \in AlertKinds \ {"crash"} : /\ lastEmitted'[k] = lastEmitted[k]
                                             /\ alertRows'[k] = alertRows[k]
        /\ \/ UNCHANGED <<lastEmitted, alertRows>>
           \/ lastEmitted'["crash"] = clock /\ alertRows'["crash"] = clock
    BY <1>1, <1>2, EmitOne DEF DeskInv
  <1>5. DeskTyped'
    BY <1>1, <1>3, <1>4 DEF DeskInv, DeskTyped, AlertTypeOK
  <1>6. CooldownHasRow'
    BY <1>1, <1>4 DEF DeskInv, CooldownHasRow
  <1> QED
    BY <1>3, <1>5, <1>6 DEF DeskInv, DueOrOut

\* The cooldowns die with the process, and so does what they say of the rows.
LEMMA DeskDiesKeeps == DeskInv /\ DeskDies => DeskInv'
  <1> SUFFICES ASSUME DeskInv, DeskDies PROVE DeskInv'
    OBVIOUS
  <1>1. /\ Down /\ lastEmitted' = [k \in AlertKinds |-> Never]
        /\ seen' = {} /\ due' = <<>> /\ muted' = {} /\ alertRows' = alertRows
    BY DEF DeskDies, Quiet
  <1>2. ProcessOK' /\ clock' = clock /\ step' = "idle"
    BY <1>1, ProcessMoves DEF Down, DeskInv, DeskTyped, AlertTypeOK
  <1>3. DeskTyped'
    BY <1>1, <1>2 DEF DeskInv, DeskTyped, AlertTypeOK
  <1>4. CooldownHasRow'
    BY <1>1 DEF CooldownHasRow
  <1> QED
    BY <1>2, <1>3, <1>4 DEF DeskInv, DueOrOut

LEMMA DeskStep == DeskInv /\ [AlertNext]_alertVars => DeskInv'
  <1> SUFFICES ASSUME DeskInv, [AlertNext]_alertVars PROVE DeskInv'
    OBVIOUS
  <1>1. ProcessOK /\ clock \in Nat /\ step \in {"idle", "scan", "alert"}
    BY EvaluationBounds DEF DeskInv, DeskTyped, AlertTypeOK, ProcessOK
  <1>2. CASE Assess
    BY <1>2, AssessKeeps
  <1>3. CASE AssessFails
    BY <1>3, AssessFailsKeeps
  <1>4. CASE EmitNext
    BY <1>4, EmitNextKeeps
  <1>5. CASE EmitFails
    BY <1>5, EmitFailsKeeps
  <1>6. CASE DeskDies
    BY <1>6, DeskDiesKeeps
  <1>7. CASE AlertTick
    <2>1. Elapse /\ UNCHANGED <<lastEmitted, alertRows, seen, due, muted>> /\ step' = "idle"
      BY <1>7 DEF AlertTick, Elapse
    <2>2. ProcessOK' /\ clock <= clock' /\ clock' \in Nat
      BY <1>1, <2>1, ProcessMoves
    <2> QED
      BY <1>1, <2>1, <2>2, DeskQuiet
  <1>8. CASE DeskOpens \/ UNCHANGED alertVars
    <2>1. /\ Up \/ UNCHANGED process
          /\ UNCHANGED <<lastEmitted, alertRows, seen, due, muted, step, now, clock>>
      BY <1>8 DEF DeskOpens, Up, alertVars, process
    <2>2. ProcessOK'
      BY <1>1, <2>1, ProcessMoves
    <2> QED
      BY <1>1, <2>1, <2>2, DeskQuiet
  <1>9. CASE DeskWakes
    <2>1. /\ Wake("scan") /\ UNCHANGED <<lastEmitted, alertRows, seen, due, muted>>
          /\ step' = "scan" /\ clock' = clock /\ now' = clock
      BY <1>9 DEF DeskWakes, Wake
    <2>2. ProcessOK'
      BY <1>1, <2>1, ProcessMoves
    <2> QED
      BY <1>1, <2>1, <2>2, DeskQuiet
  <1>10. CASE DeskRests
    <2>1. /\ Go("idle") /\ UNCHANGED <<lastEmitted, alertRows, due, muted>> /\ seen' = Quiet
          /\ step' = "idle" /\ clock' = clock
      BY <1>10 DEF DeskRests, Go
    <2>2. ProcessOK'
      BY <1>1, <2>1, ProcessMoves
    <2> QED
      BY <1>1, <2>1, <2>2, DeskQuiet
  <1> QED
    BY <1>2, <1>3, <1>4, <1>5, <1>6, <1>7, <1>8, <1>9, <1>10 DEF AlertNext

\* AlertManager: the inductive invariant of the cooldowns, the rows and the loop.
THEOREM DeskSafe == AlertSpec => []DeskInv
  BY InitDesk, DeskStep, PTL DEF AlertSpec

LEMMA CriticalFollows == DeskInv => CriticalConditionHeard
  <1> SUFFICES ASSUME DeskInv, step = "alert", due = <<>>, NEW k \in seen \ muted
               PROVE  /\ alertRows[k] # Never
                      /\ alertRows[k] = now \/ now - alertRows[k] < AlertCooldown
    BY DEF CriticalConditionHeard
  <1>1. k \in AlertKinds
    BY DEF DeskInv, DeskTyped, AlertTypeOK
  <1>2. Out(k)
    BY DEF DeskInv, DueOrOut, Listed
  <1> QED
    BY <1>1, <1>2 DEF DeskInv, CooldownHasRow, Out

\* run_once's alerts: a critical condition of the cycle has a row no older than
\* the cooldown when the alerts are out, unless the row of its own delivery was
\* lost.
THEOREM CriticalIsHeard == AlertSpec => []CriticalConditionHeard
  BY CriticalFollows, DeskSafe, PTL

------------------------------------------------------------------------------
(* The feed: minutes and ticks *)

LEMMA FeedBounds ==
    /\ Minute \in Nat \ {0} /\ Bars \in Nat \ {0} /\ Retained \in Nat \ {0}
    /\ Ttl \in Nat /\ MaxAge \in Nat /\ Horizon \in Nat /\ LastTick \in Nat /\ MaxClaims \in Nat
  BY FeedAssumption

\* Minutes pass as ticks do.
LEMMA MinutesPass ==
    ASSUME NEW a \in Nat, NEW b \in Nat, a <= b
    PROVE  MinuteAt(a) \in Nat /\ MinuteAt(a) <= MinuteAt(b)
  <1> DEFINE p == MinuteAt(a)
             q == MinuteAt(b)
  <1>1. /\ p \in Nat /\ Minute * p <= a
        /\ q \in Nat /\ b < Minute * q + Minute
    <2>1. \A n \in Nat, k \in Nat \ {0} :
              /\ n \div k \in Nat
              /\ k * (n \div k) <= n /\ n < k * (n \div k) + k
      OBVIOUS
    <2> QED
      BY <2>1, FeedBounds DEF MinuteAt
  <1> HIDE DEF p, q
  <1>2. ASSUME q < p PROVE FALSE
    <2>1. PICK d \in Nat : p = q + 1 + d
      BY <1>1, <1>2
    <2>2. Minute * p = Minute * q + Minute + Minute * d /\ Minute * d \in Nat
          /\ Minute * q \in Nat
      BY <1>1, <2>1, FeedBounds
    <2> QED
      BY <1>1, <2>2, FeedBounds
  <1> QED
    BY <1>1, <1>2 DEF p, q

LEMMA LastTradeNatural == ASSUME NEW m \in Nat PROVE LastTrade(m) \in Nat
  <1>1. m * Minute \in Nat /\ Minute \in Nat \ {0}
    BY FeedBounds
  <1> QED
    BY <1>1 DEF LastTrade

\* A close is that of a trade that has happened; after the last one, the final.
LEMMA CloseAtTick ==
    ASSUME NEW m \in Nat, NEW t \in Nat
    PROVE  CloseAt(m, t) \in 0..t /\ (t >= LastTrade(m) => CloseAt(m, t) = LastTrade(m))
  BY LastTradeNatural DEF CloseAt

------------------------------------------------------------------------------
(* The feed: the cache of closes *)

OneEntryPerKey(cache) == \A i, j \in DOMAIN cache : cache[i].key = cache[j].key => i = j

\* Without leaves the entries of the other keys, in their order.
LEMMA OthersKept ==
    ASSUME NEW S, NEW cache \in Seq(S), OneEntryPerKey(cache), NEW key
    PROVE  /\ Without(cache, key) \in Seq(S)
           /\ Len(Without(cache, key)) <= Len(cache)
           /\ OneEntryPerKey(Without(cache, key))
           /\ \A j \in DOMAIN Without(cache, key) :
                 /\ Without(cache, key)[j].key # key
                 /\ \E i \in DOMAIN cache : Without(cache, key)[j] = cache[i]
  <1> DEFINE rest == Without(cache, key)
  <1>1. CASE ~ \E i \in DOMAIN cache : cache[i].key = key
    BY <1>1 DEF Without
  <1>2. CASE \E i \in DOMAIN cache : cache[i].key = key
    <2> DEFINE n == CHOOSE i \in DOMAIN cache : cache[i].key = key
               front == SubSeq(cache, 1, n - 1)
               back == SubSeq(cache, n + 1, Len(cache))
    <2>1. n \in DOMAIN cache /\ cache[n].key = key
      BY <1>2
    <2>2. rest = front \o back
      BY <1>2 DEF Without, RemoveAt
    <2> HIDE DEF n, rest
    <2>3. n \in 1..Len(cache) /\ Len(cache) \in Nat /\ DOMAIN cache = 1..Len(cache)
      BY <2>1
    <2>4. /\ front \in Seq(S) /\ Len(front) = n - 1
          /\ \A j \in 1..n - 1 : front[j] = cache[j]
      BY <2>3
    <2>5. /\ back \in Seq(S) /\ Len(back) = Len(cache) - n
          /\ \A j \in 1..Len(cache) - n : back[j] = cache[n + j]
      <3>1. \A i \in n + 1..Len(cache) : cache[i] \in S
        BY <2>3
      <3>2. n + 1 \in Int /\ Len(cache) \in Int /\ Len(cache) - (n + 1) + 1 = Len(cache) - n
        BY <2>3
      <3> HIDE DEF back
      <3>3. /\ back \in Seq(S)
            /\ Len(back) = IF n + 1 <= Len(cache) THEN Len(cache) - n ELSE 0
            /\ \A j \in 1..Len(cache) - n : back[j] = cache[n + 1 + j - 1]
        BY <3>1, <3>2, SubSeqProperties DEF back
      <3>4. ASSUME NEW j \in 1..Len(cache) - n PROVE back[j] = cache[n + j]
        <4>1. n + 1 + j - 1 = n + j
          BY <2>3
        <4> QED
          BY <3>3, <4>1
      <3>5. Len(back) = Len(cache) - n
        <4> DEFINE length == Len(cache)
        <4>1. length \in Nat /\ n \in 1..length
          BY <2>3
        <4>2. Len(back) = IF n + 1 <= length THEN length - n ELSE 0
          BY <3>3
        <4> HIDE DEF length
        <4>3. Len(back) = length - n
          BY <4>1, <4>2
        <4> QED
          BY <4>3 DEF length
      <3> QED
        BY <3>3, <3>4, <3>5
    <2> HIDE DEF front, back
    <2>6. /\ rest \in Seq(S) /\ Len(rest) = Len(cache) - 1
          /\ \A j \in 1..Len(rest) :
                 rest[j] = IF j <= n - 1 THEN cache[j] ELSE cache[j + 1]
      <3>1. rest \in Seq(S) /\ Len(rest) = Len(front) + Len(back)
        BY <2>2, <2>4, <2>5, ConcatProperties
      <3>2. ASSUME NEW j \in 1..Len(rest)
            PROVE  rest[j] = IF j <= n - 1 THEN cache[j] ELSE cache[j + 1]
        <4>1. rest[j] = IF j <= Len(front) THEN front[j] ELSE back[j - Len(front)]
          BY <2>2, <2>4, <2>5, <3>1, ConcatProperties
        <4>2. CASE j <= n - 1
          BY <2>3, <2>4, <4>1, <4>2
        <4>3. CASE ~(j <= n - 1)
          <5>1. j - (n - 1) \in 1..Len(cache) - n /\ n + (j - (n - 1)) = j + 1
            BY <2>3, <2>4, <2>5, <3>1, <4>3
          <5> QED
            BY <2>4, <2>5, <4>1, <4>3, <5>1
        <4> QED
          BY <4>2, <4>3
      <3> QED
        BY <2>3, <2>4, <2>5, <3>1, <3>2
    <2>7. ASSUME NEW j \in 1..Len(rest)
          PROVE  \E i \in DOMAIN cache : i # n /\ rest[j] = cache[i] /\ i \in {j, j + 1}
                                         /\ (i = j <=> j <= n - 1)
      <3>1. CASE j <= n - 1
        <4>1. j \in DOMAIN cache /\ j # n /\ rest[j] = cache[j]
          BY <2>3, <2>6, <3>1
        <4> QED
          BY <3>1, <4>1
      <3>2. CASE ~(j <= n - 1)
        <4>1. j + 1 \in DOMAIN cache /\ j + 1 # n /\ rest[j] = cache[j + 1] /\ j + 1 # j
          BY <2>3, <2>6, <3>2
        <4> QED
          BY <3>2, <4>1
      <3> QED
        BY <3>1, <3>2
    <2>8. DOMAIN rest = 1..Len(rest)
      BY <2>6
    <2>9. OneEntryPerKey(rest)
      <3> SUFFICES ASSUME NEW i \in 1..Len(rest), NEW j \in 1..Len(rest),
                          rest[i].key = rest[j].key
                   PROVE  i = j
        BY <2>8 DEF OneEntryPerKey
      <3>1. PICK a \in DOMAIN cache : rest[i] = cache[a] /\ a \in {i, i + 1}
                                      /\ (a = i <=> i <= n - 1)
        BY <2>7
      <3>2. PICK b \in DOMAIN cache : rest[j] = cache[b] /\ b \in {j, j + 1}
                                      /\ (b = j <=> j <= n - 1)
        BY <2>7
      <3>3. a = b
        BY <3>1, <3>2 DEF OneEntryPerKey
      <3> QED
        BY <2>3, <2>6, <3>1, <3>2, <3>3
    <2>10. \A j \in DOMAIN rest :
              rest[j].key # key /\ \E i \in DOMAIN cache : rest[j] = cache[i]
      BY <2>1, <2>7, <2>8 DEF OneEntryPerKey
    <2> QED
      BY <2>3, <2>6, <2>9, <2>10 DEF rest
  <1> QED
    BY <1>1, <1>2

\* What _cache_minute_close leaves: the new close under its key, and entries
\* of other keys as they were.
LEMMA Insertion ==
    ASSUME NEW S, NEW cache \in Seq(S), OneEntryPerKey(cache), Len(cache) <= Retained,
           NEW key, NEW close, NEW entry \in S, entry = [key |-> key, close |-> close],
           NEW new, new = CloseStored(cache, key, close)
    PROVE  /\ new \in Seq(S) /\ Len(new) <= Retained
           /\ OneEntryPerKey(new)
           /\ \A j \in DOMAIN new :
                 \/ new[j] = entry
                 \/ new[j].key # key /\ \E i \in DOMAIN cache : new[j] = cache[i]
  <1> DEFINE rest == Without(cache, key)
             more == Append(rest, entry)
  <1>1. /\ rest \in Seq(S) /\ Len(rest) <= Len(cache) /\ OneEntryPerKey(rest)
        /\ \A j \in DOMAIN rest :
              rest[j].key # key /\ \E i \in DOMAIN cache : rest[j] = cache[i]
    BY OthersKept
  <1>2. new = IF Len(more) > Retained THEN Tail(more) ELSE more
    BY DEF CloseStored
  <1>3. Len(cache) \in Nat /\ Retained \in Nat \ {0} /\ entry.key = key
    BY FeedBounds
  <1> HIDE DEF rest
  <1>4. /\ more \in Seq(S) /\ Len(more) = Len(rest) + 1 /\ Len(rest) \in Nat
        /\ DOMAIN more = 1..Len(rest) + 1 /\ DOMAIN rest = 1..Len(rest)
        /\ more[Len(rest) + 1] = entry
        /\ \A j \in 1..Len(rest) : more[j] = rest[j]
    BY <1>1
  <1> HIDE DEF more
  <1>5. \A j \in DOMAIN more :
           \/ more[j] = entry
           \/ more[j].key # key /\ \E i \in DOMAIN cache : more[j] = cache[i]
    <2> SUFFICES ASSUME NEW j \in 1..Len(rest) + 1
                 PROVE  \/ more[j] = entry
                        \/ more[j].key # key /\ \E i \in DOMAIN cache : more[j] = cache[i]
      BY <1>4
    <2>1. j \in 1..Len(rest) \/ j = Len(rest) + 1
      BY <1>4
    <2> QED
      BY <1>1, <1>4, <2>1
  <1>6. OneEntryPerKey(more)
    <2> SUFFICES ASSUME NEW i \in 1..Len(rest) + 1, NEW j \in 1..Len(rest) + 1,
                        more[i].key = more[j].key
                 PROVE  i = j
      BY <1>4 DEF OneEntryPerKey
    <2>1. i \in 1..Len(rest) \/ i = Len(rest) + 1
      BY <1>4
    <2>2. j \in 1..Len(rest) \/ j = Len(rest) + 1
      BY <1>4
    <2>3. \A k \in 1..Len(rest) : more[k].key # more[Len(rest) + 1].key
      BY <1>1, <1>3, <1>4
    <2>4. CASE i \in 1..Len(rest) /\ j \in 1..Len(rest)
      <3>1. more[i] = rest[i] /\ more[j] = rest[j]
        BY <1>4, <2>4
      <3> QED
        BY <1>1, <1>4, <2>4, <3>1 DEF OneEntryPerKey
    <2> QED
      BY <2>1, <2>2, <2>3, <2>4
  <1>7. CASE Len(more) > Retained
    <2>1. /\ new \in Seq(S) /\ Len(new) = Len(more) - 1
          /\ DOMAIN new = 1..Len(more) - 1
          /\ \A j \in 1..Len(more) - 1 : new[j] = more[j + 1]
      BY <1>2, <1>3, <1>4, <1>7
    <2>2. \A j \in DOMAIN new : j + 1 \in DOMAIN more /\ new[j] = more[j + 1] /\ j \in Int
      BY <1>4, <2>1
    <2>3. OneEntryPerKey(new)
      <3> SUFFICES ASSUME NEW i \in DOMAIN new, NEW j \in DOMAIN new, new[i].key = new[j].key
                   PROVE  i = j
        BY DEF OneEntryPerKey
      <3>1. i + 1 = j + 1
        BY <1>6, <2>2 DEF OneEntryPerKey
      <3> QED
        BY <2>2, <3>1
    <2> QED
      BY <1>1, <1>3, <1>4, <1>5, <2>1, <2>2, <2>3
  <1>8. CASE ~(Len(more) > Retained)
    BY <1>2, <1>3, <1>4, <1>5, <1>6, <1>8
  <1> QED
    BY <1>7, <1>8

------------------------------------------------------------------------------
(* The feed: the inductive invariant *)

\* An answer is in flight while its symbol is visited; while its closes are
\* being stored the candles kept are those of this answer.
InFlight ==
    \A s \in Watchlist :
        /\ answers[s] # Nothing =>
               /\ stage \in {"warm", "scan"} /\ s \in todo
               /\ answers[s].last \in Nat /\ answers[s].read \in Nat
        /\ storing[s] # NotStoring =>
               /\ answers[s] # Nothing
               /\ recent[s].read = answers[s].read /\ recent[s].last = answers[s].last
               /\ storing[s] \in FirstMinute(answers[s])..answers[s].last

\* The minutes of the candles in hand that the cache has taken.
Taken(s, m) == Covers(recent[s], m) /\ (storing[s] = NotStoring \/ m < storing[s])

\* Candles that were answered after the last trade of a minute have left its
\* final close in the cache, if they left any.
FinalCloses ==
    \A i \in DOMAIN closes, s \in Watchlist, m \in Nat :
        closes[i].key = <<s, m>> /\ Taken(s, m) /\ recent[s].read >= LastTrade(m)
            => closes[i].close = LastTrade(m)

FeedInv == FeedTypeOK /\ InFlight /\ FinalCloses

Candle(t) == [read : -1..t, last : -1..MinuteAt(t), at : -1..t]

Entry(t) == [key : Watchlist \X Nat, close : 0..t]

Claim(t) == [symbol : Watchlist, born : 0..t, exit : NoKline..t]

\* The type invariant, in named parts.
LEMMA FeedTyped ==
    FeedTypeOK <=>
        /\ tick \in 0..LastTick /\ asOf \in 0..tick
        /\ stage \in {"sleep", "warm", "scan", "score"} /\ todo \subseteq Watchlist
        /\ recent \in [Watchlist -> Candle(tick)] /\ answers \in [Watchlist -> Candle(tick)]
        /\ storing \in [Watchlist -> -1..MinuteAt(tick)]
        /\ closes \in Seq(Entry(tick)) /\ Len(closes) <= Retained
        /\ OneEntryPerKey(closes)
        /\ claims \in Seq(Claim(tick)) /\ Len(claims) <= MaxClaims
  BY DEF FeedTypeOK, Candle, Entry, Claim, OneEntryPerKey

\* What is on record at a tick is on record at the next.
LEMMA RecordsAge ==
    ASSUME NEW t \in Nat
    PROVE  /\ Candle(t) \subseteq Candle(t + 1)
           /\ -1..MinuteAt(t) \subseteq -1..MinuteAt(t + 1)
           /\ Entry(t) \subseteq Entry(t + 1)
           /\ Claim(t) \subseteq Claim(t + 1)
  <1>1. /\ MinuteAt(t) \in Nat /\ MinuteAt(t + 1) \in Nat
        /\ MinuteAt(t) <= MinuteAt(t + 1)
    BY MinutesPass
  <1> QED
    BY <1>1 DEF Candle, Entry, Claim, NoKline

LEMMA NothingTyped == ASSUME NEW t \in Nat PROVE Nothing \in Candle(t) /\ Nothing.last = -1
  <1>1. MinuteAt(t) \in Nat
    BY MinutesPass
  <1> QED
    BY <1>1 DEF Nothing, Candle

LEMMA FeedStarts == FeedInit => FeedInv
  <1> SUFFICES ASSUME FeedInit PROVE FeedInv
    OBVIOUS
  <1>1. FeedTypeOK
    <2>1. tick = 0 /\ 0 \in Nat /\ MinuteAt(0) \in Nat
      BY MinutesPass DEF FeedInit
    <2>2. Nothing \in Candle(tick)
      BY <2>1, NothingTyped
    <2>3. closes = <<>> /\ claims = <<>> /\ Len(<<>>) = 0
      BY DEF FeedInit
    <2>4. OneEntryPerKey(closes)
      BY <2>3 DEF OneEntryPerKey
    <2>5. storing \in [Watchlist -> -1..MinuteAt(tick)]
      BY <2>1 DEF FeedInit, NotStoring
    <2> QED
      BY <2>1, <2>2, <2>3, <2>4, <2>5, FeedTyped, FeedBounds DEF FeedInit
  <1>2. InFlight
    BY DEF FeedInit, InFlight
  <1>3. FinalCloses
    BY DEF FeedInit, FinalCloses
  <1> QED
    BY <1>1, <1>2, <1>3 DEF FeedInv

\* A cache that is left alone keeps its final closes.
LEMMA CachesAlone ==
    ASSUME FinalCloses, UNCHANGED <<recent, closes, storing>>
    PROVE  FinalCloses'
  BY DEF FinalCloses, Taken, Covers

\* Nothing is in flight outside the visits.
LEMMA NothingAway ==
    ASSUME InFlight, stage \notin {"warm", "scan"} \/ todo = {}
    PROVE  \A s \in Watchlist : answers[s] = Nothing /\ storing[s] = NotStoring
  BY DEF InFlight

\* Steps between the visits.
LEMMA FeedMovesOn ==
    ASSUME FeedInv, FeedCycle \/ Warmed \/ Scanned \/ FeedSleep
    PROVE  FeedInv'
  <1>1. UNCHANGED <<tick, recent, closes, answers, storing, claims>>
    BY DEF FeedCycle, Warmed, Scanned, FeedSleep, caches
  <1>2. stage \notin {"warm", "scan"} \/ todo = {}
    BY DEF FeedCycle, Warmed, Scanned, FeedSleep
  <1>3. InFlight'
    BY <1>1, <1>2, NothingAway DEF FeedInv, InFlight
  <1>4. /\ tick \in 0..LastTick /\ asOf' \in {asOf, tick} /\ asOf \in 0..tick
        /\ stage' \in {"sleep", "warm", "scan", "score"}
        /\ todo' \in {todo, Watchlist} /\ todo \subseteq Watchlist
    BY DEF FeedInv, FeedTypeOK, FeedCycle, Warmed, Scanned, FeedSleep
  <1>5. asOf' \in 0..tick /\ todo' \subseteq Watchlist
    BY <1>4, FeedBounds
  <1>6. FeedTypeOK'
    BY <1>1, <1>4, <1>5 DEF FeedInv, FeedTypeOK, MinuteAt
  <1> QED
    BY <1>1, <1>3, <1>6, CachesAlone DEF FeedInv

\* Time passes.
LEMMA FeedAges == ASSUME FeedInv, FeedTick PROVE FeedInv'
  <1>1. /\ tick' = tick + 1 /\ tick < LastTick
        /\ UNCHANGED <<recent, closes, answers, storing, stage, asOf, todo, claims>>
    BY DEF FeedTick, caches
  <1>2. tick \in 0..LastTick /\ LastTick \in Nat /\ asOf \in 0..tick
    BY FeedBounds DEF FeedInv, FeedTypeOK
  <1>3. FeedTypeOK'
    <2>1. tick \in Nat /\ tick' \in 0..LastTick /\ asOf' \in 0..tick'
      BY <1>1, <1>2
    <2>2. /\ Candle(tick) \subseteq Candle(tick') /\ Entry(tick) \subseteq Entry(tick')
          /\ -1..MinuteAt(tick) \subseteq -1..MinuteAt(tick')
          /\ Claim(tick) \subseteq Claim(tick')
      BY <1>1, <2>1, RecordsAge
    <2>3. /\ recent \in [Watchlist -> Candle(tick)] /\ answers \in [Watchlist -> Candle(tick)]
          /\ storing \in [Watchlist -> -1..MinuteAt(tick)]
          /\ closes \in Seq(Entry(tick)) /\ claims \in Seq(Claim(tick))
      BY FeedTyped DEF FeedInv
    <2>4. /\ recent' \in [Watchlist -> Candle(tick')] /\ answers' \in [Watchlist -> Candle(tick')]
          /\ storing' \in [Watchlist -> -1..MinuteAt(tick')]
      BY <1>1, <2>2, <2>3
    <2>5. closes' \in Seq(Entry(tick')) /\ claims' \in Seq(Claim(tick'))
      BY <1>1, <2>2, <2>3
    <2> QED
      BY <1>1, <2>1, <2>4, <2>5
      DEF FeedInv, FeedTypeOK, Candle, Entry, Claim
  <1>4. InFlight'
    BY <1>1 DEF FeedInv, InFlight, FirstMinute
  <1> QED
    BY <1>1, <1>3, <1>4, CachesAlone DEF FeedInv

\* The process starts again with empty caches.
LEMMA FeedStartsAgain == ASSUME FeedInv, FeedRestart PROVE FeedInv'
  <1>1. /\ stage' = "sleep" /\ todo' = {} /\ UNCHANGED <<tick, asOf, claims>>
        /\ recent' = [s \in Watchlist |-> Nothing] /\ closes' = <<>>
        /\ answers' = [s \in Watchlist |-> Nothing]
        /\ storing' = [s \in Watchlist |-> NotStoring]
    BY DEF FeedRestart
  <1>2. tick \in Nat /\ MinuteAt(tick) \in Nat
    <2>1. tick \in Nat
      BY FeedBounds DEF FeedInv, FeedTypeOK
    <2> QED
      BY <2>1, MinutesPass
  <1>3. FeedTypeOK'
    <2>1. Nothing \in Candle(tick)
      BY <1>2, NothingTyped
    <2>2. recent' \in [Watchlist -> Candle(tick)] /\ answers' \in [Watchlist -> Candle(tick)]
      BY <1>1, <2>1
    <2>3. storing' \in [Watchlist -> -1..MinuteAt(tick)]
      BY <1>1, <1>2 DEF NotStoring
    <2>4. closes' \in Seq(Entry(tick)) /\ Len(closes') = 0
      BY <1>1
    <2> QED
      BY <1>1, <1>2, <2>2, <2>3, <2>4, FeedBounds
      DEF FeedInv, FeedTypeOK, Candle, Entry, Claim, MinuteAt
  <1>4. InFlight'
    BY <1>1 DEF InFlight
  <1>5. FinalCloses'
    BY <1>1 DEF FinalCloses
  <1> QED
    BY <1>3, <1>4, <1>5 DEF FeedInv

\* A request is answered.
LEMMA FeedAnswers ==
    ASSUME FeedInv, NEW s \in Watchlist, Answer(s)
    PROVE  FeedInv'
  <1> DEFINE answer == [read |-> tick, last |-> MinuteAt(asOf), at |-> -1]
  <1>1. /\ stage \in {"warm", "scan"} /\ s \in todo /\ answers[s] = Nothing
        /\ answers' = [answers EXCEPT ![s] = answer]
        /\ UNCHANGED <<tick, recent, closes, storing, stage, asOf, todo, claims>>
    BY DEF Answer
  <1>2. /\ tick \in Nat /\ asOf \in Nat /\ asOf <= tick
        /\ answers \in [Watchlist -> Candle(tick)]
    BY FeedTyped, FeedBounds DEF FeedInv
  <1>3. MinuteAt(asOf) \in Nat /\ MinuteAt(asOf) <= MinuteAt(tick) /\ MinuteAt(tick) \in Nat
    BY <1>2, MinutesPass
  <1>4. answer \in Candle(tick) /\ answer.last \in Nat /\ answer.read \in Nat
    BY <1>2, <1>3 DEF Candle
  <1> HIDE DEF answer
  <1>5. /\ answers' \in [Watchlist -> Candle(tick)]
        /\ answers'[s] = answer
        /\ \A q \in Watchlist \ {s} : answers'[q] = answers[q]
    BY <1>1, <1>2, <1>4
  <1>6. FeedTypeOK'
    BY <1>1, <1>5 DEF FeedInv, FeedTypeOK, Candle, MinuteAt
  <1>7. storing[s] = NotStoring
    BY <1>1 DEF FeedInv, InFlight
  <1>8. InFlight'
    <2> SUFFICES ASSUME NEW q \in Watchlist
                 PROVE  /\ answers'[q] # Nothing =>
                              /\ stage \in {"warm", "scan"} /\ q \in todo
                              /\ answers'[q].last \in Nat /\ answers'[q].read \in Nat
                        /\ storing[q] # NotStoring =>
                              /\ answers'[q] # Nothing
                              /\ recent[q].read = answers'[q].read
                              /\ recent[q].last = answers'[q].last
                              /\ storing[q] \in FirstMinute(answers'[q])..answers'[q].last
      BY <1>1 DEF InFlight, FirstMinute
    <2>1. CASE q = s
      BY <1>1, <1>4, <1>5, <1>7, <2>1
    <2>2. CASE q # s
      BY <1>5, <2>2 DEF FeedInv, InFlight
    <2> QED
      BY <2>1, <2>2
  <1> QED
    BY <1>1, <1>6, <1>8, CachesAlone DEF FeedInv

\* The candles are kept: none of their minutes counts as taken yet.
LEMMA FeedKeeps ==
    ASSUME FeedInv, NEW s \in Watchlist, Keep(s)
    PROVE  FeedInv'
  <1> DEFINE answer == answers[s]
             kept == [answers[s] EXCEPT !.at = tick]
             first == FirstMinute(answers[s])
  <1>1. /\ answer # Nothing /\ storing[s] = NotStoring
        /\ recent' = [recent EXCEPT ![s] = kept]
        /\ storing' = [storing EXCEPT ![s] = first]
        /\ UNCHANGED <<tick, closes, answers, stage, asOf, todo, claims>>
    BY DEF Keep
  <1>2. /\ tick \in Nat /\ answer \in Candle(tick)
        /\ recent \in [Watchlist -> Candle(tick)]
        /\ storing \in [Watchlist -> -1..MinuteAt(tick)]
    BY FeedTyped, FeedBounds DEF FeedInv
  <1>3. answer.last \in Nat /\ answer.read \in Nat /\ stage \in {"warm", "scan"} /\ s \in todo
    BY <1>1 DEF FeedInv, InFlight
  <1>4. MinuteAt(tick) \in Nat /\ answer.last <= MinuteAt(tick)
    BY <1>2, <1>3, MinutesPass DEF Candle
  <1>5. /\ kept \in Candle(tick) /\ kept.last = answer.last /\ kept.read = answer.read
    BY <1>2 DEF Candle
  <1>6. /\ first \in 0..answer.last /\ first \in -1..MinuteAt(tick)
        /\ first = IF answer.last < Bars THEN 0 ELSE answer.last - Bars + 1
    BY <1>3, <1>4, FeedBounds DEF FirstMinute
  <1> HIDE DEF answer, kept, first
  <1>7. /\ recent' \in [Watchlist -> Candle(tick)]
        /\ recent'[s] = kept
        /\ storing' \in [Watchlist -> -1..MinuteAt(tick)]
        /\ storing'[s] = first
        /\ \A q \in Watchlist \ {s} : recent'[q] = recent[q] /\ storing'[q] = storing[q]
    BY <1>1, <1>2, <1>5, <1>6
  <1>8. FeedTypeOK'
    BY <1>1, <1>7 DEF FeedInv, FeedTypeOK, Candle, MinuteAt
  <1>9. InFlight'
    <2> SUFFICES ASSUME NEW q \in Watchlist
                 PROVE  /\ answers[q] # Nothing =>
                              /\ stage \in {"warm", "scan"} /\ q \in todo
                              /\ answers[q].last \in Nat /\ answers[q].read \in Nat
                        /\ storing'[q] # NotStoring =>
                              /\ answers[q] # Nothing
                              /\ recent'[q].read = answers[q].read
                              /\ recent'[q].last = answers[q].last
                              /\ storing'[q] \in FirstMinute(answers[q])..answers[q].last
      BY <1>1 DEF InFlight, FirstMinute
    <2>1. CASE q = s
      <3>1. FirstMinute(answers[q]) = first /\ answers[q] = answer
        BY <2>1 DEF answer, first
      <3>2. first \in first..answer.last
        BY <1>3, <1>6
      <3> QED
        BY <1>1, <1>3, <1>5, <1>7, <2>1, <3>1, <3>2
    <2>2. CASE q # s
      BY <1>7, <2>2 DEF FeedInv, InFlight
    <2> QED
      BY <2>1, <2>2
  <1>10. FinalCloses'
    <2> SUFFICES ASSUME NEW i \in DOMAIN closes, NEW q \in Watchlist, NEW m \in Nat,
                        closes[i].key = <<q, m>>, Taken(q, m)', recent'[q].read >= LastTrade(m)
                 PROVE  closes[i].close = LastTrade(m)
      BY <1>1 DEF FinalCloses, LastTrade
    <2>1. CASE q = s
      <3>1. answer.last - Bars < m
        BY <1>5, <1>7, <2>1 DEF Taken, Covers
      <3>2. m < first
        BY <1>6, <1>7, <2>1 DEF Taken, NotStoring
      <3> QED
        BY <1>3, <1>6, <3>1, <3>2, FeedBounds
    <2>2. CASE q # s
      <3>1. Taken(q, m) /\ recent[q].read >= LastTrade(m)
        BY <1>7, <2>2 DEF Taken, Covers
      <3> QED
        BY <3>1 DEF FeedInv, FinalCloses
    <2> QED
      BY <2>1, <2>2
  <1> QED
    BY <1>8, <1>9, <1>10 DEF FeedInv

\* The close of a minute is inserted.
LEMMA CloseInserted ==
    ASSUME FeedTypeOK, NEW key \in Watchlist \X Nat, NEW close \in 0..tick,
           closes' = CloseStored(closes, key, close)
    PROVE  /\ closes' \in Seq(Entry(tick)) /\ Len(closes') <= Retained
           /\ OneEntryPerKey(closes')
           /\ \A j \in DOMAIN closes' :
                 \/ closes'[j].key = key /\ closes'[j].close = close
                 \/ closes'[j].key # key /\ \E i \in DOMAIN closes : closes'[j] = closes[i]
  <1> DEFINE entry == [key |-> key, close |-> close]
  <1>1. entry \in Entry(tick) /\ entry.key = key /\ entry.close = close
    BY DEF Entry
  <1>2. closes \in Seq(Entry(tick)) /\ Len(closes) <= Retained /\ OneEntryPerKey(closes)
    BY FeedTyped
  <1>3. entry = [key |-> key, close |-> close]
    OBVIOUS
  <1> HIDE DEF entry
  <1>4. /\ closes' \in Seq(Entry(tick)) /\ Len(closes') <= Retained
        /\ OneEntryPerKey(closes')
        /\ \A j \in DOMAIN closes' :
              \/ closes'[j] = entry
              \/ closes'[j].key # key /\ \E i \in DOMAIN closes : closes'[j] = closes[i]
    BY <1>1, <1>2, <1>3, Insertion
  <1> QED
    BY <1>1, <1>4

\* A close of the answer in hand is inserted, and its minute is then taken.
\* What is left to show is what becomes of the answer.
LEMMA CloseTaken ==
    ASSUME FeedInv, NEW s \in Watchlist, StoresClose(s), UNCHANGED <<tick, recent>>,
           storing' \in [Watchlist -> Int],
           \A q \in Watchlist \ {s} : storing'[q] = storing[q],
           \/ storing'[s] = storing[s] + 1
           \/ storing[s] = answers[s].last
    PROVE  /\ closes' \in Seq(Entry(tick)) /\ Len(closes') <= Retained
           /\ OneEntryPerKey(closes')
           /\ FinalCloses'
  <1> DEFINE minute == storing[s]
             key == <<s, minute>>
             close == CloseAt(minute, answers[s].read)
  <1>1. /\ minute # NotStoring
        /\ answers[s].last \in Nat /\ answers[s].read \in Nat
        /\ recent[s].read = answers[s].read /\ recent[s].last = answers[s].last
        /\ minute \in FirstMinute(answers[s])..answers[s].last
    BY DEF StoresClose, FeedInv, InFlight
  <1>2. minute \in Nat /\ minute <= answers[s].last
    BY <1>1, FeedBounds DEF FirstMinute
  <1>3. tick \in Nat /\ answers[s].read <= tick
    BY <1>1, FeedBounds, FeedTyped DEF FeedInv, Candle
  <1>4. /\ close \in 0..tick
        /\ answers[s].read >= LastTrade(minute) => close = LastTrade(minute)
    <2>1. close \in 0..answers[s].read
      BY <1>1, <1>2, CloseAtTick
    <2>2. answers[s].read >= LastTrade(minute) => close = LastTrade(minute)
      BY <1>1, <1>2, CloseAtTick
    <2> HIDE DEF close
    <2>3. close \in 0..tick
      BY <1>1, <1>3, <2>1
    <2> QED
      BY <2>2, <2>3
  <1>5. closes' = CloseStored(closes, key, close) /\ key \in Watchlist \X Nat
    BY <1>2 DEF StoresClose
  <1>6. \A q \in Watchlist, m \in Nat : key = <<q, m>> => q = s /\ m = minute
    OBVIOUS
  <1> HIDE DEF key, close
  <1>7. /\ closes' \in Seq(Entry(tick)) /\ Len(closes') <= Retained
        /\ OneEntryPerKey(closes')
        /\ \A j \in DOMAIN closes' :
              \/ closes'[j].key = key /\ closes'[j].close = close
              \/ closes'[j].key # key /\ \E i \in DOMAIN closes : closes'[j] = closes[i]
    BY <1>4, <1>5, CloseInserted DEF FeedInv
  <1>8. FinalCloses'
    <2> SUFFICES ASSUME NEW j \in DOMAIN closes', NEW q \in Watchlist, NEW m \in Nat,
                        closes'[j].key = <<q, m>>, Covers(recent[q], m),
                        storing'[q] = NotStoring \/ m < storing'[q],
                        recent[q].read >= LastTrade(m)
                 PROVE  closes'[j].close = LastTrade(m)
      BY DEF FinalCloses, Taken, Covers, LastTrade
    <2>1. CASE closes'[j].key = key
      <3>1. q = s /\ m = minute
        BY <1>6, <2>1
      <3> QED
        BY <1>1, <1>4, <1>7, <2>1, <3>1
    <2>2. CASE closes'[j].key # key
      <3>1. PICK i \in DOMAIN closes : closes'[j] = closes[i]
        BY <1>7, <2>2
      <3>2. ~(q = s /\ m = minute)
        BY <2>2 DEF key
      <3>3. Taken(q, m)
        <4>1. CASE q # s
          BY <4>1 DEF Taken
        <4>2. CASE q = s
          <5>1. m # minute /\ m <= answers[s].last
            BY <1>1, <3>2, <4>2 DEF Covers
          <5>2. m < minute
            BY <1>1, <1>2, <4>2, <5>1 DEF NotStoring
          <5> QED
            BY <4>2, <5>2 DEF Taken
        <4> QED
          BY <4>1, <4>2
      <3> QED
        BY <3>1, <3>3 DEF FeedInv, FinalCloses
    <2> QED
      BY <2>1, <2>2
  <1> QED
    BY <1>7, <1>8

\* One more close of an answer is stored.
LEMMA FeedStores ==
    ASSUME FeedInv, NEW s \in Watchlist, KeepClose(s)
    PROVE  FeedInv'
  <1>1. /\ StoresClose(s) /\ storing[s] < answers[s].last /\ storing[s] # NotStoring
        /\ storing' = [storing EXCEPT ![s] = storing[s] + 1]
        /\ UNCHANGED <<tick, recent, answers, stage, asOf, todo, claims>>
    BY DEF KeepClose, StoresClose
  <1>2. /\ storing \in [Watchlist -> -1..MinuteAt(tick)]
        /\ answers \in [Watchlist -> Candle(tick)] /\ tick \in Nat
    BY FeedTyped, FeedBounds DEF FeedInv
  <1>3. /\ answers[s].last \in Nat /\ storing[s] \in FirstMinute(answers[s])..answers[s].last
        /\ FirstMinute(answers[s]) \in Nat
    BY <1>1, FeedBounds DEF FeedInv, InFlight, FirstMinute
  <1>4. MinuteAt(tick) \in Nat /\ answers[s].last <= MinuteAt(tick)
    BY <1>2, <1>3, MinutesPass DEF Candle
  <1>5. /\ storing' \in [Watchlist -> -1..MinuteAt(tick)] /\ storing' \in [Watchlist -> Int]
        /\ storing'[s] = storing[s] + 1
        /\ \A q \in Watchlist \ {s} : storing'[q] = storing[q]
    BY <1>1, <1>2, <1>3, <1>4
  <1>6. /\ closes' \in Seq(Entry(tick)) /\ Len(closes') <= Retained
        /\ OneEntryPerKey(closes')
        /\ FinalCloses'
    BY <1>1, <1>5, CloseTaken
  <1>7. FeedTypeOK'
    BY <1>1, <1>5, <1>6
    DEF FeedInv, FeedTypeOK, Candle, Entry, Claim, MinuteAt, OneEntryPerKey
  <1>8. InFlight'
    <2> SUFFICES ASSUME NEW q \in Watchlist
                 PROVE  /\ answers[q] # Nothing =>
                              /\ stage \in {"warm", "scan"} /\ q \in todo
                              /\ answers[q].last \in Nat /\ answers[q].read \in Nat
                        /\ storing'[q] # NotStoring =>
                              /\ answers[q] # Nothing
                              /\ recent[q].read = answers[q].read
                              /\ recent[q].last = answers[q].last
                              /\ storing'[q] \in FirstMinute(answers[q])..answers[q].last
      BY <1>1 DEF InFlight, FirstMinute
    <2>1. CASE q = s
      BY <1>1, <1>3, <1>5, <2>1 DEF FeedInv, InFlight
    <2>2. CASE q # s
      BY <1>5, <2>2 DEF FeedInv, InFlight
    <2> QED
      BY <2>1, <2>2
  <1> QED
    BY <1>6, <1>7, <1>8 DEF FeedInv

\* A visit ends: candles_at returns or raises, and a prediction may be made.
LEMMA FeedVisits ==
    ASSUME FeedInv, NEW s \in Watchlist, Warm(s) \/ Observe(s) \/ Unobserved(s)
    PROVE  FeedInv'
  <1>1. /\ stage \in {"warm", "scan"} /\ todo' = todo \ {s}
        /\ UNCHANGED <<tick, stage, asOf>>
        /\ Candles(s) \/ NoCandles(s)
    BY DEF Warm, Observe, Unobserved
  <1>2. /\ storing \in [Watchlist -> -1..MinuteAt(tick)]
        /\ answers \in [Watchlist -> Candle(tick)] /\ tick \in Nat
        /\ closes \in Seq(Entry(tick)) /\ Len(closes) <= Retained /\ OneEntryPerKey(closes)
        /\ claims \in Seq(Claim(tick)) /\ Len(claims) <= MaxClaims /\ asOf \in 0..tick
    BY FeedTyped, FeedBounds DEF FeedInv
  <1>3. claims' \in Seq(Claim(tick)) /\ Len(claims') <= MaxClaims
    <2>1. CASE claims' = claims
      BY <1>2, <2>1
    <2>2. CASE claims' # claims
      <3> DEFINE claim == [symbol |-> s, born |-> asOf, exit |-> Unjudged]
      <3>1. claims' = Append(claims, claim) /\ Len(claims) # MaxClaims
        BY <2>2 DEF Warm, Observe, Unobserved
      <3>2. claim \in Claim(tick)
        BY <1>2 DEF Claim, Unjudged, NoKline
      <3> HIDE DEF claim
      <3> QED
        BY <1>2, <3>1, <3>2, FeedBounds
    <2> QED
      BY <2>1, <2>2
  <1>4. CASE answers[s] = Nothing /\ UNCHANGED caches
    <2>1. FeedTypeOK'
      BY <1>1, <1>3, <1>4
      DEF FeedInv, FeedTypeOK, Candle, Entry, Claim, MinuteAt, caches
    <2>2. InFlight'
      BY <1>1, <1>4 DEF FeedInv, InFlight, FirstMinute, caches
    <2> QED
      BY <1>4, <2>1, <2>2, CachesAlone DEF FeedInv, caches
  <1>5. CASE StoresClose(s) /\ storing[s] = answers[s].last /\ Answered(s) /\ UNCHANGED recent
    <2>1. /\ answers' = [answers EXCEPT ![s] = Nothing]
          /\ storing' = [storing EXCEPT ![s] = NotStoring]
          /\ UNCHANGED recent
      BY <1>5 DEF Answered
    <2>2. MinuteAt(tick) \in Nat /\ Nothing \in Candle(tick)
      BY <1>2, MinutesPass, NothingTyped
    <2>3. /\ storing' \in [Watchlist -> -1..MinuteAt(tick)] /\ storing' \in [Watchlist -> Int]
          /\ answers' \in [Watchlist -> Candle(tick)]
          /\ answers'[s] = Nothing /\ storing'[s] = NotStoring
          /\ \A q \in Watchlist \ {s} : answers'[q] = answers[q] /\ storing'[q] = storing[q]
      BY <1>2, <2>1, <2>2 DEF NotStoring
    <2>4. /\ closes' \in Seq(Entry(tick)) /\ Len(closes') <= Retained
          /\ OneEntryPerKey(closes')
          /\ FinalCloses'
      BY <1>1, <1>5, <2>3, CloseTaken
    <2>5. FeedTypeOK'
      BY <1>1, <1>3, <2>1, <2>3, <2>4
      DEF FeedInv, FeedTypeOK, Candle, Entry, Claim, MinuteAt, OneEntryPerKey
    <2>6. InFlight'
      <3> SUFFICES ASSUME NEW q \in Watchlist
                   PROVE  /\ answers'[q] # Nothing =>
                                /\ stage \in {"warm", "scan"} /\ q \in todo'
                                /\ answers'[q].last \in Nat /\ answers'[q].read \in Nat
                          /\ storing'[q] # NotStoring =>
                                /\ answers'[q] # Nothing
                                /\ recent[q].read = answers'[q].read
                                /\ recent[q].last = answers'[q].last
                                /\ storing'[q] \in FirstMinute(answers'[q])..answers'[q].last
        BY <1>1, <2>1 DEF InFlight, FirstMinute
      <3>1. CASE q = s
        BY <2>3, <3>1
      <3>2. CASE q # s
        BY <1>1, <2>3, <3>2 DEF FeedInv, InFlight
      <3> QED
        BY <3>1, <3>2
    <2> QED
      BY <2>4, <2>5, <2>6 DEF FeedInv
  <1> QED
    BY <1>1, <1>4, <1>5 DEF Candles, NoCandles

------------------------------------------------------------------------------
(* The feed: price_at *)

\* A prediction gets its price.
LEMMA ClaimJudged ==
    ASSUME NEW t \in Nat, NEW rows \in Seq(Claim(t)), NEW i \in DOMAIN rows,
           NEW exit \in NoKline..t, NEW new, new = [rows EXCEPT ![i].exit = exit]
    PROVE  /\ new \in Seq(Claim(t)) /\ Len(new) = Len(rows)
           /\ new[i].exit = exit
           /\ \A j \in DOMAIN rows \ {i} : new[j] = rows[j]
  <1> DEFINE row == [rows[i] EXCEPT !.exit = exit]
  <1>1. rows[i] \in Claim(t)
    BY ElementOfSeq
  <1>2. row \in Claim(t) /\ row.exit = exit
    BY <1>1 DEF Claim
  <1>3. [rows EXCEPT ![i].exit = exit] = [rows EXCEPT ![i] = row]
    OBVIOUS
  <1> HIDE DEF row
  <1>4. new = [rows EXCEPT ![i] = row]
    BY <1>3
  <1>5. /\ new \in Seq(Claim(t)) /\ Len(new) = Len(rows)
        /\ new[i] = row
        /\ \A j \in DOMAIN rows \ {i} : new[j] = rows[j]
    BY <1>2, <1>4, ExceptSeq
  <1> QED
    BY <1>2, <1>5

\* A prediction that is due is one on record, and its minute is a minute.
LEMMA ClaimDue ==
    ASSUME FeedInv, NEW i \in DOMAIN claims
    PROVE  /\ claims[i].symbol \in Watchlist
           /\ HorizonMinute(claims[i]) \in Nat
  <1>1. claims \in Seq(Claim(tick)) /\ i \in 1..Len(claims) /\ tick \in Nat
    BY FeedTyped, FeedBounds DEF FeedInv
  <1>2. claims[i] \in Claim(tick)
    BY <1>1, ElementOfSeq
  <1>3. Horizon * Minute \in Nat
    BY FeedBounds
  <1>4. claims[i].born + Horizon * Minute \in Nat
    BY <1>1, <1>2, <1>3 DEF Claim
  <1> QED
    BY <1>2, <1>4, MinutesPass DEF Claim, HorizonMinute

\* What JudgedByFinalClose says of a step.
JudgedStep ==
    \A i \in DOMAIN claims :
        claims[i].exit = Unjudged /\ claims'[i].exit >= 0 /\ Refetched(claims[i])
            => claims'[i].exit = LastTrade(HorizonMinute(claims[i]))

\* A claim that is judged by the price of its minute keeps the rest of the
\* invariant, and is judged as the promise says.
LEMMA Judgement ==
    ASSUME FeedInv, NEW i \in DOMAIN claims, NEW exit \in NoKline..tick,
           claims' = [claims EXCEPT ![i].exit = exit],
           exit >= 0 /\ Refetched(claims[i]) => exit = LastTrade(HorizonMinute(claims[i]))
    PROVE  /\ claims' \in Seq(Claim(tick)) /\ Len(claims') <= MaxClaims
           /\ JudgedStep
  <1>1. claims \in Seq(Claim(tick)) /\ Len(claims) <= MaxClaims /\ tick \in Nat
    BY FeedTyped, FeedBounds DEF FeedInv
  <1>2. /\ claims' \in Seq(Claim(tick)) /\ Len(claims') = Len(claims)
        /\ claims'[i].exit = exit
        /\ \A j \in DOMAIN claims \ {i} : claims'[j] = claims[j]
    BY <1>1, ClaimJudged
  <1>3. JudgedStep
    BY <1>2 DEF JudgedStep, Unjudged
  <1> QED
    BY <1>1, <1>2, <1>3

LEMMA FeedScores ==
    ASSUME FeedInv, NEW i \in DOMAIN claims,
           ScoreFromCache(i) \/ ScoreFetched(i) \/ ScoreFails(i)
    PROVE  FeedInv' /\ JudgedStep
  <1> DEFINE q == claims[i].symbol
             m == HorizonMinute(claims[i])
             key == <<q, m>>
  <1>1. /\ stage = "score" /\ UNCHANGED <<tick, recent, answers, storing, stage, asOf, todo>>
    BY DEF ScoreFromCache, ScoreFetched, ScoreFails, caches
  <1>2. q \in Watchlist /\ m \in Nat /\ key \in Watchlist \X Nat
    BY ClaimDue
  <1>3. tick \in Nat /\ recent \in [Watchlist -> Candle(tick)]
        /\ closes \in Seq(Entry(tick)) /\ Len(closes) <= Retained /\ OneEntryPerKey(closes)
    BY FeedTyped, FeedBounds DEF FeedInv
  <1>4. storing[q] = NotStoring
    BY <1>1, <1>2, NothingAway DEF FeedInv
  <1>5. InFlight'
    BY <1>1 DEF FeedInv, InFlight, FirstMinute
  <1>6. ASSUME claims' \in Seq(Claim(tick)), Len(claims') <= MaxClaims,
               closes' \in Seq(Entry(tick)), Len(closes') <= Retained, OneEntryPerKey(closes')
        PROVE  FeedTypeOK'
    BY <1>1, <1>6 DEF FeedInv, FeedTypeOK, Candle, Entry, Claim, MinuteAt, OneEntryPerKey
  <1>7. CASE ScoreFromCache(i)
    <2>1. PICK c \in Cached(key) : claims' = [claims EXCEPT ![i].exit = closes[c].close]
      BY <1>7 DEF ScoreFromCache
    <2>2. UNCHANGED <<recent, closes, storing>>
      BY <1>7 DEF ScoreFromCache, caches
    <2>3. c \in 1..Len(closes) /\ closes[c].key = key
      BY <1>3 DEF Cached
    <2>4. closes[c].close \in 0..tick
      <3>1. closes[c] \in Entry(tick)
        BY <1>3, <2>3, ElementOfSeq
      <3> QED
        BY <3>1 DEF Entry
    <2>5. closes[c].close \in NoKline..tick
      BY <1>3, <2>4 DEF NoKline
    <2>6. Refetched(claims[i]) => closes[c].close = LastTrade(m)
      BY <1>2, <1>3, <1>4, <2>3 DEF Refetched, FeedInv, FinalCloses, Taken
    <2> DEFINE exit == closes[c].close
    <2> HIDE DEF exit
    <2>7. /\ claims' \in Seq(Claim(tick)) /\ Len(claims') <= MaxClaims
          /\ JudgedStep
      BY <2>1, <2>5, <2>6, Judgement DEF exit
    <2> QED
      BY <1>3, <1>5, <1>6, <2>2, <2>7, CachesAlone DEF FeedInv
  <1>8. CASE ScoreFetched(i)
    <2> DEFINE close == CloseAt(m, tick)
    <2>1. claims' = [claims EXCEPT ![i].exit = close] /\ closes' = CloseStored(closes, key, close)
      BY <1>8 DEF ScoreFetched
    <2>2. close \in 0..tick /\ (tick >= LastTrade(m) => close = LastTrade(m))
      BY <1>2, <1>3, CloseAtTick
    <2>3. \A p \in Watchlist, n \in Nat : key = <<p, n>> => p = q /\ n = m
      OBVIOUS
    <2>4. \A p \in Watchlist, n \in Nat :
              recent[p].read >= LastTrade(n) => tick >= LastTrade(n)
      <3> TAKE p \in Watchlist, n \in Nat
      <3>1. recent[p].read \in Int /\ recent[p].read <= tick
        BY <1>3 DEF Candle
      <3>2. LastTrade(n) \in Nat
        BY LastTradeNatural
      <3> QED
        BY <1>3, <3>1, <3>2
    <2>5. close \in NoKline..tick
      BY <1>3, <2>2 DEF NoKline
    <2>6. Refetched(claims[i]) => close = LastTrade(m)
      BY <1>2, <2>2, <2>4 DEF Refetched
    <2> HIDE DEF close, key
    <2>7. /\ closes' \in Seq(Entry(tick)) /\ Len(closes') <= Retained
          /\ OneEntryPerKey(closes')
          /\ \A j \in DOMAIN closes' :
                \/ closes'[j].key = key /\ closes'[j].close = close
                \/ closes'[j].key # key /\ \E k \in DOMAIN closes : closes'[j] = closes[k]
      BY <1>2, <2>1, <2>2, CloseInserted DEF FeedInv
    <2>8. FinalCloses'
      <3> SUFFICES ASSUME NEW j \in DOMAIN closes', NEW p \in Watchlist, NEW n \in Nat,
                          closes'[j].key = <<p, n>>, Taken(p, n),
                          recent[p].read >= LastTrade(n)
                   PROVE  closes'[j].close = LastTrade(n)
        BY <1>1 DEF FinalCloses, Taken, Covers, LastTrade
      <3>1. CASE closes'[j].key = key
        BY <2>2, <2>3, <2>4, <2>7, <3>1
      <3>2. CASE closes'[j].key # key
        <4>1. PICK k \in DOMAIN closes : closes'[j] = closes[k]
          BY <2>7, <3>2
        <4>2. closes[k].key = <<p, n>>
          BY <4>1
        <4>3. closes[k].close = LastTrade(n)
          BY <4>2 DEF FeedInv, FinalCloses
        <4> QED
          BY <4>1, <4>3
      <3> QED
        BY <3>1, <3>2
    <2>9. /\ claims' \in Seq(Claim(tick)) /\ Len(claims') <= MaxClaims
          /\ JudgedStep
      BY <2>1, <2>5, <2>6, Judgement
    <2> QED
      BY <1>5, <1>6, <2>7, <2>8, <2>9 DEF FeedInv
  <1>9. CASE ScoreFails(i)
    <2>1. claims' = [claims EXCEPT ![i].exit = NoKline] /\ UNCHANGED <<recent, closes, storing>>
      BY <1>9 DEF ScoreFails, caches
    <2>2. NoKline \in NoKline..tick /\ ~(NoKline >= 0)
      BY <1>3 DEF NoKline
    <2>3. /\ claims' \in Seq(Claim(tick)) /\ Len(claims') <= MaxClaims
          /\ JudgedStep
      BY <2>1, <2>2, Judgement
    <2> QED
      BY <1>3, <1>5, <1>6, <2>1, <2>3, CachesAlone DEF FeedInv
  <1> QED
    BY <1>7, <1>8, <1>9

LEMMA FeedGoesOn == FeedInv /\ [FeedNext]_feedOwn => FeedInv'
  <1> SUFFICES ASSUME FeedInv, [FeedNext]_feedOwn PROVE FeedInv'
    OBVIOUS
  <1>1. CASE FeedTick
    BY <1>1, FeedAges
  <1>2. CASE FeedCycle \/ Warmed \/ Scanned \/ FeedSleep
    BY <1>2, FeedMovesOn
  <1>3. CASE FeedRestart
    BY <1>3, FeedStartsAgain
  <1>4. ASSUME NEW s \in Watchlist, Answer(s) PROVE FeedInv'
    BY <1>4, FeedAnswers
  <1>5. ASSUME NEW s \in Watchlist, Keep(s) PROVE FeedInv'
    BY <1>5, FeedKeeps
  <1>6. ASSUME NEW s \in Watchlist, KeepClose(s) PROVE FeedInv'
    BY <1>6, FeedStores
  <1>7. ASSUME NEW s \in Watchlist, Warm(s) \/ Observe(s) \/ Unobserved(s) PROVE FeedInv'
    BY <1>7, FeedVisits
  <1>8. ASSUME NEW i \in DOMAIN claims, ScoreFromCache(i) \/ ScoreFetched(i) \/ ScoreFails(i)
        PROVE  FeedInv'
    BY <1>8, FeedScores
  <1>9. CASE UNCHANGED feedOwn
    <2>1. UNCHANGED <<tick, recent, closes, answers, storing, stage, asOf, todo, claims>>
      BY <1>9 DEF feedOwn
    <2>2. FeedTypeOK'
      BY <2>1 DEF FeedInv, FeedTypeOK, MinuteAt
    <2>3. InFlight'
      BY <2>1 DEF FeedInv, InFlight, FirstMinute
    <2>4. FinalCloses'
      BY <2>1, CachesAlone DEF FeedInv
    <2> QED
      BY <2>2, <2>3, <2>4 DEF FeedInv
  <1> QED
    BY <1>1, <1>2, <1>3, <1>4, <1>5, <1>6, <1>7, <1>8, <1>9 DEF FeedNext

\* Only price_at gives a prediction its price.
LEMMA OnlyScoresJudge ==
    ASSUME FeedInv, [FeedNext]_feedOwn
    PROVE  JudgedStep
  <1>1. ASSUME UNCHANGED claims PROVE JudgedStep
    BY <1>1 DEF JudgedStep, Unjudged
  <1>2. ASSUME NEW s \in Watchlist, Warm(s) \/ Observe(s) \/ Unobserved(s) PROVE JudgedStep
    <2>1. CASE UNCHANGED claims
      BY <1>1, <2>1
    <2>2. CASE ~UNCHANGED claims
      <3>1. PICK claim : claims' = Append(claims, claim)
        BY <1>2, <2>2 DEF Warm, Observe, Unobserved
      <3>2. claims \in Seq(Claim(tick))
        BY FeedTyped DEF FeedInv
      <3>3. \A i \in DOMAIN claims : claims'[i] = claims[i]
        BY <3>1, <3>2
      <3> QED
        BY <3>3 DEF JudgedStep, Unjudged
    <2> QED
      BY <2>1, <2>2
  <1>3. ASSUME NEW i \in DOMAIN claims, ScoreFromCache(i) \/ ScoreFetched(i) \/ ScoreFails(i)
        PROVE  JudgedStep
    BY <1>3, FeedScores
  <1>4. CASE \/ FeedTick \/ FeedCycle \/ Warmed \/ Scanned \/ FeedSleep \/ FeedRestart
             \/ \E s \in Watchlist : Answer(s) \/ Keep(s) \/ KeepClose(s)
             \/ UNCHANGED feedOwn
    BY <1>1, <1>4 DEF FeedTick, FeedCycle, Warmed, Scanned, FeedSleep, FeedRestart, Answer, Keep,
       KeepClose, feedOwn
  <1> QED
    BY <1>2, <1>3, <1>4 DEF FeedNext

\* The inductive invariant of the feed.
THEOREM FeedSafe == FeedSpec => []FeedInv
  BY FeedStarts, FeedGoesOn, PTL DEF FeedSpec

\* A prediction is judged by the final close of its minute once the minute has
\* been fetched complete (RealMarketFeed.price_at, candles_at), whatever was
\* cached before, evicted, in flight or lost in a restart.
THEOREM FinalCloseJudges == FeedSpec => JudgedByFinalClose
  <1>1. FeedInv /\ [FeedNext]_feedOwn => [JudgedStep]_feedOwn
    BY OnlyScoresJudge
  <1>2. FeedSpec => [][JudgedStep]_feedOwn
    BY <1>1, FeedSafe, PTL DEF FeedSpec
  <1> QED
    BY <1>2 DEF JudgedByFinalClose, JudgedStep

------------------------------------------------------------------------------
(* The larger and the smaller of two *)

\* Of two integers one is the larger and one the smaller.
LEMMA OfTwo ==
    ASSUME NEW a \in Int, NEW b \in Int
    PROVE  /\ Max({a, b}) \in {a, b} /\ a <= Max({a, b}) /\ b <= Max({a, b})
           /\ Min({a, b}) \in {a, b} /\ Min({a, b}) <= a /\ Min({a, b}) <= b
  <1> DEFINE S == {a, b}
  <1>1. IsFiniteSet(S)
    <2>1. IsFiniteSet({a})
      BY FS_Singleton
    <2>2. IsFiniteSet({a} \cup {b})
      BY <2>1, FS_AddElement
    <2>3. S = {a} \cup {b}
      OBVIOUS
    <2> QED
      BY <2>2, <2>3
  <1>2. S \in SUBSET Int /\ S # {} /\ a \in S /\ b \in S
    OBVIOUS
  <1> HIDE DEF S
  <1>3. /\ Max(S) \in S /\ a <= Max(S) /\ b <= Max(S)
        /\ Min(S) \in S /\ Min(S) <= a /\ Min(S) <= b
    BY <1>1, <1>2, MaxMin
  <1> QED
    BY <1>3 DEF S

------------------------------------------------------------------------------
(* The days: the types *)

\* What the invariant of the day book does not say of its types.
DayTyped ==
    /\ lastDay \in Days \cup {NoDay}
    /\ cyclesOn \in [Days -> 0..MaxCount]
    /\ errorsOn \subseteq Days /\ ownDays \subseteq Days /\ failedDays \subseteq Days
    /\ \A d \in Days : daily[d] # NoRow => daily[d].number \in 1..TargetDays

LEMMA InitDays == DayInit => DayTyped
  <1> SUFFICES ASSUME DayInit PROVE DayTyped
    OBVIOUS
  <1>1. 0 \in 0..MaxCount
    BY Bounds
  <1> QED
    BY <1>1 DEF DayInit, DayTyped

\* The row of a day carries one of the days of the window.
LEMMA RowNumbered ==
    ASSUME now \in Nat, NEW d \in Days
    PROVE  RolledUp(d).number \in 1..TargetDays
  <1> DEFINE age == (now + SessionAge) \div DayLength + 1
             number == DayNumber(now)
  <1>1. TargetDays \in Nat \ {0} /\ SessionAge \in Nat /\ DayLength \in Nat \ {0}
    BY DayAssumption
  <1>2. age \in Nat \ {0}
    <2>1. \A n \in Nat, k \in Nat \ {0} : n \div k \in Nat
      OBVIOUS
    <2>2. (now + SessionAge) \div DayLength \in Nat
      BY <1>1, <2>1
    <2> QED
      BY <2>2
  <1>3. number = Max({1, Min({TargetDays, age})})
    BY DEF DayNumber
  <1> HIDE DEF age, number
  <1> DEFINE capped == Min({TargetDays, age})
  <1>4. capped \in 1..TargetDays
    <2>1. capped \in {TargetDays, age} /\ capped <= TargetDays
      BY <1>1, <1>2, OfTwo
    <2> HIDE DEF capped
    <2> QED
      BY <1>1, <1>2, <2>1
  <1>5. number \in 1..TargetDays
    <2> HIDE DEF capped
    <2>1. Max({1, capped}) \in {1, capped} /\ 1 <= Max({1, capped})
      BY <1>4, OfTwo
    <2>2. number \in {1, capped}
      BY <1>3, <2>1 DEF capped
    <2> QED
      BY <1>1, <1>4, <2>2
  <1>6. RolledUp(d).number = Higher(1, number - 1)
    BY DEF RolledUp, number
  <1> QED
    BY <1>1, <1>5, <1>6 DEF Higher

LEMMA DaysKeepTypes == DayInv /\ DayTyped /\ [DayNext]_dayVars => DayTyped'
  <1> SUFFICES ASSUME DayInv, DayTyped, [DayNext]_dayVars PROVE DayTyped'
    OBVIOUS
  <1>1. Day(clock) \in Days
    <2>1. clock \in Nat /\ MaxClock \in Nat /\ clock <= MaxClock
      BY Bounds DEF DayInv, Typed, ProcessOK
    <2>2. Day(clock) \in Nat /\ Day(MaxClock) \in Nat /\ Day(clock) <= Day(MaxClock)
      BY <2>1, DaysGrow
    <2> QED
      BY <2>2 DEF Days
  <1>2. CASE UNCHANGED <<lastDay, ownDays, cyclesOn, errorsOn, daily, failedDays>>
    BY <1>2 DEF DayTyped
  <1>3. CASE BookDies
    BY <1>3 DEF BookDies, DayTyped, tables
  <1>4. CASE Record
    <2>1. step # "idle" /\ UNCHANGED <<lastDay, ownDays, errorsOn, daily, failedDays>>
          /\ cyclesOn' = [cyclesOn EXCEPT ![Day(now)] = Counted(@)]
      BY <1>4 DEF Record, At
    <2>2. Day(now) \in Days
      BY <2>1, CycleDay
    <2>3. cyclesOn[Day(now)] \in 0..MaxCount
      BY <2>2 DEF DayTyped
    <2>4. Counted(cyclesOn[Day(now)]) \in 0..MaxCount
      BY <2>3, Counting
    <2> QED
      BY <2>1, <2>2, <2>4 DEF DayTyped
  <1>5. CASE RecordFails \/ LearnFails \/ RolloverRaises
    <2>1. /\ UNCHANGED <<lastDay, ownDays, cyclesOn, daily, failedDays>>
          /\ errorsOn' = errorsOn \cup {Day(clock)}
      BY <1>5 DEF RecordFails, LearnFails, RolloverRaises, memory
    <2> QED
      BY <1>1, <2>1 DEF DayTyped
  <1>6. CASE SameDay \/ Rollover \/ RolloverFails
    <2>1. /\ step # "idle" /\ DayNoted /\ UNCHANGED cyclesOn
          /\ errorsOn' \in {errorsOn, errorsOn \cup {Day(clock)}}
          /\ failedDays' \in {failedDays, failedDays \cup {lastDay}}
          /\ failedDays' # failedDays => lastDay # NoDay
          /\ \/ UNCHANGED daily
             \/ lastDay # NoDay /\ daily' = [daily EXCEPT ![lastDay] = RolledUp(lastDay)]
      BY <1>6 DEF SameDay, Rollover, RolloverFails, At, DayEnded, DayChanged, tables
    <2>2. Day(now) \in Days /\ now \in Nat
      BY <2>1, CycleDay DEF DayInv, DaysInOrder
    <2>3. \A d \in Days : daily'[d] # NoRow => daily'[d].number \in 1..TargetDays
      <3>1. CASE UNCHANGED daily
        BY <3>1 DEF DayTyped
      <3>2. CASE lastDay # NoDay /\ daily' = [daily EXCEPT ![lastDay] = RolledUp(lastDay)]
        <4>1. lastDay \in Days
          BY <3>2 DEF DayTyped
        <4>2. RolledUp(lastDay).number \in 1..TargetDays
          BY <2>2, <4>1, RowNumbered
        <4>3. DOMAIN daily = Days
          BY DEF DayInv, Typed
        <4>4. \A d \in Days : daily'[d] = IF d = lastDay THEN RolledUp(lastDay) ELSE daily[d]
          BY <3>2, <4>3
        <4> QED
          BY <4>2, <4>4 DEF DayTyped
      <3> QED
        BY <2>1, <3>1, <3>2
    <2>4. lastDay' \in Days /\ ownDays' \subseteq Days
      BY <2>1, <2>2 DEF DayNoted, DayTyped
    <2>5. errorsOn' \subseteq Days /\ failedDays' \subseteq Days
      BY <1>1, <2>1 DEF DayTyped
    <2> QED
      BY <2>1, <2>3, <2>4, <2>5 DEF DayTyped
  <1> QED
    BY <1>2, <1>3, <1>4, <1>5, <1>6 DEF DayNext, DayTick, BookOpens, BookWakes, Learn, dayVars,
       memory, tables

LEMMA DayTypes == DayInv /\ DayTyped => DayTypeOK
  <1> SUFFICES ASSUME DayInv, DayTyped PROVE DayTypeOK
    OBVIOUS
  <1>1. ProcessOK /\ {cycle, counter, begun} \subseteq 0..MaxCount
    BY DEF DayInv, Typed
  <1>2. peak \in Nat /\ safety \in [best : Nat, equity : Nat, peak : Nat]
    BY DEF DayInv, Typed
  <1>3. errorsOn \cup ownDays \cup failedDays \subseteq Days
    BY DEF DayTyped
  <1> QED
    BY <1>1, <1>2, <1>3 DEF DayTyped, DayTypeOK

------------------------------------------------------------------------------
(* The gates: the types, and what the calibrator returns *)

RecordRow == [regime : Regimes, stated : Stated, correct : {Held, 0, 1}]

RecordLimit == Max({MemoryRows, CalibrationRows})

GatesTyped ==
    /\ regime \in Regimes
    /\ record \in Seq(RecordRow) /\ Len(record) <= RecordLimit
    /\ made = NoPrediction \/ made \in [regime : Regimes, stated : Stated, acted : BOOLEAN]

LEMMA PercentSets ==
    ASSUME NEW S, S \subseteq 0..100, S # {}
    PROVE  Max(S) \in S /\ Min(S) \in S
  <1>1. \A n \in Nat : IsFiniteSet(0..n)
    BY FS_Interval
  <1>2. IsFiniteSet(S)
    BY <1>1, FS_Subset
  <1>3. S \in SUBSET Int
    OBVIOUS
  <1> QED
    BY <1>2, <1>3, MaxMin

\* A part in percent of a whole.
LEMMA Percentage ==
    ASSUME NEW share \in Nat, NEW whole \in Nat \ {0}, share <= whole
    PROVE  (100 * share) \div whole \in 0..100
  <1> DEFINE q == (100 * share) \div whole
  <1>1. q \in Nat /\ whole * q <= 100 * share
    <2>1. \A n \in Nat, k \in Nat \ {0} : n \div k \in Nat /\ k * (n \div k) <= n
      OBVIOUS
    <2>2. 100 * share \in Nat
      OBVIOUS
    <2> QED
      BY <2>1, <2>2
  <1> HIDE DEF q
  <1>2. ASSUME q > 100 PROVE FALSE
    <2>1. PICK d \in Nat : q = 101 + d
      BY <1>1, <1>2
    <2>2. whole * q = 101 * whole + whole * d /\ whole * d \in Nat
      BY <2>1
    <2> QED
      BY <1>1, <2>2
  <1> QED
    BY <1>1, <1>2 DEF q

\* The accuracy of a group that is not empty is a percentage.
LEMMA MeanIsPercentage ==
    ASSUME NEW rows, IsFiniteSet(rows), NEW a, NEW b,
           NEW i \in rows, a <= record[i].stated, record[i].stated <= b
    PROVE  Mean(rows, a, b) \in 0..100
  <1> DEFINE pool == {j \in rows : a <= record[j].stated /\ record[j].stated <= b}
             hits == {j \in pool : record[j].correct = 1}
  <1>1. IsFiniteSet(pool) /\ pool # {}
    <2>1. pool \subseteq rows
      OBVIOUS
    <2>2. i \in pool
      OBVIOUS
    <2> QED
      BY <2>1, <2>2, FS_Subset
  <1>2. Mean(rows, a, b) = (100 * Cardinality(hits)) \div Cardinality(pool)
    BY DEF Mean, Hits
  <1>3. hits \subseteq pool
    OBVIOUS
  <1> HIDE DEF pool, hits
  <1>4. /\ Cardinality(hits) \in Nat /\ Cardinality(pool) \in Nat \ {0}
        /\ Cardinality(hits) <= Cardinality(pool)
    BY <1>1, <1>3, FS_Subset, FS_CardinalityType, FS_EmptySet
  <1> QED
    BY <1>2, <1>4, Percentage

\* The isotonic map of a record that is not empty goes into the percentages.
LEMMA IsotonicIsPercentage ==
    ASSUME record \in Seq(RecordRow), NEW rows, IsFiniteSet(rows), rows # {},
           rows \subseteq DOMAIN record, NEW stated
    PROVE  Isotonic(rows, stated) \in 0..100
  <1> DEFINE levels == {record[i].stated : i \in rows}
             at == IF stated \in levels THEN stated ELSE CHOOSE l \in levels : TRUE
             Means(a) == {Mean(rows, a, b) : b \in {l \in levels : l >= at}}
             lowest == {Min(Means(a)) : a \in {l \in levels : l <= at}}
  <1>1. Isotonic(rows, stated) = Max(lowest)
    BY DEF Isotonic
  <1>2. levels \subseteq 0..100 /\ levels # {}
    <2>1. \A i \in rows : record[i] \in RecordRow
      BY ElementOfSeq
    <2>2. \A i \in rows : record[i].stated \in 0..100
      BY <2>1, GatesAssumption DEF RecordRow
    <2> QED
      BY <2>2
  <1>3. at \in levels /\ at >= at /\ at <= at
    <2>1. at \in levels
      BY <1>2
    <2> HIDE DEF at, levels
    <2>2. at \in Int
      BY <1>2, <2>1
    <2> QED
      BY <2>1, <2>2
  <1> HIDE DEF at
  <1>4. ASSUME NEW a \in levels, a <= at PROVE Min(Means(a)) \in 0..100
    <2>1. ASSUME NEW b \in levels, b >= at PROVE Mean(rows, a, b) \in 0..100
      <3>1. PICK i \in rows : record[i].stated = at
        BY <1>3
      <3>2. a <= record[i].stated /\ record[i].stated <= b
        BY <1>2, <1>3, <1>4, <2>1, <3>1
      <3> QED
        BY <3>2, MeanIsPercentage
    <2>2. Means(a) \subseteq 0..100
      BY <2>1
    <2>3. Means(a) # {}
      <3>1. Mean(rows, a, at) \in Means(a)
        BY <1>3
      <3> QED
        BY <3>1
    <2> HIDE DEF Means
    <2> QED
      BY <2>2, <2>3, PercentSets
  <1>5. lowest \subseteq 0..100
    BY <1>4
  <1>6. lowest # {}
    <2>1. Min(Means(at)) \in lowest
      BY <1>3
    <2> QED
      BY <2>1
  <1> HIDE DEF lowest
  <1> QED
    BY <1>1, <1>5, <1>6, PercentSets

\* ConfidenceCalibrator.calibrate returns a percentage, whatever the record is.
LEMMA CalibratedIsPercentage ==
    ASSUME record \in Seq(RecordRow), NEW c \in Stated
    PROVE  Calibrated(c) \in 0..100
  <1> DEFINE rows == Judged(CalibrationRows)
  <1>1. rows \subseteq DOMAIN record
    BY DEF Judged
  <1>2. IsFiniteSet(rows)
    <2>1. DOMAIN record = 1..Len(record) /\ Len(record) \in Nat
      OBVIOUS
    <2>2. IsFiniteSet(DOMAIN record)
      BY <2>1, FS_Interval
    <2> QED
      BY <1>1, <2>2, FS_Subset
  <1>3. c \in 0..100
    BY GatesAssumption
  <1>4. Calibrated(c) = IF \/ Cardinality(rows) < CalibrationMin
                           \/ Hits(rows) \in {0, Cardinality(rows)}
                        THEN c ELSE Isotonic(rows, c)
    BY DEF Calibrated
  <1>5. rows # {} => Isotonic(rows, c) \in 0..100
    <2> HIDE DEF rows
    <2> QED
      BY <1>1, <1>2, IsotonicIsPercentage
  <1>6. rows = {} => Cardinality(rows) < CalibrationMin
    BY FS_EmptySet, GatesAssumption
  <1> HIDE DEF rows
  <1> QED
    BY <1>3, <1>4, <1>5, <1>6

\* The latest rows are rows, as many as asked for at most.
LEMMA LatestTyped ==
    ASSUME NEW S, NEW rows \in Seq(S), NEW limit \in Nat \ {0}
    PROVE  Latest(rows, limit) \in Seq(S) /\ Len(Latest(rows, limit)) <= limit
  <1> DEFINE n == Len(rows)
             oldest == n - limit + 1
             first == Max({1, oldest})
  <1>1. n \in Nat /\ \A i \in 1..n : rows[i] \in S
    BY ElementOfSeq
  <1>2. oldest \in Int
    BY <1>1
  <1>3. first \in Int /\ first >= 1 /\ first >= oldest
    <2> HIDE DEF oldest
    <2>1. /\ Max({1, oldest}) \in {1, oldest}
          /\ 1 <= Max({1, oldest}) /\ oldest <= Max({1, oldest})
      <3>1. 1 \in Int
        OBVIOUS
      <3> QED
        BY <1>2, <3>1, OfTwo, Zenon
    <2>2. first = Max({1, oldest})
      OBVIOUS
    <2> HIDE DEF first
    <2>3. first \in {1, oldest} /\ 1 <= first /\ oldest <= first
      BY <2>1, <2>2
    <2> QED
      BY <1>2, <2>3
  <1>4. Latest(rows, limit) = SubSeq(rows, first, n)
    BY DEF Latest
  <1> HIDE DEF first, n
  <1>5. \A i \in first..n : rows[i] \in S
    BY <1>1, <1>3
  <1>6. /\ SubSeq(rows, first, n) \in Seq(S)
        /\ Len(SubSeq(rows, first, n)) = IF first <= n THEN n - first + 1 ELSE 0
    BY <1>1, <1>3, <1>5, SubSeqProperties
  <1>7. (IF first <= n THEN n - first + 1 ELSE 0) <= limit
    BY <1>1, <1>3
  <1> QED
    BY <1>4, <1>6, <1>7

LEMMA LimitTyped == RecordLimit \in Nat \ {0}
  <1>1. /\ MemoryRows \in Nat \ {0} /\ CalibrationRows \in Nat \ {0}
        /\ MemoryRows \in Int /\ CalibrationRows \in Int
    BY GatesAssumption
  <1>2. RecordLimit \in {MemoryRows, CalibrationRows}
    BY <1>1, OfTwo DEF RecordLimit
  <1> QED
    BY <1>1, <1>2

LEMMA InitGates == GatesInit => GatesTyped
  <1> SUFFICES ASSUME GatesInit PROVE GatesTyped
    OBVIOUS
  <1>1. record \in Seq(RecordRow) /\ Len(record) = 0
    BY DEF GatesInit
  <1> QED
    BY <1>1, LimitTyped DEF GatesInit, GatesTyped

LEMMA GatesStep == GatesTyped /\ [GatesNext]_gatesOwn => GatesTyped'
  <1> SUFFICES ASSUME GatesTyped, [GatesNext]_gatesOwn PROVE GatesTyped'
    OBVIOUS
  <1>1. CASE UNCHANGED gatesOwn
    BY <1>1 DEF gatesOwn, GatesTyped
  <1>2. CASE RegimeShifts
    BY <1>2 DEF RegimeShifts, GatesTyped
  <1>3. ASSUME NEW d \in {"buy", "sell", "hold"}, NEW c \in Stated, ObserveRegime(d, c)
        PROVE  GatesTyped'
    BY <1>3 DEF ObserveRegime, GatesTyped
  <1>4. CASE ScoreMade
    <2>1. PICK c \in {0, 1, Held} :
              record' = Latest(Append(record, [regime |-> made.regime,
                                               stated |-> made.stated, correct |-> c]),
                               RecordLimit)
      BY <1>4 DEF ScoreMade, RecordLimit
    <2> DEFINE row == [regime |-> made.regime, stated |-> made.stated, correct |-> c]
    <2>2. row \in RecordRow
      BY <1>4 DEF ScoreMade, GatesTyped, RecordRow
    <2>3. record' = Latest(Append(record, row), RecordLimit)
      BY <2>1
    <2> HIDE DEF row
    <2>4. Append(record, row) \in Seq(RecordRow)
      BY <2>2 DEF GatesTyped
    <2>5. record' \in Seq(RecordRow) /\ Len(record') <= RecordLimit
      BY <2>3, <2>4, LimitTyped, LatestTyped
    <2>6. made' = NoPrediction /\ UNCHANGED regime
      BY <1>4 DEF ScoreMade
    <2> QED
      BY <2>5, <2>6 DEF GatesTyped, RecordLimit
  <1>5. CASE LoseMade
    BY <1>5 DEF LoseMade, GatesTyped
  <1> QED
    BY <1>1, <1>2, <1>3, <1>4, <1>5 DEF GatesNext, GatesCycle

LEMMA GatesTypes == GatesTyped => GatesTypeOK
  BY CalibratedIsPercentage DEF GatesTyped, GatesTypeOK, RecordRow, RecordLimit

------------------------------------------------------------------------------
(* The parts together *)

\* The part that runs keeps its own invariant.
PartKept ==
    /\ part \in Parts
    /\ part = "gates" => GatesTyped
    /\ part = "feed" => FeedInv
    /\ part = "evaluations" => EvaluationInv
    /\ part = "alerts" => DeskInv
    /\ part = "days" => DayInv /\ DayTyped

\* A part that does not run has promised nothing yet.
OthersAtRest ==
    /\ part # "evaluations" => preds = <<>>
    /\ part # "alerts" => seen = Quiet
    /\ part # "days" => /\ safety.best = 0 /\ safety.peak = 0
                        /\ ownDays = {} /\ counter = 0 /\ begun = 0

PartsInv == PartKept /\ OthersAtRest

LEMMA PartsStart == Init => PartsInv
  <1> SUFFICES ASSUME Init PROVE PartsInv
    OBVIOUS
  <1>1. part \in Parts /\ FeedInit /\ GatesInit /\ EvaluationInit /\ AlertInit /\ DayInit
    BY DEF Init
  <1>2. PartKept
    BY <1>1, FeedStarts, InitGates, InitEvaluations, InitDesk, DayInvInit, InitDays DEF PartKept
  <1>3. OthersAtRest
    BY <1>1 DEF OthersAtRest, EvaluationInit, AlertInit, DayInit
  <1> QED
    BY <1>2, <1>3 DEF PartsInv

LEMMA PartsStep == PartsInv /\ [Next]_vars => PartsInv'
  <1> SUFFICES ASSUME PartsInv, [Next]_vars PROVE PartsInv'
    OBVIOUS
  <1>1. CASE UNCHANGED vars
    <2>1. UNCHANGED <<part, feedOwn, gatesOwn, evaluationVars, alertVars, dayVars>>
      BY <1>1 DEF vars, evaluationOwn, alertOwn, dayOwn, evaluationVars, alertVars, dayVars
    <2>2. OthersAtRest'
      BY <2>1 DEF PartsInv, OthersAtRest, evaluationVars, alertVars, dayVars, memory, tables
    <2>3. PartKept'
      BY <2>1, FeedGoesOn, GatesStep, EvaluationStep, DeskStep, DayInvStep, DaysKeepTypes
      DEF PartsInv, PartKept
    <2> QED
      BY <2>2, <2>3 DEF PartsInv
  <1>2. CASE FeedPart
    <2>1. part = "feed" /\ UNCHANGED part /\ FeedInv'
      BY <1>2, FeedGoesOn DEF FeedPart, Only, PartsInv, PartKept
    <2>2. UNCHANGED <<evaluationOwn, alertOwn, dayOwn>>
      BY <1>2 DEF FeedPart, Only
    <2> QED
      BY <2>1, <2>2 DEF PartsInv, PartKept, OthersAtRest, evaluationOwn, alertOwn, dayOwn,
         memory, tables
  <1>3. CASE GatesPart
    <2>1. part = "gates" /\ UNCHANGED part /\ GatesTyped'
      BY <1>3, GatesStep DEF GatesPart, Only, PartsInv, PartKept
    <2>2. UNCHANGED <<evaluationOwn, alertOwn, dayOwn>>
      BY <1>3 DEF GatesPart, Only
    <2> QED
      BY <2>1, <2>2 DEF PartsInv, PartKept, OthersAtRest, evaluationOwn, alertOwn, dayOwn,
         memory, tables
  <1>4. CASE EvaluationPart
    <2>1. part = "evaluations" /\ UNCHANGED part /\ EvaluationInv'
      BY <1>4, EvaluationStep DEF EvaluationPart, Only, PartsInv, PartKept
    <2>2. UNCHANGED <<alertOwn, dayOwn>>
      BY <1>4 DEF EvaluationPart, Only
    <2> QED
      BY <2>1, <2>2 DEF PartsInv, PartKept, OthersAtRest, alertOwn, dayOwn, memory, tables
  <1>5. CASE AlertPart
    <2>1. part = "alerts" /\ UNCHANGED part /\ DeskInv'
      BY <1>5, DeskStep DEF AlertPart, Only, PartsInv, PartKept
    <2>2. UNCHANGED <<evaluationOwn, dayOwn>>
      BY <1>5 DEF AlertPart, Only
    <2> QED
      BY <2>1, <2>2 DEF PartsInv, PartKept, OthersAtRest, evaluationOwn, dayOwn, memory, tables
  <1>6. CASE DayPart
    <2>1. part = "days" /\ UNCHANGED part /\ DayInv' /\ DayTyped'
      BY <1>6, DayInvStep, DaysKeepTypes DEF DayPart, Only, PartsInv, PartKept
    <2>2. UNCHANGED <<evaluationOwn, alertOwn>>
      BY <1>6 DEF DayPart, Only
    <2> QED
      BY <2>1, <2>2 DEF PartsInv, PartKept, OthersAtRest, evaluationOwn, alertOwn
  <1> QED
    BY <1>1, <1>2, <1>3, <1>4, <1>5, <1>6 DEF Next

\* The parts of the bookkeeping, put together as the observer puts them, each
\* keep their invariant.
THEOREM PartsSafe == Spec => []PartsInv
  BY PartsStart, PartsStep, PTL DEF Spec

\* Type correctness, the percentages of ConfidenceCalibrator and the day numbers
\* of roll_up_day included.
THEOREM BookkeepingTypes == Spec => []TypeOK
  <1>1. PartsInv => TypeOK
    <2> SUFFICES ASSUME PartsInv PROVE TypeOK
      OBVIOUS
    <2>1. DeskInv => AlertTypeOK
      BY DEF DeskInv, DeskTyped
    <2>2. FeedInv => FeedTypeOK
      BY DEF FeedInv
    <2> QED
      BY <2>1, <2>2, GatesTypes, EvaluationTypesFollow, DayTypes DEF PartsInv, PartKept, TypeOK
  <1> QED
    BY <1>1, PartsSafe, PTL

\* What each part promises of its state, it keeps in the observer they make up:
\* outcomes, alerts, drawdown, days and uptime.
THEOREM PromisesKept ==
    Spec => [](/\ SettledOutcomeIsFinal /\ CriticalConditionHeard
               /\ DrawdownFromBestOnRecord /\ NoDayLostSilently /\ UptimeNotOverstated)
  <1>1. PartsInv => SettledOutcomeIsFinal
    <2> SUFFICES ASSUME PartsInv PROVE SettledOutcomeIsFinal
      OBVIOUS
    <2>1. CASE part = "evaluations"
      BY <2>1, SettledFollows DEF PartsInv, PartKept
    <2>2. CASE part # "evaluations"
      BY <2>2 DEF PartsInv, OthersAtRest, SettledOutcomeIsFinal
    <2> QED
      BY <2>1, <2>2
  <1>2. PartsInv => CriticalConditionHeard
    <2> SUFFICES ASSUME PartsInv PROVE CriticalConditionHeard
      OBVIOUS
    <2>1. CASE part = "alerts"
      BY <2>1, CriticalFollows DEF PartsInv, PartKept
    <2>2. CASE part # "alerts"
      BY <2>2 DEF PartsInv, OthersAtRest, CriticalConditionHeard, Quiet
    <2> QED
      BY <2>1, <2>2
  <1>3. PartsInv => DrawdownFromBestOnRecord /\ NoDayLostSilently /\ UptimeNotOverstated
    <2> SUFFICES ASSUME PartsInv
                 PROVE  DrawdownFromBestOnRecord /\ NoDayLostSilently /\ UptimeNotOverstated
      OBVIOUS
    <2>1. CASE part = "days"
      BY <2>1 DEF PartsInv, PartKept, DayInv, MarkKept, CyclesBegun, DrawdownFromBestOnRecord,
         UptimeNotOverstated
    <2>2. CASE part # "days"
      BY <2>2 DEF PartsInv, OthersAtRest, DrawdownFromBestOnRecord, NoDayLostSilently,
         UptimeNotOverstated
    <2> QED
      BY <2>1, <2>2
  <1> QED
    BY <1>1, <1>2, <1>3, PartsSafe, PTL

\* The feed in the observer is the feed: a refinement, so what is proved of
\* RealMarketFeed alone holds here.
THEOREM FeedImplemented == Spec => FeedSpec
  <1>1. Init => FeedInit
    BY DEF Init
  <1>2. [Next]_vars => [FeedNext]_feedOwn
    BY DEF Next, FeedPart, GatesPart, EvaluationPart, AlertPart, DayPart, Only, vars
  <1> QED
    BY <1>1, <1>2, PTL DEF Spec, FeedSpec

\* What no step may do: judge by another price than the final close of a minute
\* that was fetched complete, write to a prediction that is settled.
THEOREM StepsKept == Spec => JudgedByFinalClose /\ SettledPredictionsStay
  <1>1. Spec => JudgedByFinalClose
    BY FeedImplemented, FinalCloseJudges, PTL
  <1>2. PartsInv /\ [Next]_vars => [SettledStep]_evaluationVars
    <2> SUFFICES ASSUME PartsInv, [Next]_vars PROVE SettledStep \/ UNCHANGED evaluationVars
      OBVIOUS
    <2>1. CASE EvaluationPart
      BY <2>1, StepsLeaveSettled DEF EvaluationPart, Only, PartsInv, PartKept
    <2>2. CASE ~EvaluationPart
      <3>1. UNCHANGED preds
        BY <2>2 DEF Next, FeedPart, GatesPart, AlertPart, DayPart, Only, vars, evaluationOwn
      <3> QED
        BY <3>1 DEF SettledStep
    <2> QED
      BY <2>1, <2>2
  <1>3. Spec => [][SettledStep]_evaluationVars
    BY <1>2, PartsSafe, PTL DEF Spec
  <1>4. Spec => SettledPredictionsStay
    BY <1>3 DEF SettledPredictionsStay, SettledStep
  <1> QED
    BY <1>1, <1>4
==============================================================================
