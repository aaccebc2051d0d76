----------------------- MODULE ChangeDetectionProofs -----------------------
(***************************************************************************)
(* For any width of the tick, any cells, systems and schedule: what the    *)
(* filters yield is what was written since the reader last looked. The     *)
(* ticks are related to ages first, which do not wrap.                     *)
(***************************************************************************)
EXTENDS ChangeDetection, TLAPS

Ticks == 0..(TickRange - 1)

(* The baseline a reader's filters are given.                              *)
Baseline(r) ==
  IF r \in Systems THEN last_run[r] ELSE IF r = Main THEN last_query_tick ELSE captured

Types ==
  /\ tick \in Ticks
  /\ changed \in [Cells -> Ticks] /\ last_run \in [Systems -> Ticks]
  /\ age \in [Cells \cup Readers -> 0..MaxAge]
  /\ session \in Sessions \cup {Idle} /\ step \in Nat
  /\ running \in SUBSET Systems
  /\ news \in [Readers -> SUBSET Cells] /\ outside_news \in [Readers -> SUBSET Cells]
  /\ \A r \in Readers : news[r] \cup outside_news[r] \subseteq LooksAt(r)

(* A stamp is as old as its age says.                                      *)
Stamps ==
  /\ \A c \in Cells : changed[c] = (tick - age[c]) % TickRange
  /\ \A r \in Readers : Baseline(r) = (tick - age[r]) % TickRange

(* The steps left are within the bound, and who has run in the current     *)
(* step is not about to run in it again.                                   *)
Steps ==
  /\ session # Idle =>
       /\ step <= Len(Schedule[session])
       /\ \A x \in Cells \cup Readers : age[x] + (Len(Schedule[session]) - step) <= MaxAge
  /\ running # {} =>
       /\ session # Idle /\ step \in DOMAIN Schedule[session]
       /\ running \subseteq Schedule[session][step]
       /\ \A s \in Systems : age[s] = 0 => s \in Schedule[session][step] \ running

(* News is what was written since the reader looked; what the main thread  *)
(* wrote at the tick a system ran at is as old as that.                    *)
NewsByAge ==
  /\ \A r \in Readers, c \in Cells : c \in news[r] => age[c] < age[r]
  /\ \A r \in Readers, c \in Cells :
       c \in LooksAt(r) /\ age[c] < age[r] => c \in news[r] \cup outside_news[r]
  /\ \A r \in {Main, Window}, c \in Cells : c \in outside_news[r] => age[c] < age[r]
  /\ age[Main] > 0 /\ age[Window] > 0

CInv == Types /\ Stamps /\ Steps /\ NewsByAge
----------------------------------------------------------------------------
(* Ticks modulo their range.                                               *)

(* The age of a stamp, as is_newer_than computes it.                       *)
LEMMA AgeOfStamp ==
  ASSUME NEW t \in Ticks, NEW a \in 0..(TickRange - 1)
  PROVE  (t - a) % TickRange \in Ticks /\ TicksSince((t - a) % TickRange, t) = a
<1>1. TickRange \in Nat \ {0, 1}
  BY TickAssumption
<1>2. CASE t >= a
  <2>1. (t - a) % TickRange = t - a
    BY <1>1, <1>2 DEF Ticks
  <2>2. (t - (t - a)) % TickRange = a
    BY <1>1 DEF Ticks
  <2> QED BY <1>1, <1>2, <2>1, <2>2 DEF TicksSince, Ticks
<1>3. CASE t < a
  <2>1. (t - a) % TickRange = t - a + TickRange
    BY <1>1, <1>3 DEF Ticks
  <2>2. (t - (t - a + TickRange)) % TickRange = a
    BY <1>1, <1>3 DEF Ticks
  <2> QED BY <1>1, <1>3, <2>1, <2>2 DEF TicksSince, Ticks
<1> QED BY <1>2, <1>3 DEF Ticks

(* A tick later the same stamp is one older.                               *)
LEMMA StampAfter ==
  ASSUME NEW t \in Ticks, NEW a \in Nat, a + 1 < TickRange
  PROVE  /\ (t + 1) % TickRange \in Ticks
         /\ (t - a) % TickRange = (((t + 1) % TickRange) - (a + 1)) % TickRange
<1>1. TickRange \in Nat \ {0, 1}
  BY TickAssumption
<1>2. CASE t + 1 < TickRange
  <2>1. (t + 1) % TickRange = t + 1
    BY <1>1, <1>2 DEF Ticks
  <2> QED BY <1>1, <1>2, <2>1 DEF Ticks
<1>3. CASE t + 1 = TickRange
  <2>1. (t + 1) % TickRange = 0
    BY <1>1, <1>3
  <2>2. (0 - (a + 1)) % TickRange = TickRange - (a + 1)
    BY <1>1
  <2>3. (t - a) % TickRange = t - a
    BY <1>1, <1>3 DEF Ticks
  <2> QED BY <1>1, <1>3, <2>1, <2>2, <2>3 DEF Ticks
<1> QED BY <1>1, <1>2, <1>3 DEF Ticks

(* is_newer_than between a cell and a reader, now and a tick later.        *)
LEMMA NewerIsYounger ==
  ASSUME CInv, NEW c \in Cells, NEW r \in Readers
  PROVE  /\ IsNewerThan(changed[c], Baseline(r), tick) <=> age[c] < age[r]
         /\ RoomFor(1) =>
              (IsNewerThan(changed[c], Baseline(r), (tick + 1) % TickRange) <=> age[c] < age[r])
<1>1. /\ tick \in Ticks
      /\ age[c] \in 0..(TickRange - 1) /\ age[r] \in 0..(TickRange - 1)
      /\ changed[c] = (tick - age[c]) % TickRange
      /\ Baseline(r) = (tick - age[r]) % TickRange
  BY TickAssumption DEF CInv, Types, Stamps
<1>2. IsNewerThan(changed[c], Baseline(r), tick) <=> age[c] < age[r]
  BY <1>1, AgeOfStamp DEF IsNewerThan
<1>3. ASSUME RoomFor(1)
      PROVE  IsNewerThan(changed[c], Baseline(r), (tick + 1) % TickRange) <=> age[c] < age[r]
  <2> DEFINE next == (tick + 1) % TickRange
  <2>1. age[c] + 1 <= MaxAge /\ age[r] + 1 <= MaxAge
    BY <1>3 DEF RoomFor, CInv, Types
  <2>2. /\ age[c] \in Nat /\ age[c] + 1 < TickRange /\ age[c] + 1 \in 0..(TickRange - 1)
        /\ age[r] \in Nat /\ age[r] + 1 < TickRange /\ age[r] + 1 \in 0..(TickRange - 1)
    BY <1>1, <2>1, TickAssumption
  <2>3. /\ next \in Ticks
        /\ changed[c] = (next - (age[c] + 1)) % TickRange
        /\ Baseline(r) = (next - (age[r] + 1)) % TickRange
    BY <1>1, <2>2, StampAfter
  <2>4. /\ TicksSince(changed[c], next) = age[c] + 1
        /\ TicksSince(Baseline(r), next) = age[r] + 1
    BY <2>2, <2>3, AgeOfStamp
  <2> QED BY <1>1, <2>4 DEF IsNewerThan
<1> QED BY <1>2, <1>3
----------------------------------------------------------------------------
(* What the actions do to ticks and ages.                                  *)

(* advance_tick: everything is one tick older, and who takes the tick that *)
(* ends as its baseline has seen all there is.                             *)
LEMMA AdvanceKeeps ==
  ASSUME CInv, RoomFor(1), NEW takers \in SUBSET {Main, Window}, AdvanceTick(takers),
         changed' = changed, last_run' = last_run,
         last_query_tick' = IF Main \in takers THEN tick ELSE last_query_tick,
         captured' = IF Window \in takers THEN tick ELSE captured,
         news' = [r \in Readers |-> IF r \in takers THEN {} ELSE news[r]],
         outside_news' = [r \in Readers |-> IF r \in takers THEN {} ELSE outside_news[r]],
         session' \in Sessions \cup {Idle}, step' \in Nat, running' \in SUBSET Systems
  PROVE  /\ Types' /\ Stamps' /\ NewsByAge'
         /\ \A x \in Cells \cup Readers : age'[x] = IF x \in takers THEN 1 ELSE age[x] + 1
         /\ \A x \in Cells \cup Readers : age'[x] <= age[x] + 1 /\ age'[x] > 0
<1>1. /\ tick \in Ticks /\ age \in [Cells \cup Readers -> 0..MaxAge]
      /\ MaxAge \in Nat /\ 1 <= MaxAge /\ MaxAge < TickRange /\ TickRange \in Nat
  BY TickAssumption DEF CInv, Types
<1>2. /\ tick' = (tick + 1) % TickRange
      /\ age' = [x \in Cells \cup Readers |-> IF x \in takers THEN 1 ELSE age[x] + 1]
  BY <1>1 DEF AdvanceTick
<1>3. \A x \in Cells \cup Readers : age[x] \in Nat /\ age[x] + 1 <= MaxAge
  BY <1>1 DEF RoomFor
<1>4. \A x \in Cells \cup Readers : age'[x] = IF x \in takers THEN 1 ELSE age[x] + 1
  BY <1>2
<1>5. \A r \in Readers : r \in takers => age[r] > 0
  BY NamesAssumption DEF Readers, CInv, NewsByAge
<1>6. \A x \in Cells \cup Readers : age'[x] \in 1..MaxAge /\ age'[x] <= age[x] + 1
  <2> SUFFICES ASSUME NEW x \in Cells \cup Readers
               PROVE  age'[x] \in 1..MaxAge /\ age'[x] <= age[x] + 1
    OBVIOUS
  <2> QED BY <1>1, <1>3, <1>4
<1>7. tick' \in Ticks
  BY <1>1, <1>2, StampAfter
<1>8. Types'
  <2>1. age' \in [Cells \cup Readers -> 0..MaxAge]
    <3>1. \A x \in Cells \cup Readers : age'[x] \in 0..MaxAge
      BY <1>1, <1>6
    <3>2. age' = [x \in Cells \cup Readers |-> age'[x]]
      BY <1>2
    <3> QED BY <3>1, <3>2
  <2>2. \A r \in Readers : news'[r] \in SUBSET Cells /\ outside_news'[r] \in SUBSET Cells
                           /\ news'[r] \cup outside_news'[r] \subseteq LooksAt(r)
    BY DEF CInv, Types
  <2>3. /\ news' \in [Readers -> SUBSET Cells] /\ outside_news' \in [Readers -> SUBSET Cells]
    BY <2>2
  <2>4. changed' \in [Cells -> Ticks] /\ last_run' \in [Systems -> Ticks]
    BY DEF CInv, Types
  <2> QED BY <1>7, <2>1, <2>2, <2>3, <2>4 DEF Types, LooksAt
<1>9. Stamps'
  <2>1. ASSUME NEW c \in Cells PROVE changed'[c] = (tick' - age'[c]) % TickRange
    <3>1. c \notin takers /\ age'[c] = age[c] + 1
      BY <1>4, NamesAssumption
    <3>2. changed[c] = (tick - age[c]) % TickRange
      BY DEF CInv, Stamps
    <3> QED BY <1>1, <1>2, <1>3, <3>1, <3>2, StampAfter
  <2>2. ASSUME NEW r \in Readers PROVE Baseline(r)' = (tick' - age'[r]) % TickRange
    <3>1. CASE r \notin takers
      <4>1. Baseline(r)' = Baseline(r) /\ age'[r] = age[r] + 1
        BY <1>4, <3>1, NamesAssumption DEF Baseline, Readers
      <4>2. Baseline(r) = (tick - age[r]) % TickRange
        BY DEF CInv, Stamps
      <4> QED BY <1>1, <1>2, <1>3, <4>1, <4>2, StampAfter
    <3>2. CASE r \in takers
      <4>1. Baseline(r)' = tick /\ age'[r] = 1
        BY <1>4, <3>2, NamesAssumption DEF Baseline, Readers
      <4>2. tick % TickRange = tick
        BY <1>1 DEF Ticks
      <4>3. (tick - 0) % TickRange = (tick' - (0 + 1)) % TickRange
        BY <1>1, <1>2, StampAfter
      <4> QED BY <1>1, <4>1, <4>2, <4>3 DEF Ticks
    <3> QED BY <3>1, <3>2
  <2> QED BY <2>1, <2>2 DEF Stamps, Baseline
<1>10. NewsByAge'
  <2>1. \A c \in Cells : age'[c] = age[c] + 1
    BY <1>4, NamesAssumption
  <2>2. ASSUME NEW r \in Readers, NEW c \in Cells
        PROVE  /\ c \in news'[r] => age'[c] < age'[r]
               /\ c \in LooksAt(r) /\ age'[c] < age'[r] => c \in news'[r] \cup outside_news'[r]
               /\ r \notin Systems /\ c \in outside_news'[r] => age'[c] < age'[r]
    <3>1. CASE r \in takers
      <4>1. news'[r] = {} /\ outside_news'[r] = {} /\ age'[r] = 1
        BY <1>4, <3>1
      <4> QED BY <1>3, <2>1, <4>1
    <3>2. CASE r \notin takers
      <4>1. news'[r] = news[r] /\ outside_news'[r] = outside_news[r] /\ age'[r] = age[r] + 1
        BY <1>4, <3>2
      <4>2. /\ c \in news[r] => age[c] < age[r]
            /\ c \in LooksAt(r) /\ age[c] < age[r] => c \in news[r] \cup outside_news[r]
            /\ r \notin Systems /\ c \in outside_news[r] => age[c] < age[r]
        BY DEF CInv, NewsByAge, Readers
      <4>3. age[c] \in Nat /\ age[r] \in Nat /\ age'[c] = age[c] + 1
        BY <1>3, <2>1
      <4> QED BY <4>1, <4>2, <4>3
    <3> QED BY <3>1, <3>2
  <2>3. age'[Main] > 0 /\ age'[Window] > 0
    BY <1>1, <1>6 DEF Readers
  <2>4. Main \in Readers \ Systems /\ Window \in Readers \ Systems
    BY NamesAssumption DEF Readers
  <2> QED BY <2>2, <2>3, <2>4 DEF NewsByAge, LooksAt
<1> QED BY <1>1, <1>4, <1>6, <1>8, <1>9, <1>10
----------------------------------------------------------------------------
(* Before anything has run, what was written is news to everyone.          *)
THEOREM ChangesInitial == Init => CInv
<1> SUFFICES ASSUME Init PROVE CInv
  OBVIOUS
<1> USE DEF Init
<1>1. TickRange \in Nat /\ TickRange >= 2 /\ MaxAge \in Nat /\ MaxAge >= 1
  BY TickAssumption
<1>2. /\ \A c \in Cells : age[c] = 0
      /\ \A r \in Readers : age[r] = 1
  BY NamesAssumption DEF Readers
<1>3. 1 % TickRange = 1 /\ 0 % TickRange = 0
  BY <1>1
<1>4. Types
  <2>1. \A r \in Readers : LooksAt(r) \subseteq Cells
    BY ScheduleAssumption DEF LooksAt
  <2>2. age \in [Cells \cup Readers -> 0..MaxAge]
    BY <1>1
  <2> QED BY <1>1, <2>1, <2>2 DEF Types, Ticks
<1>5. Stamps
  BY <1>2, <1>3 DEF Stamps, Baseline
<1>6. Steps
  BY DEF Steps
<1>7. NewsByAge
  <2>1. \A r \in Readers : news[r] = {} /\ outside_news[r] = LooksAt(r)
    OBVIOUS
  <2>2. Main \in Readers /\ Window \in Readers /\ \A r \in {Main, Window} : r \in Readers
    BY DEF Readers
  <2> QED BY <1>2, <2>1, <2>2 DEF NewsByAge
<1> QED BY <1>4, <1>5, <1>6, <1>7 DEF CInv

(* Scheduler::run: room for every step of the session.                     *)
LEMMA RunKeeps ==
  ASSUME CInv, NEW x \in Sessions, Run(x)
  PROVE  CInv'
<1>1. /\ session' = x /\ step' = 0 /\ running' = running
      /\ UNCHANGED <<tick, last_query_tick, captured, changed, last_run, age, news, outside_news>>
  BY DEF Run
<1>2. running = {}
  BY DEF Run, CInv, Steps
<1>3. Types' /\ Stamps' /\ NewsByAge'
  BY <1>1 DEF CInv, Types, Stamps, NewsByAge, Baseline, LooksAt
<1>4. Steps'
  <2>1. DOMAIN age = Cells \cup Readers /\ Len(Schedule[x]) \in Nat
    BY ScheduleAssumption DEF CInv, Types
  <2>2. \A y \in Cells \cup Readers : age[y] + Len(Schedule[x]) <= MaxAge
    BY <2>1 DEF Run, RoomFor
  <2> QED BY <1>1, <1>2, <2>1, <2>2 DEF Steps
<1> QED BY <1>3, <1>4 DEF CInv

(* A step begins: nobody has run at its tick.                              *)
LEMMA BeginStepKeeps ==
  ASSUME CInv, BeginStep
  PROVE  CInv'
<1>1. /\ session \in Sessions /\ session' = session
      /\ step \in Nat /\ step < Len(Schedule[session]) /\ step' = step + 1
      /\ running' = Schedule[session][step + 1]
      /\ Schedule[session] \in Seq(SUBSET Systems)
      /\ step + 1 \in DOMAIN Schedule[session]
  BY ScheduleAssumption DEF BeginStep, CInv, Types
<1>2. running' \in SUBSET Systems
  BY <1>1
<1>3. RoomFor(1)
  <2>1. \A x \in Cells \cup Readers :
          age[x] \in Nat /\ age[x] + (Len(Schedule[session]) - step) <= MaxAge
    BY DEF BeginStep, CInv, Steps, Types
  <2>2. Len(Schedule[session]) \in Nat /\ MaxAge \in Nat /\ DOMAIN age = Cells \cup Readers
    BY <1>1, TickAssumption DEF CInv, Types
  <2> QED BY <1>1, <2>1, <2>2 DEF RoomFor
<1>4. /\ AdvanceTick({})
      /\ UNCHANGED <<last_query_tick, captured, changed, last_run, news, outside_news>>
  BY DEF BeginStep
<1>5. /\ news = [r \in Readers |-> news[r]]
      /\ outside_news = [r \in Readers |-> outside_news[r]]
  BY DEF CInv, Types
<1>6. /\ Types' /\ Stamps' /\ NewsByAge'
      /\ \A x \in Cells \cup Readers : age'[x] <= age[x] + 1 /\ age'[x] > 0
  <2> DEFINE none == {}
  <2>1. /\ none \in SUBSET {Main, Window} /\ Main \notin none /\ Window \notin none
        /\ \A r \in Readers : r \notin none
    OBVIOUS
  <2>2. news' = [r \in Readers |-> IF r \in none THEN {} ELSE news[r]]
    BY <1>4, <1>5
  <2>3. outside_news' = [r \in Readers |-> IF r \in none THEN {} ELSE outside_news[r]]
    BY <1>4, <1>5
  <2>4. /\ last_query_tick' = IF Main \in none THEN tick ELSE last_query_tick
        /\ captured' = IF Window \in none THEN tick ELSE captured
    BY <1>4
  <2>5. AdvanceTick(none)
    BY <1>4
  <2>6. session' \in Sessions \cup {Idle} /\ step' \in Nat
    BY <1>1
  <2> HIDE DEF none
  <2> QED BY <1>2, <1>3, <1>4, <2>1, <2>2, <2>3, <2>4, <2>5, <2>6, AdvanceKeeps
<1>7. Steps'
  <2> DEFINE len == Len(Schedule[session])
  <2>1. len \in Nat /\ MaxAge \in Nat /\ session # Idle
    BY <1>1, TickAssumption, NamesAssumption
  <2>2. \A x \in Cells \cup Readers :
          age[x] \in Nat /\ age'[x] \in Nat /\ age[x] + (len - step) <= MaxAge
    BY <1>6, <2>1 DEF CInv, Steps, Types
  <2> HIDE DEF len
  <2>3. \A x \in Cells \cup Readers : age'[x] + (len - (step + 1)) <= MaxAge
    BY <1>1, <1>6, <2>1, <2>2
  <2>4. \A s \in Systems : age'[s] # 0
    <3>1. \A x \in Cells \cup Readers : age'[x] # 0
      BY <1>6, <2>2
    <3> QED BY <3>1 DEF Readers
  <2>5. step + 1 <= len
    BY <1>1, <2>1 DEF len
  <2> QED BY <1>1, <2>1, <2>3, <2>4, <2>5 DEF Steps, len
<1> QED BY <1>6, <1>7 DEF CInv

(* create_query, capture_current_tick and create_query_since: between runs *)
(* nothing counts on room for steps.                                       *)
LEMMA QueriesKeep ==
  ASSUME CInv, CreateQuery \/ CaptureCurrentTick \/ CreateQuerySince
  PROVE  CInv'
<1> DEFINE takers == IF CreateQuery THEN {Main} ELSE IF CaptureCurrentTick THEN {Window} ELSE {}
<1>1. /\ session = Idle /\ RoomFor(1) /\ running = {}
      /\ UNCHANGED <<changed, last_run, session, step, running>>
  BY DEF CreateQuery, CaptureCurrentTick, CreateQuerySince, CInv, Steps
<1>2. /\ news = [r \in Readers |-> news[r]]
      /\ outside_news = [r \in Readers |-> outside_news[r]]
  BY DEF CInv, Types
<1>3. /\ Main # Window
      /\ AdvanceTick(takers)
      /\ last_query_tick' = IF Main \in takers THEN tick ELSE last_query_tick
      /\ captured' = IF Window \in takers THEN tick ELSE captured
      /\ news' = [r \in Readers |-> IF r \in takers THEN {} ELSE news[r]]
      /\ outside_news' = [r \in Readers |-> IF r \in takers THEN {} ELSE outside_news[r]]
  <2>1. Main # Window
    BY DEF Main, Window
  <2>2. CASE CreateQuery
    BY <1>2, <2>1, <2>2 DEF CreateQuery, StartAnew, NextBaseline
  <2>3. CASE ~ CreateQuery /\ CaptureCurrentTick
    BY <1>2, <2>1, <2>3 DEF CaptureCurrentTick, StartAnew, Captured
  <2>4. CASE ~ CreateQuery /\ ~ CaptureCurrentTick
    <3>1. takers = {} /\ CreateQuerySince
      BY <2>4
    <3> QED BY <1>2, <2>1, <3>1 DEF CreateQuerySince
  <2> QED BY <2>2, <2>3, <2>4, <2>1
<1>4. takers \in SUBSET {Main, Window}
  OBVIOUS
<1>5. session' \in Sessions \cup {Idle} /\ step' \in Nat /\ running' \in SUBSET Systems
  BY <1>1 DEF CInv, Types
<1> HIDE DEF takers
<1>6. Types' /\ Stamps' /\ NewsByAge'
  BY <1>1, <1>3, <1>4, <1>5, AdvanceKeeps
<1>7. Steps'
  BY <1>1 DEF Steps
<1> QED BY <1>6, <1>7 DEF CInv

(* run_system_at: what the system writes is news to the others, who have   *)
(* not run at this tick if they look at it.                                *)
LEMMA RunSystemKeeps ==
  ASSUME CInv, NEW s \in running, NEW written \in SUBSET Cells, RunSystem(s, written)
  PROVE  CInv'
<1> DEFINE now == Schedule[session][step]
<1>1. /\ s \in Systems /\ s \in Readers /\ s \notin Cells /\ s # Main /\ s # Window
      /\ session \in Sessions /\ s \in now /\ now \in SUBSET Systems
      /\ step \in DOMAIN Schedule[session]
      /\ written \subseteq Writes[s]
  BY ScheduleAssumption, NamesAssumption DEF CInv, Types, Steps, Readers, RunSystem
<1>2. /\ UNCHANGED <<tick, last_query_tick, captured, session, step>>
      /\ running' = running \ {s}
      /\ changed' = [c \in Cells |-> IF c \in written THEN tick ELSE changed[c]]
      /\ last_run' = [last_run EXCEPT ![s] = tick]
      /\ age' = [x \in Cells \cup Readers |-> IF x \in written \cup {s} THEN 0 ELSE age[x]]
      /\ news' = [r \in Readers |-> IF r = s THEN {}
                                    ELSE news[r] \cup (written \cap LooksAt(r))]
      /\ outside_news' = [outside_news EXCEPT ![s] = {}]
  BY DEF RunSystem, Stamp, SetLastRun, CInv, Types
<1>3. /\ tick \in Ticks /\ MaxAge \in Nat
      /\ \A x \in Cells \cup Readers : age[x] \in 0..MaxAge
  BY TickAssumption DEF CInv, Types
<1>4. /\ \A x \in Cells \cup Readers : age'[x] \in 0..MaxAge /\ age'[x] <= age[x]
      /\ \A c \in Cells : age'[c] = IF c \in written THEN 0 ELSE age[c]
      /\ \A r \in Readers : age'[r] = IF r = s THEN 0 ELSE age[r]
  <2>1. \A r \in Readers : r \notin Cells
    BY NamesAssumption DEF Readers
  <2> QED BY <1>1, <1>2, <1>3, <2>1
<1>5. Types'
  <2>1. /\ changed' \in [Cells -> Ticks] /\ last_run' \in [Systems -> Ticks]
        /\ age' \in [Cells \cup Readers -> 0..MaxAge]
    BY <1>2, <1>3 DEF CInv, Types
  <2>2. \A r \in Readers : /\ news'[r] \in SUBSET Cells /\ outside_news'[r] \in SUBSET Cells
                           /\ news'[r] \cup outside_news'[r] \subseteq LooksAt(r)
    BY <1>2 DEF CInv, Types
  <2>3. news' \in [Readers -> SUBSET Cells] /\ outside_news' \in [Readers -> SUBSET Cells]
    BY <1>2, <2>2 DEF CInv, Types
  <2> QED BY <1>2, <2>1, <2>2, <2>3 DEF CInv, Types, LooksAt
<1>6. Stamps'
  <2>1. tick = (tick - 0) % TickRange
    BY <1>3, TickAssumption DEF Ticks
  <2>2. \A c \in Cells : changed'[c] = (tick - age'[c]) % TickRange
    BY <1>2, <1>4, <2>1 DEF CInv, Stamps
  <2>3. ASSUME NEW r \in Readers PROVE Baseline(r)' = (tick - age'[r]) % TickRange
    <3>1. CASE r = s
      <4>1. Baseline(r)' = tick
        BY <1>1, <1>2, <3>1 DEF Baseline, CInv, Types
      <4> QED BY <1>4, <2>1, <3>1, <4>1
    <3>2. CASE r # s
      <4>1. Baseline(r)' = Baseline(r)
        BY <1>1, <1>2, <3>2 DEF Baseline, CInv, Types
      <4>2. Baseline(r) = (tick - age[r]) % TickRange
        BY DEF CInv, Stamps
      <4> QED BY <1>4, <3>2, <4>1, <4>2
    <3> QED BY <3>1, <3>2
  <2> QED BY <1>2, <2>2, <2>3 DEF Stamps, Baseline
<1>7. Steps'
  <2> DEFINE left == Len(Schedule[session]) - step
  <2>1. session # Idle /\ step <= Len(Schedule[session])
        /\ \A x \in Cells \cup Readers : age[x] + left <= MaxAge
    BY <1>1, NamesAssumption DEF CInv, Steps
  <2>2. left \in Int
    BY <1>1, ScheduleAssumption DEF CInv, Types
  <2> HIDE DEF left
  <2>3. \A x \in Cells \cup Readers : age'[x] + left <= MaxAge
    BY <1>3, <1>4, <2>1, <2>2
  <2>4. running \subseteq now /\ \A t \in Systems : age[t] = 0 => t \in now \ running
    BY DEF CInv, Steps
  <2>5. \A t \in Systems : age'[t] = 0 => t \in now \ running'
    BY <1>1, <1>2, <1>4, <2>4 DEF Readers
  <2> QED BY <1>1, <1>2, <2>1, <2>3, <2>4, <2>5 DEF Steps, left
<1>8. NewsByAge'
  <2> SUFFICES ASSUME NEW r \in Readers, NEW c \in Cells
               PROVE  /\ c \in news'[r] => age'[c] < age'[r]
                      /\ c \in LooksAt(r) /\ age'[c] < age'[r]
                           => c \in news'[r] \cup outside_news'[r]
                      /\ r \notin Systems /\ c \in outside_news'[r] => age'[c] < age'[r]
                      /\ r \notin Systems => age'[r] > 0
    <3>1. Main \in Readers \ Systems /\ Window \in Readers \ Systems
      BY NamesAssumption DEF Readers
    <3>2. CASE Cells = {}
      <4>1. age'[Main] > 0 /\ age'[Window] > 0
        BY <1>1, <1>4, <3>1 DEF CInv, NewsByAge
      <4> QED BY <3>2, <4>1 DEF NewsByAge
    <3>3. CASE Cells # {}
      BY <3>1, <3>3 DEF NewsByAge, LooksAt
    <3> QED BY <3>2, <3>3
  <2>1. /\ c \in news[r] => age[c] < age[r]
        /\ c \in LooksAt(r) /\ age[c] < age[r] => c \in news[r] \cup outside_news[r]
        /\ r \notin Systems /\ c \in outside_news[r] => age[c] < age[r]
        /\ r \notin Systems => age[r] > 0
    BY DEF CInv, NewsByAge, Readers
  <2>2. /\ age[c] \in Nat /\ age'[c] \in Nat /\ age[r] \in Nat /\ age'[r] \in Nat
        /\ age'[c] <= age[c]
    BY <1>3, <1>4
  <2>3. CASE r = s
    <3>1. news'[r] = {} /\ age'[r] = 0 /\ r \in Systems
      BY <1>1, <1>2, <1>4, <2>3
    <3> QED BY <2>2, <3>1
  <2>4. CASE r # s
    <3>1. /\ news'[r] = news[r] \cup (written \cap LooksAt(r))
          /\ outside_news'[r] = outside_news[r] /\ age'[r] = age[r]
      BY <1>2, <1>4, <2>4 DEF CInv, Types
    <3>2. CASE c \notin written
      <4>1. age'[c] = age[c] /\ (c \in news'[r] <=> c \in news[r])
        BY <1>4, <3>1, <3>2
      <4> QED BY <2>1, <3>1, <4>1
    <3>3. CASE c \in written
      <4>1. age'[c] = 0
        BY <1>4, <3>3
      <4>2. ASSUME r \in Systems, c \in Reads[r] PROVE age[r] > 0
        <5>1. age[r] = 0 => r \in now
          BY <4>2 DEF CInv, Steps
        <5>2. r \in now => Writes[s] \cap (Reads[r] \cup Writes[r]) = {}
          BY <1>1, <2>4, ScheduleAssumption
        <5> QED BY <1>1, <2>2, <3>3, <4>2, <5>1, <5>2
      <4>3. c \in LooksAt(r) => age[r] > 0
        BY <2>1, <4>2 DEF LooksAt
      <4>4. news[r] \subseteq LooksAt(r)
        BY DEF CInv, Types
      <4> QED BY <2>1, <2>2, <3>1, <3>3, <4>1, <4>3, <4>4
    <3> QED BY <3>2, <3>3
  <2> QED BY <2>3, <2>4
<1> QED BY <1>5, <1>6, <1>7, <1>8 DEF CInv

(* A write past the schedule: the main reader has not looked at this tick. *)
LEMMA WriteOutsideKeeps ==
  ASSUME CInv, NEW w \in Cells, WriteOutside(w)
  PROVE  CInv'
<1>1. /\ UNCHANGED <<tick, last_query_tick, captured, last_run, session, step, running, news>>
      /\ changed' = [c \in Cells |-> IF c \in {w} THEN tick ELSE changed[c]]
      /\ age' = [age EXCEPT ![w] = 0]
      /\ outside_news' = [r \in Readers |-> outside_news[r] \cup ({w} \cap LooksAt(r))]
  BY DEF WriteOutside, Stamp
<1>2. /\ tick \in Ticks /\ MaxAge \in Nat
      /\ \A x \in Cells \cup Readers : age[x] \in 0..MaxAge
      /\ \A r \in Readers : r # w
  BY TickAssumption, NamesAssumption DEF CInv, Types, Readers
<1>3. /\ \A x \in Cells \cup Readers : age'[x] \in 0..MaxAge /\ age'[x] <= age[x]
      /\ \A c \in Cells : age'[c] = IF c = w THEN 0 ELSE age[c]
      /\ \A r \in Readers : age'[r] = age[r]
  BY <1>1, <1>2 DEF CInv, Types
<1>4. Types'
  <2>1. changed' \in [Cells -> Ticks] /\ age' \in [Cells \cup Readers -> 0..MaxAge]
    BY <1>1, <1>2 DEF CInv, Types
  <2>2. \A r \in Readers : /\ outside_news'[r] \in SUBSET Cells
                           /\ news'[r] \cup outside_news'[r] \subseteq LooksAt(r)
    BY <1>1 DEF CInv, Types
  <2>3. outside_news' \in [Readers -> SUBSET Cells]
    BY <1>1, <2>2
  <2> QED BY <1>1, <2>1, <2>2, <2>3 DEF CInv, Types, LooksAt
<1>5. Stamps'
  <2>1. tick = (tick - 0) % TickRange
    BY <1>2, TickAssumption DEF Ticks
  <2>2. \A c \in Cells : changed'[c] = (tick - age'[c]) % TickRange
    BY <1>1, <1>3, <2>1 DEF CInv, Stamps
  <2>3. \A r \in Readers : Baseline(r) = (tick - age'[r]) % TickRange
    BY <1>3 DEF CInv, Stamps
  <2> QED BY <1>1, <2>2, <2>3 DEF Stamps, Baseline
<1>6. Steps'
  <2>1. ASSUME session # Idle
        PROVE  \A x \in Cells \cup Readers : age'[x] + (Len(Schedule[session]) - step) <= MaxAge
    <3>1. Len(Schedule[session]) \in Nat /\ step \in Nat
      BY <2>1, ScheduleAssumption DEF CInv, Types
    <3>2. \A x \in Cells \cup Readers : age[x] + (Len(Schedule[session]) - step) <= MaxAge
      BY <2>1 DEF CInv, Steps
    <3> QED BY <1>2, <1>3, <3>1, <3>2
  <2>2. \A s \in Systems : age'[s] = age[s]
    BY <1>3 DEF Readers
  <2> QED BY <1>1, <2>1, <2>2 DEF Steps, CInv
<1>7. NewsByAge'
  <2>1. \A r \in Readers, c \in Cells : c \in news'[r] => age'[c] < age'[r]
    <3>1. \A r \in Readers, c \in Cells : c \in news[r] => age[c] < age[r]
      BY DEF CInv, NewsByAge
    <3> QED BY <1>1, <1>2, <1>3, <3>1
  <2>2. \A r \in Readers, c \in Cells :
          c \in LooksAt(r) /\ age'[c] < age'[r] => c \in news'[r] \cup outside_news'[r]
    BY <1>1, <1>3 DEF CInv, NewsByAge
  <2>3. ASSUME NEW r \in {Main, Window}, NEW c \in Cells, c \in outside_news'[r]
        PROVE  age'[c] < age'[r]
    <3>1. r \in Readers /\ age[r] > 0
      BY DEF CInv, NewsByAge, Readers
    <3>2. c \in outside_news[r] => age[c] < age[r]
      BY DEF CInv, NewsByAge
    <3> QED BY <1>1, <1>3, <2>3, <3>1, <3>2
  <2>4. age'[Main] > 0 /\ age'[Window] > 0
    BY <1>3 DEF CInv, NewsByAge, Readers
  <2> QED BY <2>1, <2>2, <2>3, <2>4 DEF NewsByAge, LooksAt
<1> QED BY <1>4, <1>5, <1>6, <1>7 DEF CInv

(* Whatever the scheduler and the main thread do, ticks agree with ages,   *)
(* and news with what is younger than a reader's last look.                *)
THEOREM ChangesInvariant == Spec => []CInv
<1>1. CInv /\ [Next]_vars => CInv'
  <2> SUFFICES ASSUME CInv, [Next]_vars PROVE CInv'
    OBVIOUS
  <2>1. CASE \E x \in Sessions : Run(x)
    BY <2>1, RunKeeps
  <2>2. CASE BeginStep
    BY <2>2, BeginStepKeeps
  <2>3. CASE \E s \in running, written \in SUBSET Cells : RunSystem(s, written)
    BY <2>3, RunSystemKeeps
  <2>4. CASE EndRun
    <3>1. /\ session' = Idle /\ running' = {}
          /\ UNCHANGED <<tick, last_query_tick, captured, changed, last_run, step, age, news, outside_news>>
      BY <2>4 DEF EndRun
    <3>2. Types' /\ Stamps' /\ NewsByAge'
      BY <3>1 DEF CInv, Types, Stamps, NewsByAge, Baseline, LooksAt
    <3>3. Steps'
      BY <3>1 DEF Steps
    <3> QED BY <3>2, <3>3 DEF CInv
  <2>5. CASE \E c \in Cells : WriteOutside(c)
    BY <2>5, WriteOutsideKeeps
  <2>6. CASE CreateQuery \/ CaptureCurrentTick \/ CreateQuerySince
    BY <2>6, QueriesKeep
  <2>7. CASE UNCHANGED vars
    BY <2>7 DEF vars, CInv, Types, Stamps, Steps, NewsByAge, Baseline, LooksAt
  <2> QED BY <2>1, <2>2, <2>3, <2>4, <2>5, <2>6, <2>7 DEF Next
<1> QED BY <1>1, ChangesInitial, PTL DEF Spec
----------------------------------------------------------------------------
(* The ticks in the world, the cells and the baselines are the true times  *)
(* of the writes and looks, modulo the width of the tick.                  *)
THEOREM TicksCorrect == Spec => []TypeOK
<1>1. CInv => TypeOK
  <2> SUFFICES ASSUME CInv PROVE TypeOK
    OBVIOUS
  <2>1. /\ \A s \in Systems : s \in Readers /\ Baseline(s) = last_run[s]
        /\ Main \in Readers /\ Baseline(Main) = last_query_tick
        /\ Window \in Readers /\ Baseline(Window) = captured
    BY NamesAssumption DEF Readers, Baseline, Main, Window
  <2> QED BY <2>1 DEF CInv, Types, Stamps, TypeOK, Ticks
<1> QED BY <1>1, ChangesInvariant, PTL

(* Changed never yields a cell to a system that only that system wrote     *)
(* since its previous run, or that was not written since.                  *)
THEOREM NothingShownTwice == Spec => []NothingTwice
<1>1. CInv => NothingTwice
  <2> SUFFICES ASSUME CInv, NEW s \in running, NEW c \in Reported(s)
               PROVE  c \in news[s] \cup outside_news[s]
    BY DEF NothingTwice
  <2>1. /\ s \in Systems /\ s \in Readers /\ Reads[s] \subseteq Cells
        /\ Baseline(s) = last_run[s] /\ LooksAt(s) = Reads[s]
    BY ScheduleAssumption DEF CInv, Types, Readers, Baseline, LooksAt
  <2>2. c \in Reads[s] /\ IsNewerThan(changed[c], last_run[s], tick)
    BY DEF Reported, Changed
  <2>3. age[c] < age[s]
    BY <2>1, <2>2, NewerIsYounger
  <2> QED BY <2>1, <2>2, <2>3 DEF CInv, NewsByAge
<1> QED BY <1>1, ChangesInvariant, PTL

(* What another system wrote since a system last ran is yielded to it.     *)
THEOREM EveryStepWriteSeen == Spec => []StepWritesSeen
<1>1. CInv => StepWritesSeen
  <2> SUFFICES ASSUME CInv, NEW s \in running, NEW c \in news[s]
               PROVE  c \in Reported(s)
    BY DEF StepWritesSeen
  <2>1. /\ s \in Systems /\ s \in Readers
        /\ Baseline(s) = last_run[s] /\ LooksAt(s) = Reads[s]
    BY DEF CInv, Types, Readers, Baseline, LooksAt
  <2>2. c \in Reads[s] /\ c \in Cells
    BY <2>1, ScheduleAssumption DEF CInv, Types
  <2>3. age[c] < age[s]
    BY <2>1, <2>2 DEF CInv, NewsByAge
  <2>4. IsNewerThan(changed[c], last_run[s], tick)
    BY <2>1, <2>2, <2>3, NewerIsYounger
  <2> QED BY <2>2, <2>4 DEF Reported, Changed
<1> QED BY <1>1, ChangesInvariant, PTL

(* A query of the main thread yields what was written since its baseline.  *)
LEMMA QueryYieldsNews ==
  ASSUME CInv, RoomFor(1), NEW r \in {Main, Window}
  PROVE  QueryReports(Baseline(r)) = news[r] \cup outside_news[r]
<1>1. r \in Readers /\ r \notin Systems /\ LooksAt(r) = Cells
  BY NamesAssumption DEF Readers, LooksAt
<1>2. news[r] \cup outside_news[r] \subseteq Cells
  BY <1>1 DEF CInv, Types
<1>3. ASSUME NEW c \in Cells
      PROVE  c \in QueryReports(Baseline(r)) <=> c \in news[r] \cup outside_news[r]
  <2>1. c \in QueryReports(Baseline(r)) <=> age[c] < age[r]
    BY <1>1, NewerIsYounger DEF QueryReports, Changed
  <2>2. age[c] < age[r] <=> c \in news[r] \cup outside_news[r]
    BY <1>1 DEF CInv, NewsByAge
  <2> QED BY <2>1, <2>2
<1>4. QueryReports(Baseline(r)) \subseteq Cells
  BY DEF QueryReports, Changed
<1> QED BY <1>2, <1>3, <1>4

(* create_query yields what was written since the previous create_query,   *)
(* create_query_since what was written since capture_current_tick.         *)
THEOREM QueriesExact == Spec => []QueryExact
<1>1. CInv => QueryExact
  <2>1. Baseline(Main) = last_query_tick /\ Baseline(Window) = captured
    BY NamesAssumption DEF Baseline, Main, Window
  <2> QED BY <2>1, QueryYieldsNews DEF QueryExact
<1> QED BY <1>1, ChangesInvariant, PTL
=============================================================================
