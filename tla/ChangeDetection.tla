-------------------------- MODULE ChangeDetection --------------------------
(***************************************************************************)
(* Change detection as a scheduler drives it (src/src/schedule/            *)
(* scheduler.rs, the tick of src/src/world/mod.rs, is_newer_than of        *)
(* src/src/utils.rs): a wrapping tick that every step moves on, a stamp    *)
(* per cell, a baseline per system. A cell is a component of an entity;    *)
(* what holds of its changed tick under the filter Changed holds of its    *)
(* added tick under Added, which the same comparison reads.                *)
(***************************************************************************)
EXTENDS Integers, Sequences, FiniteSets

CONSTANTS
  TickRange,   \* 2^32: how many values ChangedTick has
  Cells,
  Systems,
  Sessions,
  Schedule,    \* per session its steps, each a set of systems
  Reads,       \* the cells a system looks at through Changed
  Writes,      \* the cells a system may write
  MaxAge       \* bound: how many ticks a cell or a reader is left alone

(* is_newer_than asks that nothing is left alone for the whole range.      *)
ASSUME TickAssumption ==
  /\ TickRange \in Nat \ {0, 1}
  /\ MaxAge \in 1..(TickRange - 1)

(* check_group_can_parallel: no system writes what another one in its step *)
(* reads or writes.                                                        *)
ASSUME ScheduleAssumption ==
  /\ Reads \in [Systems -> SUBSET Cells] /\ Writes \in [Systems -> SUBSET Cells]
  /\ Schedule \in [Sessions -> Seq(SUBSET Systems)]
  /\ \A x \in Sessions : \A k \in DOMAIN Schedule[x] : \A s, t \in Schedule[x][k] :
       s # t => Writes[s] \cap (Reads[t] \cup Writes[t]) = {}

VARIABLES
  tick,              \* World::tick
  last_query_tick,   \* World::last_query_tick
  captured,          \* the baseline a caller keeps for create_query_since
  changed,           \* the changed tick of every cell
  last_run,          \* SystemAlias::last_run_tick
  session,           \* the session that is being run, or Idle
  step,              \* how many of its steps have begun
  running,           \* the systems of the current step still to run
  age,               \* history: ticks since a cell, or a baseline, was set
  news,              \* history: who has not looked since a step wrote a cell
  outside_news       \* history: or since it was written past the schedule

vars == <<tick, last_query_tick, captured, changed, last_run, session, step, running,
          age, news, outside_news>>

Idle == "idle"
Main == "main"       \* the reader that create_query stands for
Window == "window"   \* and the one that keeps a baseline of its own

ASSUME NamesAssumption ==
  /\ Cells \cap (Systems \cup {Main, Window}) = {}
  /\ Main \notin Systems /\ Window \notin Systems
  /\ Idle \notin Sessions

Readers == Systems \cup {Main, Window}
LooksAt(r) == IF r \in Systems THEN Reads[r] ELSE Cells

Init ==
  /\ tick = 1
  /\ last_query_tick = 0
  /\ captured = 0
  /\ changed = [c \in Cells |-> 1]    \* written before anything runs
  /\ last_run = [s \in Systems |-> 0]
  /\ session = Idle
  /\ step = 0
  /\ running = {}
  /\ age = [x \in Cells \cup Readers |-> IF x \in Cells THEN 0 ELSE 1]
  /\ news = [r \in Readers |-> {}]
  /\ outside_news = [r \in Readers |-> LooksAt(r)]

----------------------------------------------------------------------------
(* wrapping_sub, and is_newer_than.                                        *)
TicksSince(then, now) == (now - then) % TickRange

(* Bug: ticks compared as plain numbers.                                   *)
IsNewerThan_Plain(component_tick, last_run_tick, this_run_tick) ==
  component_tick > last_run_tick

(* Bug: equal ticks count as newer.                                        *)
IsNewerThan_OrEqual(component_tick, last_run_tick, this_run_tick) ==
  TicksSince(component_tick, this_run_tick) <= TicksSince(last_run_tick, this_run_tick)

IsNewerThan(component_tick, last_run_tick, this_run_tick) ==
  TicksSince(component_tick, this_run_tick) < TicksSince(last_run_tick, this_run_tick)

(* The rows a query built at this_run yields through the filter.           *)
Changed(cells, baseline, this_run) ==
  {c \in cells : IsNewerThan(changed[c], baseline, this_run)}

Reported(s) == Changed(Reads[s], last_run[s], tick)

RoomFor(ticks) == \A x \in DOMAIN age : age[x] + ticks <= MaxAge

(* A new tick; who takes the old one as a baseline is one tick behind.     *)
AdvanceTick(takers) ==
  /\ tick' = (tick + 1) % TickRange
  /\ age' = [x \in DOMAIN age |-> IF x \in takers THEN 1 ELSE age[x] + 1]

(* From here on everything written is news to this reader.                 *)
StartAnew(r) ==
  /\ news' = [news EXCEPT ![r] = {}]
  /\ outside_news' = [outside_news EXCEPT ![r] = {}]

(* Bug: a write is stamped with the tick before the current one.           *)
Stamp_Before(cells) ==
  changed' = [c \in Cells |-> IF c \in cells THEN (tick - 1) % TickRange ELSE changed[c]]

(* A write stamps the current tick.                                        *)
Stamp(cells) ==
  changed' = [c \in Cells |-> IF c \in cells THEN tick ELSE changed[c]]

(* Bug: another advance_tick of the step gets in between, and is kept.     *)
SetLastRun_Late(s) == last_run' = [last_run EXCEPT ![s] = (tick + 1) % TickRange]

SetLastRun(s) == last_run' = [last_run EXCEPT ![s] = tick]

(* Bug: the baseline is the tick the query itself runs at.                 *)
NextBaseline_AtQuery == (tick + 1) % TickRange

(* The baseline the next create_query is given.                            *)
NextBaseline == tick

----------------------------------------------------------------------------
(* Scheduler::run, up to its first step.                                   *)
Run(x) ==
  /\ session = Idle
  /\ RoomFor(Len(Schedule[x]))
  /\ session' = x
  /\ step' = 0
  /\ UNCHANGED <<tick, last_query_tick, captured, changed, last_run, running, age, news, outside_news>>

(* run_system and run_system_group: one tick for all systems of the step.  *)
BeginStep ==
  /\ session # Idle
  /\ running = {}
  /\ step < Len(Schedule[session])
  /\ step' = step + 1
  /\ running' = Schedule[session][step + 1]
  /\ AdvanceTick({})
  /\ UNCHANGED <<last_query_tick, captured, changed, last_run, session, news, outside_news>>

(* run_system_at: the system walks its filter, writes some cells as it     *)
(* goes, and keeps the tick of the step as its next baseline. Jobs of one  *)
(* group run in any order.                                                 *)
RunSystem(s, written) ==
  /\ s \in running
  /\ written \subseteq Writes[s]
  /\ running' = running \ {s}
  /\ Stamp(written)
  /\ SetLastRun(s)
  /\ age' = [x \in DOMAIN age |-> IF x \in written \cup {s} THEN 0 ELSE age[x]]
  /\ news' = [r \in Readers |-> IF r = s THEN {}
                                ELSE news[r] \cup (written \cap LooksAt(r))]
  /\ outside_news' = [outside_news EXCEPT ![s] = {}]
  /\ UNCHANGED <<tick, last_query_tick, captured, session, step>>

(* The end of a run, which is a sync point if the scheduler has            *)
(* AUTO_SYNC_POINT.                                                        *)
EndRun ==
  /\ session # Idle
  /\ running = {}
  /\ step = Len(Schedule[session])
  /\ session' = Idle
  /\ UNCHANGED <<tick, last_query_tick, captured, changed, last_run, step, running, age, news, outside_news>>

(* What is written past the schedule is stamped with the tick as it        *)
(* stands: by the main thread between runs, by a sync point, and by a Cmd  *)
(* that acts at once, of a lone system or of one in a group that runs one  *)
(* by one for want of an executor.                                         *)
WriteOutside(c) ==
  /\ session # Idle => step > 0 /\ running # Schedule[session][step]
  /\ Stamp({c})
  /\ age' = [age EXCEPT ![c] = 0]
  /\ outside_news' = [r \in Readers |-> outside_news[r] \cup ({c} \cap LooksAt(r))]
  /\ UNCHANGED <<tick, last_query_tick, captured, last_run, session, step, running, news>>

(* What a query built now for this baseline yields: create_query_since     *)
(* begins a tick first.                                                    *)
QueryReports(baseline) == Changed(Cells, baseline, (tick + 1) % TickRange)

(* create_query reports what is newer than the previous one.               *)
CreateQuery ==
  /\ session = Idle
  /\ RoomFor(1)
  /\ last_query_tick' = NextBaseline
  /\ AdvanceTick({Main})
  /\ StartAnew(Main)
  /\ UNCHANGED <<captured, changed, last_run, session, step, running>>

(* Bug: the baseline is the tick that begins, as advance_tick returns it.  *)
Captured_Advanced == (tick + 1) % TickRange

Captured == tick

CaptureCurrentTick ==
  /\ session = Idle
  /\ RoomFor(1)
  /\ captured' = Captured
  /\ AdvanceTick({Window})
  /\ StartAnew(Window)
  /\ UNCHANGED <<last_query_tick, changed, last_run, session, step, running>>

(* The window stays open: the next query since captured shows it again.    *)
CreateQuerySince ==
  /\ session = Idle
  /\ RoomFor(1)
  /\ AdvanceTick({})
  /\ UNCHANGED <<last_query_tick, captured, changed, last_run, session, step, running, news, outside_news>>

Next ==
  \/ \E x \in Sessions : Run(x)
  \/ BeginStep
  \/ \E s \in running, written \in SUBSET Cells : RunSystem(s, written)
  \/ EndRun
  \/ \E c \in Cells : WriteOutside(c)
  \/ CreateQuery
  \/ CaptureCurrentTick
  \/ CreateQuerySince

Spec == Init /\ [][Next]_vars
----------------------------------------------------------------------------
(* Ticks, and ages that agree with them: the stamps are the true times of  *)
(* the writes and looks, modulo TickRange.                                 *)
TypeOK ==
  /\ tick \in 0..(TickRange - 1)
  /\ \A c \in Cells : changed[c] = (tick - age[c]) % TickRange
  /\ \A s \in Systems : last_run[s] = (tick - age[s]) % TickRange
  /\ last_query_tick = (tick - age[Main]) % TickRange
  /\ captured = (tick - age[Window]) % TickRange
  /\ session \in Sessions \cup {Idle}
  /\ \A r \in Readers : news[r] \cup outside_news[r] \subseteq LooksAt(r)

(* A system never sees a write it made itself, or one it has seen: what    *)
(* Changed yields was written by another since its previous run.           *)
NothingTwice ==
  \A s \in running : Reported(s) \subseteq news[s] \cup outside_news[s]

(* And it misses nothing another system wrote, whatever the sessions,      *)
(* however rarely it runs and across the wrap of the tick.                 *)
StepWritesSeen ==
  \A s \in running : news[s] \subseteq Reported(s)

(* create_query reports what was written since the previous create_query,  *)
(* by steps and between them; create_query_since what was written since    *)
(* its baseline was captured, as often as it is asked. Neither disturbs    *)
(* the other.                                                              *)
QueryExact ==
  session = Idle /\ RoomFor(1) =>
    /\ QueryReports(last_query_tick) = news[Main] \cup outside_news[Main]
    /\ QueryReports(captured) = news[Window] \cup outside_news[Window]

(* "sees every change exactly once" (src/docs/xynok_ecs_overview.md:306),  *)
(* the writes past the schedule included.                                  *)
NothingMissed ==
  \A s \in running : outside_news[s] \subseteq Reported(s)
=============================================================================
