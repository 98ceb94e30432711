------------------------------ MODULE HostReflex ------------------------------
(***************************************************************************)
(* The host's reflex engine (crates/obc-reflex/src/lib.rs): a tick reads   *)
(* the world memory entity by entity, evaluates every rule against what it *)
(* read, and hands the fired ones to the sink one after the other.  World  *)
(* writers and the clock move between any two of those steps.  Conditions  *)
(* are conjunctions of entities whose value is 1; comparisons, baselines   *)
(* and slots only choose that value.                                       *)
(***************************************************************************)
EXTENDS Integers, Sequences, FiniteSets, InOrder

CONSTANTS Watched,
          Rules,      \* sequence of rules: id, entities, hold, interval, onChange, escalates
          MaxInWindow, Window, \* EscalationBudget; MaxInWindow = 0 is no limit
          LastTick,   \* bound: the clock
          MaxFacts,   \* bound: facts written
          MaxSinkFaults \* bound: failed actions and process ends, together

VARIABLES tickNow,      \* now_ms, in ticks
          world,    \* entity -> current fact: its id and value; id 0 is no fact
          engine,   \* last_fire, last_evidence, true_since by rule id
          reading,  \* the tick: entities yet to read, and the snapshot so far
          fired,    \* rules fired by the tick and not yet dispatched
          budget,   \* times of the escalations let through
          factsMade, sinkFaults,
          acted,    \* rule id -> evidence of the last action done
          dropped,  \* rules whose last fire was taken from them on the way to the sink
          sent      \* times of the escalations done since the process started

reflexVars == <<tickNow, world, engine, reading, fired, budget, factsMade, sinkFaults,
                acted, dropped, sent>>

RuleIds == {Rules[i].id : i \in DOMAIN Rules}
Rule == [id : RuleIds, entities : SUBSET Watched, hold : Nat, interval : Nat,
         onChange : BOOLEAN, escalates : BOOLEAN]
(* ReflexRule::id is documented as unique; the engine's maps are keyed by it. *)
ASSUME ReflexAssumption ==
  /\ Rules \in Seq(Rule)
  /\ \A i, j \in DOMAIN Rules : Rules[i].id = Rules[j].id => i = j
  /\ MaxInWindow \in Nat /\ Window \in Nat

Never0 == -1
NoEvidence == {}
NoTick == [todo |-> {}, snap |-> <<>>, on |-> FALSE]

FreshEngine ==
  [lastFire |-> [r \in RuleIds |-> Never0],
   evidence |-> [r \in RuleIds |-> NoEvidence],
   since    |-> [r \in RuleIds |-> Never0]]

ReflexInit ==
  /\ tickNow = 0
  /\ world = [e \in Watched |-> [id |-> 0, value |-> 0]]
  /\ engine = FreshEngine
  /\ reading = NoTick
  /\ fired = <<>>
  /\ budget = <<>>
  /\ factsMade = 0
  /\ sinkFaults = 0
  /\ acted = [r \in RuleIds |-> NoEvidence]
  /\ dropped = {}
  /\ sent = {}

(* A writer inserts a fact; a fact of an origin the engine does not trust   *)
(* counts as none in the snapshot, so it is written here as id 0.           *)
WriteFact(e, v) ==
  /\ factsMade < MaxFacts
  /\ factsMade' = factsMade + 1
  /\ world' = [world EXCEPT ![e] = [id |-> factsMade + 1, value |-> v]]
  /\ UNCHANGED <<tickNow, engine, reading, fired, budget, sinkFaults, acted, dropped, sent>>

Withhold(e) ==
  /\ world[e].id # 0
  /\ world' = [world EXCEPT ![e] = [id |-> 0, value |-> 0]]
  /\ UNCHANGED <<tickNow, engine, reading, fired, budget, factsMade, sinkFaults, acted, dropped, sent>>

(* tick_and_dispatch, at a later now_ms. *)
TickStarts ==
  /\ ~reading.on
  /\ fired = <<>>
  /\ tickNow < LastTick
  /\ tickNow' = tickNow + 1
  /\ reading' = [todo |-> Watched, snap |-> [e \in Watched |-> [id |-> 0, value |-> 0]],
                 on |-> TRUE]
  /\ UNCHANGED <<world, engine, fired, budget, factsMade, sinkFaults, acted, dropped, sent>>

(* world.current of the next referenced entity, in no fixed order. *)
ReadEntity(e) ==
  /\ e \in reading.todo
  /\ reading' = [reading EXCEPT !.todo = @ \ {e}, !.snap[e] = world[e]]
  /\ UNCHANGED <<tickNow, world, engine, fired, budget, factsMade, sinkFaults, acted, dropped, sent>>

----------------------------------------------------------------------------
(* evaluate, of one rule: what holds, since when, and on what evidence.    *)
Holds(rule) == \A e \in rule.entities : reading.snap[e].value = 1

Since(rule) ==
  IF rule.hold = 0 THEN engine.since[rule.id]
  ELSE IF ~Holds(rule) THEN Never0
  ELSE IF engine.since[rule.id] = Never0 THEN tickNow ELSE engine.since[rule.id]

Evidence(rule) == {reading.snap[e].id : e \in rule.entities} \ {0}

Fires(rule) ==
  /\ Holds(rule)
  /\ rule.hold > 0 => tickNow - Since(rule) >= rule.hold
  /\ engine.lastFire[rule.id] # Never0 => tickNow - engine.lastFire[rule.id] >= rule.interval
  /\ rule.onChange => engine.evidence[rule.id] # Evidence(rule)

Evaluate ==
  /\ reading.on
  /\ reading.todo = {}
  /\ LET hits == {i \in DOMAIN Rules : Fires(Rules[i])}
         ids == {Rules[i].id : i \in hits}
         RuleOf(r) == Rules[CHOOSE i \in DOMAIN Rules : Rules[i].id = r]
     IN /\ \E hit \in Ascending(hits) :
             fired' = [k \in DOMAIN hit |->
                        [id |-> Rules[hit[k]].id, evidence |-> Evidence(Rules[hit[k]]),
                         escalates |-> Rules[hit[k]].escalates]]
        /\ engine' =
             [lastFire |-> [r \in RuleIds |-> IF r \in ids THEN tickNow ELSE engine.lastFire[r]],
              evidence |-> [r \in RuleIds |->
                IF r \in ids /\ RuleOf(r).onChange THEN Evidence(RuleOf(r))
                ELSE engine.evidence[r]],
              since    |-> [r \in RuleIds |-> Since(RuleOf(r))]]
        /\ dropped' = dropped \ ids
  /\ reading' = NoTick
  /\ UNCHANGED <<tickNow, world, budget, factsMade, sinkFaults, acted, sent>>

----------------------------------------------------------------------------
(* The dispatch. *)

First == Head(fired)

InWindow(t) == t >= (IF tickNow > Window THEN tickNow - Window ELSE 0)

(* EscalationBudget::allow first drops what has left the window, oldest first. *)
Lapsed ==
  CHOOSE n \in 0 .. Len(budget) :
    /\ \A i \in 1 .. n : ~InWindow(budget[i])
    /\ n < Len(budget) => InWindow(budget[n + 1])
Recent == SubSeq(budget, Lapsed + 1, Len(budget))
Allowed == MaxInWindow = 0 \/ Len(Recent) < MaxInWindow

SinkDoes ==
  /\ fired # <<>>
  /\ First.escalates => Allowed
  /\ budget' = IF First.escalates /\ MaxInWindow > 0 THEN Append(Recent, tickNow) ELSE budget
  /\ sent' = IF First.escalates THEN sent \cup {<<tickNow, First.id>>} ELSE sent
  /\ acted' = [acted EXCEPT ![First.id] = First.evidence]
  /\ fired' = Tail(fired)
  /\ UNCHANGED <<tickNow, world, engine, reading, factsMade, sinkFaults, dropped>>

(* Mutant: a suppressed escalation ends the dispatch. *)
SuppressAndReturn ==
  /\ fired # <<>>
  /\ First.escalates
  /\ ~Allowed
  /\ budget' = Recent
  /\ dropped' = dropped \cup {First.id}
  /\ fired' = <<>>
  /\ UNCHANGED <<tickNow, world, engine, reading, factsMade, sinkFaults, acted, sent>>

(* The budget is spent: the escalation is not sent, and the next is served. *)
Suppress ==
  /\ fired # <<>>
  /\ First.escalates
  /\ ~Allowed
  /\ budget' = Recent
  /\ dropped' = dropped \cup {First.id}
  /\ fired' = Tail(fired)
  /\ UNCHANGED <<tickNow, world, engine, reading, factsMade, sinkFaults, acted, sent>>

(* The sink fails: `?` leaves the tick, and what is behind it goes too. *)
SinkFails ==
  /\ fired # <<>>
  /\ sinkFaults < MaxSinkFaults
  /\ sinkFaults' = sinkFaults + 1
  /\ First.escalates => Allowed
  /\ budget' = IF First.escalates /\ MaxInWindow > 0 THEN Append(Recent, tickNow) ELSE budget
  /\ dropped' = dropped \cup {fired[i].id : i \in DOMAIN fired}
  /\ fired' = <<>>
  /\ UNCHANGED <<tickNow, world, engine, reading, factsMade, acted, sent>>

(* The process ends: what the engine and the budget remember goes with it. *)
ReflexRestarts ==
  /\ sinkFaults < MaxSinkFaults
  /\ sinkFaults' = sinkFaults + 1
  /\ engine' = FreshEngine
  /\ reading' = NoTick
  /\ fired' = <<>>
  /\ budget' = <<>>
  /\ dropped' = {}
  /\ sent' = {}
  /\ UNCHANGED <<tickNow, world, factsMade, acted>>

ReflexNext ==
  \/ \E e \in Watched, v \in {0, 1} : WriteFact(e, v)
  \/ \E e \in Watched : Withhold(e) \/ ReadEntity(e)
  \/ TickStarts \/ Evaluate \/ SinkDoes \/ Suppress \/ SinkFails \/ ReflexRestarts

----------------------------------------------------------------------------
(* What a rule has fired on is done, or about to be, or was taken from it  *)
(* on the way: by the budget, or by a sink that failed at it or before it  *)
(* in its tick (lib.rs:957).  A rule that fires on change is not asked     *)
(* again for the same facts, so nothing else may lose a fire.              *)
FiredIsDone ==
  \A i \in DOMAIN Rules :
    LET r == Rules[i].id
    IN engine.evidence[r] # NoEvidence =>
         \/ acted[r] = engine.evidence[r]
         \/ \E j \in DOMAIN fired : fired[j].id = r
         \/ r \in dropped

(* No stretch of Window milliseconds, its ends included, sees more         *)
(* escalations than the budget allows in the life of the process.          *)
EscalationsBounded ==
  MaxInWindow > 0 =>
    \A t \in 0 .. tickNow :
      Cardinality({s \in sent : s[1] \in t .. t + Window}) <= MaxInWindow

(* What fires is done, and not more often than the budget lets through. *)
FiresWithinBudget == FiredIsDone /\ EscalationsBounded
=============================================================================
