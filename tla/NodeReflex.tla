----------------------------- MODULE NodeReflex -----------------------------
(***************************************************************************)
(* The node's own reflexes: firmware/obc-esp32-s3.  One main loop reads     *)
(* commands from USB and from the mesh, judges the reflex rules against the *)
(* sensors once per interval, and sends every pin write, whoever asked for  *)
(* it, through one safety gate (safety.rs).  Limits, levels and rule        *)
(* history live in RAM and die with a reset; the host's rules are kept in   *)
(* NVS (rules_store.rs) and come back.                                      *)
(*                                                                          *)
(* Times are ages, in units of the model's clock, capped at AgeCap: an age  *)
(* of AgeCap is "that long ago or never", which is exact because every      *)
(* interval compared with an age is at most AgeCap.                         *)
(***************************************************************************)
EXTENDS Integers, Sequences, SequencesExt

CONSTANTS
  Pins, SafePin,          \* GPIOs; the one safing cuts (DEFAULT_SAFE_PIN)
  Policies,               \* the gpio_write limits a host pushes
  HostRules,              \* the rule sets a host pushes
  Messages,               \* the descending messages: sets of <<slot, level>>
  Slots,                  \* the slots a node holds (0 .. MAX_SLOTS-1)
  Snapshots,              \* what the sensors may read: entity -> integer
  Firmwares,              \* firmware versions a node is flashed with
  ReflexInterval,         \* REFLEX_INTERVAL_MS
  CutDebounce,            \* 5 000 ms
  NewsDebounce,           \* 10 000 ms
  LinkTimeout,            \* DEFAULT_LINK_TIMEOUT_MS
  AgeCap                  \* the bound of every age

ASSUME TimesAssumption ==
  /\ ReflexInterval \in Nat \ {0} /\ CutDebounce \in Nat /\ NewsDebounce \in Nat
  /\ LinkTimeout \in Nat /\ AgeCap \in Nat
  /\ CutDebounce + ReflexInterval <= AgeCap /\ NewsDebounce + ReflexInterval <= AgeCap
  /\ LinkTimeout <= AgeCap
ASSUME PinsAssumption ==
  /\ SafePin \in Pins
  /\ \A p \in Policies : p.pins \subseteq Pins /\ p.lo \in Int /\ p.hi \in Int /\ p.gap \in 0 .. AgeCap

VARIABLES
  rules,      \* the engine's rules: the built-ins, then the host's
  lastFire,   \* rule id -> age of its last fire
  firedRun,   \* rule id -> fired for the present run of truth
  heldFor,    \* rule id -> age of the tick its condition became true
  levels,     \* slot -> level, or Unset
  policy,     \* the gpio_write limit in force
  told,       \* a host has pushed limits since boot
  gateAge,    \* pin -> age of the last write the gate admitted
  silence,    \* age of the last host contact
  tickAge,    \* age of the last reflex tick
  nvs,        \* the rule record in flash, or NoRecord
  firmware,   \* the firmware now running
  pinLevel,   \* what each pin is driven to
  \* History, for the properties only:
  drove,      \* the writes that reached the hardware in the last step
  stood,      \* position -> age of the present run of truth, as ticks saw
              \* it, up to one interval past the rule's hold
  quiet,      \* position -> age of that rule's last fire since it was armed
  spoke,      \* position -> it has fired in the present run
  driveAge,   \* pin -> age of the last drive under the policy in force,
              \* while that policy has an interval
  kept        \* the running host rules were acknowledged as persisted

engine == <<lastFire, firedRun, heldFor>>
gate == <<policy, told, gateAge, pinLevel, driveAge>>
history == <<stood, quiet, spoke>>
nodeVars == <<rules, engine, levels, gate, silence, tickAge, nvs, firmware,
          drove, history, kept>>

Unset == -1
NotHeld == -1
NoRecord == [firmware |-> "none", rules |-> << >>]
Older(age) == IF age < AgeCap THEN age + 1 ELSE AgeCap

-----------------------------------------------------------------------------
(* Rules.  "soc", "temperature" and "humidity" are the entities the         *)
(* built-ins read; the scale of each is the model's: 0 critical, 1 low.     *)

Sensor(e, op, v) == [kind |-> "sensor", entity |-> e, op |-> op, value |-> v]
Write(p, v) == [kind |-> "gpio_write", pin |-> p, value |-> v]
Escalate == [kind |-> "escalate"]
Nothing == [kind |-> "nothing"]
Rule(id, when, then, gap, edge, hold) ==
  [id |-> id, when |-> when, then |-> then, gap |-> gap, edge |-> edge, hold |-> hold]

DefaultSafingRules ==
  << Rule("safe-battery-critical", Sensor("soc", "le", 0), Write(SafePin, 0), CutDebounce, FALSE, 0),
     Rule("safe-battery-low", Sensor("soc", "le", 1), Escalate, CutDebounce, FALSE, 0),
     Rule("safe-link-offline", Sensor("silence", "ge", LinkTimeout), Escalate, NewsDebounce, TRUE, 0),
     Rule("safe-overtemp-critical", Sensor("temperature", "ge", 2), Write(SafePin, 0), CutDebounce, FALSE, 0),
     Rule("safe-overtemp-warn", Sensor("temperature", "ge", 1), Escalate, CutDebounce, FALSE, 0),
     Rule("safe-humidity-high", Sensor("humidity", "ge", 1), Escalate, NewsDebounce, FALSE, 0) >>

WithDefaults(host) == DefaultSafingRules \o host

\* A rule set is a sequence; the id of a rule is its own (obc-reflex documents
\* it as unique, and nothing checks it).
ASSUME HostRulesAssumption ==
  \A h \in HostRules :
    /\ h \in Seq(ToSet(h))
    /\ \A r \in ToSet(h) :
         /\ r.then = Escalate \/ \E p \in Pins, v \in 0 .. 1 : r.then = Write(p, v)
         /\ r.gap \in 0 .. AgeCap /\ r.edge \in BOOLEAN
         /\ r.hold \in Nat /\ r.hold + ReflexInterval <= AgeCap
    /\ \A i, j \in DOMAIN WithDefaults(h) : WithDefaults(h)[i].id = WithDefaults(h)[j].id => i = j

Ids == {r.id : r \in ToSet(WithDefaults(<< >>)) \cup UNION {ToSet(h) : h \in HostRules}}

Test(op, a, b) ==
  CASE op = "gt" -> a > b  [] op = "ge" -> a >= b
    [] op = "lt" -> a < b  [] op = "le" -> a <= b
    [] op = "eq" -> a = b  [] op = "ne" -> a # b

\* A slot-bound threshold sits at min + level * (max - min); the model's
\* levels are the two ends of [0, 1].
Threshold(leaf, lv) ==
  IF leaf.kind = "sensor" THEN leaf.value
  ELSE LET l == IF lv[leaf.slot] = Unset THEN leaf.default ELSE lv[leaf.slot]
       IN  leaf.min + l * (leaf.max - leaf.min)

LeafHolds(leaf, snap, lv) ==
  /\ leaf.entity \in DOMAIN snap
  /\ Test(leaf.op, snap[leaf.entity], Threshold(leaf, lv))

\* Conditions nest And and Or one deep here; eval recurses without a limit.
Holds(when, snap, lv) ==
  CASE when.kind = "and" -> \A leaf \in when.all : LeafHolds(leaf, snap, lv)
    [] when.kind = "or"  -> \E leaf \in when.any : LeafHolds(leaf, snap, lv)
    [] OTHER             -> LeafHolds(when, snap, lv)

Leaves(when) == CASE when.kind = "and" -> when.all [] when.kind = "or" -> when.any
                  [] OTHER -> {when}
Valid(rs) == \A r \in ToSet(rs) : \A leaf \in Leaves(r.when) :
               leaf.kind = "slot" => leaf.slot \in Slots /\ leaf.default \in {0, 1}

\* The host's rules are what follows the built-ins.
HostPart == SubSeq(rules, Len(DefaultSafingRules) + 1, Len(rules))

-----------------------------------------------------------------------------
(* One pass of the engine over the rules, in order.  Fire history is keyed  *)
(* by rule id, as in the code.                                              *)

\* Mutant: a condition that drops leaves its hold running.
JudgeKeepsHold(s, r, i, snap) ==
  IF ~Holds(r.when, snap, levels)
  THEN [s EXCEPT !.ran[r.id] = FALSE]
  ELSE LET began == IF s.held[r.id] = NotHeld THEN 0 ELSE s.held[r.id]
           waits == \/ r.hold > 0 /\ began < r.hold
                    \/ r.edge /\ s.ran[r.id]
                    \/ r.gap > 0 /\ s.last[r.id] < r.gap
           run   == [s EXCEPT !.held[r.id] = began]
       IN  IF waits THEN run
           ELSE [run EXCEPT !.last[r.id] = 0, !.ran[r.id] = r.edge,
                            !.fired = Append(@, i)]

Judge(s, r, i, snap) ==
  IF ~Holds(r.when, snap, levels)
  THEN [s EXCEPT !.ran[r.id]  = IF r.edge THEN FALSE ELSE @,
                 !.held[r.id] = IF r.hold > 0 THEN NotHeld ELSE @]
  ELSE LET began == IF s.held[r.id] = NotHeld THEN 0 ELSE s.held[r.id]
           kept1 == [s EXCEPT !.held[r.id] = IF r.hold > 0 THEN began ELSE @]
           waits == \/ r.hold > 0 /\ began < r.hold
                    \/ r.edge /\ s.ran[r.id]
                    \/ r.gap > 0 /\ s.last[r.id] < r.gap
       IN  IF waits THEN kept1
           ELSE [kept1 EXCEPT !.last[r.id] = 0,
                              !.ran[r.id]  = IF r.edge THEN TRUE ELSE @,
                              !.fired      = Append(@, i)]

Judged(snap) ==
  LET after[i \in 0 .. Len(rules)] ==
        IF i = 0
        THEN [last |-> lastFire, ran |-> firedRun, held |-> heldFor, fired |-> << >>]
        ELSE Judge(after[i - 1], rules[i], i, snap)
  IN  after

Evaluate(snap) == Judged(snap)[Len(rules)]

\* The actions of the rules that fired, in their order.
Actions(positions) == [k \in DOMAIN positions |-> rules[positions[k]].then]

\* reflex_tick: the same conditions, no history read or written.
EvaluateScratch(snap) ==
  [i \in DOMAIN rules |-> IF Holds(rules[i].when, snap, levels) THEN rules[i].then ELSE Nothing]

-----------------------------------------------------------------------------
(* The gate, and the pins behind it.                                        *)

\* Mutant: a boot policy with no allow-list, which permits any pin.
DenyNothing == [pins |-> Pins, lo |-> 0, hi |-> 1, gap |-> 0]
DenyUntilTold == [pins |-> {}, lo |-> 0, hi |-> 1, gap |-> 0]

\* check: allow-list, value range, per-pin interval.  A missing list (pins =
\* Pins) permits any pin, an empty one none; gap 0 is no interval.
Admits(g, w) ==
  /\ w.pin \in policy.pins
  /\ w.value \in policy.lo .. policy.hi
  /\ policy.gap > 0 => g.age[w.pin] >= policy.gap

\* gpio_write: the gate records the write before the hardware is asked, so a
\* hardware error spends the interval.
GpioWrite(g, w, faulty) ==
  IF ~Admits(g, w) THEN g
  ELSE LET passed == [g EXCEPT !.age[w.pin] = IF policy.gap > 0 THEN 0 ELSE @]
       IN  IF w.pin \in faulty THEN passed
           ELSE [passed EXCEPT !.level[w.pin] = w.value, !.drove = Append(@, w)]

\* Only a gpio_write touches a pin.
Perform(g, act, faulty) == IF act.kind = "gpio_write" THEN GpioWrite(g, act, faulty) ELSE g

\* The actions of one step, in order, at one instant.
Performed(acts, faulty) ==
  LET after[k \in 0 .. Len(acts)] ==
        IF k = 0 THEN [age |-> gateAge, level |-> pinLevel, drove |-> << >>]
        ELSE Perform(after[k - 1], acts[k], faulty)
  IN  after

Actuate(acts, faulty) ==
  LET end == Performed(acts, faulty)[Len(acts)]
  IN  /\ gateAge' = end.age
      /\ pinLevel' = end.level
      /\ drove' = end.drove
      /\ driveAge' = [p \in Pins |-> IF policy.gap > 0 /\ \E w \in ToSet(end.drove) : w.pin = p
                                     THEN 0 ELSE driveAge[p]]
      /\ UNCHANGED <<policy, told>>

-----------------------------------------------------------------------------
(* Arming: every rule forgets what it fired (rearm).                        *)

\* Mutant: a new policy or rule set leaves spent edges spent.
FreshKeepsEdges(rs) ==
  /\ lastFire' = [id \in Ids |-> AgeCap]
  /\ firedRun' = firedRun
  /\ heldFor' = [id \in Ids |-> NotHeld]
  /\ stood' = [i \in DOMAIN rs |-> NotHeld]
  /\ quiet' = [i \in DOMAIN rs |-> AgeCap]
  /\ spoke' = [i \in DOMAIN rs |-> FALSE]

Fresh(rs) ==
  /\ lastFire' = [id \in Ids |-> AgeCap]
  /\ firedRun' = [id \in Ids |-> FALSE]
  /\ heldFor' = [id \in Ids |-> NotHeld]
  /\ stood' = [i \in DOMAIN rs |-> NotHeld]
  /\ quiet' = [i \in DOMAIN rs |-> AgeCap]
  /\ spoke' = [i \in DOMAIN rs |-> FALSE]

Silent == drove' = << >>
Contact == silence' = 0

NodeInit ==
  /\ rules = WithDefaults(<< >>)
  /\ lastFire = [id \in Ids |-> AgeCap]
  /\ firedRun = [id \in Ids |-> FALSE]
  /\ heldFor = [id \in Ids |-> NotHeld]
  /\ levels = [s \in Slots |-> Unset]
  /\ policy = DenyUntilTold /\ told = FALSE
  /\ gateAge = [p \in Pins |-> AgeCap]
  /\ pinLevel = [p \in Pins |-> 0]
  /\ silence = 0 /\ tickAge = ReflexInterval
  /\ nvs = NoRecord /\ firmware \in Firmwares
  /\ drove = << >> /\ kept = TRUE
  /\ stood = [i \in DOMAIN rules |-> NotHeld]
  /\ quiet = [i \in DOMAIN rules |-> AgeCap]
  /\ spoke = [i \in DOMAIN rules |-> FALSE]
  /\ driveAge = [p \in Pins |-> AgeCap]

\* A unit of time passes; the loop comes round before a tick is overdue.
Elapse ==
  LET Aged(f) == [x \in DOMAIN f |-> Older(f[x])]
      AgedRun(f) == [x \in DOMAIN f |-> IF f[x] = NotHeld THEN NotHeld ELSE Older(f[x])]
  IN  /\ tickAge < ReflexInterval
      /\ tickAge' = tickAge + 1
      /\ silence' = Older(silence)
      /\ lastFire' = Aged(lastFire) /\ heldFor' = AgedRun(heldFor)
      /\ gateAge' = Aged(gateAge) /\ driveAge' = Aged(driveAge)
      /\ stood' = [i \in DOMAIN stood |->
                    IF stood[i] \in {NotHeld, rules[i].hold + ReflexInterval}
                    THEN stood[i] ELSE stood[i] + 1]
      /\ quiet' = Aged(quiet)
      /\ Silent
      /\ UNCHANGED <<rules, firedRun, levels, policy, told, pinLevel, nvs, firmware, spoke, kept>>

\* The autonomous tick: read the sensors and the silence clock, judge every
\* rule, then perform what fired, in rule order, through the gate.
Tick(reading, faulty) ==
  LET snap == [e \in DOMAIN reading \cup {"silence"} |->
                 IF e = "silence" THEN silence ELSE reading[e]]
      end  == Evaluate(snap)
      now  == [i \in DOMAIN rules |-> Holds(rules[i].when, snap, levels)]
  IN  /\ tickAge >= ReflexInterval
      /\ tickAge' = 0
      /\ lastFire' = end.last /\ firedRun' = end.ran /\ heldFor' = end.held
      /\ Actuate(Actions(end.fired), faulty)
      /\ stood' = [i \in DOMAIN rules |-> IF ~now[i] THEN NotHeld
                                          ELSE IF stood[i] = NotHeld THEN 0 ELSE stood[i]]
      /\ quiet' = [i \in DOMAIN rules |-> IF i \in ToSet(end.fired) THEN 0 ELSE quiet[i]]
      /\ spoke' = [i \in DOMAIN rules |-> now[i] /\ (i \in ToSet(end.fired) \/ spoke[i])]
      /\ UNCHANGED <<rules, levels, silence, nvs, firmware, kept>>

\* gpio_write, over USB or over the mesh.
WriteCommand(w, faulty) ==
  /\ Actuate(<<w>>, faulty)
  /\ Contact
  /\ UNCHANGED <<rules, engine, levels, tickAge, nvs, firmware, history, kept>>

\* reflex_tick: a bench question whose writes are real.
BenchTick(snap, faulty) ==
  /\ Actuate(EvaluateScratch(snap), faulty)
  /\ Contact
  /\ UNCHANGED <<rules, engine, levels, tickAge, nvs, firmware, history, kept>>

\* set_limits with a gpio_write limit for this node: it replaces the policy,
\* clears the gate's intervals, and arms every rule again.
SetLimits(p) ==
  /\ policy' = p /\ told' = TRUE
  /\ gateAge' = [q \in Pins |-> AgeCap]
  /\ driveAge' = [q \in Pins |-> AgeCap]
  /\ Fresh(rules)
  /\ Silent /\ Contact
  /\ UNCHANGED <<rules, levels, pinLevel, tickAge, nvs, firmware, kept>>

\* Mutant: the record is made from the rules being replaced.
RecordBefore(host) == [firmware |-> firmware, rules |-> HostPart]
Record(host) == [firmware |-> firmware, rules |-> host]

\* set_reflex_rules: refused whole, or merged behind the built-ins and then
\* written to NVS; a store that refuses leaves the old record and is reported.
SetReflexRules(host, stored) ==
  /\ IF Valid(host)
     THEN /\ rules' = WithDefaults(host)
          /\ Fresh(rules')
          /\ nvs' = IF stored THEN Record(host) ELSE nvs
          /\ kept' = stored
     ELSE UNCHANGED <<rules, engine, history, nvs, kept>>
  /\ Silent /\ Contact
  /\ UNCHANGED <<levels, gate, tickAge, firmware>>

\* descend: "clear" first drops every level; the pairs are then all applied
\* or, if one is out of range, all refused.
Descend(clear, pairs) ==
  LET before == IF clear THEN [s \in Slots |-> Unset] ELSE levels
      good == \A p \in pairs : p[1] \in Slots /\ p[2] \in {0, 1}
  IN  /\ levels' = [s \in Slots |-> IF good /\ \E p \in pairs : p[1] = s
                                    THEN (CHOOSE p \in pairs : p[1] = s)[2]
                                    ELSE before[s]]
      /\ Silent /\ Contact
      /\ UNCHANGED <<rules, engine, gate, tickAge, nvs, firmware, history, kept>>

\* Any other byte on USB, any other request from either link: host contact.
OtherContact ==
  /\ Silent /\ Contact
  /\ UNCHANGED <<rules, engine, levels, gate, tickAge, nvs, firmware, history, kept>>

\* A reset, with or without a new firmware: everything in RAM is gone, the
\* gate denies every pin, and the stored rules come back if this firmware
\* wrote them (a record of another one is cleared).  A store that cannot be
\* opened or read is taken for an empty one and left alone.
Reboot(fw, readable) ==
  LET usable == nvs.firmware = fw /\ Valid(nvs.rules)
  IN
  /\ firmware' = fw
  /\ rules' = WithDefaults(IF readable /\ usable THEN nvs.rules ELSE << >>)
  /\ nvs' = IF readable /\ ~usable THEN NoRecord ELSE nvs
  /\ Fresh(rules')
  /\ levels' = [s \in Slots |-> Unset]
  /\ policy' = DenyUntilTold /\ told' = FALSE
  /\ gateAge' = [p \in Pins |-> AgeCap]
  /\ driveAge' = [p \in Pins |-> AgeCap]
  /\ pinLevel' = [p \in Pins |-> 0]
  /\ tickAge' = ReflexInterval
  /\ Silent /\ Contact
  /\ kept' = readable

NodeNext ==
  \/ Elapse
  \/ \E snap \in Snapshots, faulty \in {{}, {SafePin}} : Tick(snap, faulty)
  \/ \E p \in Pins, v \in 0 .. 1, faulty \in {{}, {SafePin}} : WriteCommand(Write(p, v), faulty)
  \/ \E snap \in Snapshots, faulty \in {{}, {SafePin}} : BenchTick(snap, faulty)
  \/ \E p \in Policies : SetLimits(p)
  \/ \E host \in HostRules, stored \in BOOLEAN : SetReflexRules(host, stored)
  \/ \E clear \in BOOLEAN, pairs \in Messages : Descend(clear, pairs)
  \/ OtherContact
  \/ \E fw \in Firmwares, readable \in BOOLEAN : Reboot(fw, readable)

NodeSpec == NodeInit /\ [][NodeNext]_nodeVars

-----------------------------------------------------------------------------
(* Properties.                                                              *)

Ages == 0 .. AgeCap
\* Every variable has its type; the rules are the built-ins and a host set.
NodeTypeOK ==
  /\ HostPart \in HostRules \cup {<< >>}
  /\ rules = WithDefaults(HostPart)
  /\ lastFire \in [Ids -> Ages] /\ firedRun \in [Ids -> BOOLEAN]
  /\ heldFor \in [Ids -> Ages \cup {NotHeld}]
  /\ levels \in [Slots -> {Unset, 0, 1}]
  /\ policy \in Policies \cup {DenyUntilTold} /\ told \in BOOLEAN
  /\ gateAge \in [Pins -> Ages] /\ driveAge \in [Pins -> Ages]
  /\ pinLevel \in [Pins -> 0 .. 1]
  /\ silence \in Ages /\ tickAge \in 0 .. ReflexInterval
  /\ nvs \in {NoRecord} \cup [firmware : Firmwares, rules : HostRules]
  /\ firmware \in Firmwares /\ kept \in BOOLEAN
  /\ stood \in [DOMAIN rules -> Ages \cup {NotHeld}]
  /\ quiet \in [DOMAIN rules -> Ages] /\ spoke \in [DOMAIN rules -> BOOLEAN]

\* The state is well formed. No pin is driven in a boot whose host has not
\* spoken yet, whichever of a command, a bench tick, a built-in or a restored
\* host rule asks for it; and a write that reaches the hardware lies inside
\* the limits last pushed.
AuthorityIsTold ==
  /\ NodeTypeOK
  /\ ~told => \A p \in Pins : pinLevel[p] = 0
  /\ \A w \in ToSet(drove) : told /\ w.pin \in policy.pins /\ w.value \in policy.lo .. policy.hi

\* Two drives of one pin under one policy are its interval apart, across all
\* the sources of a write and among the rules of one tick.
DrivesSpaced ==
  [][\A k \in DOMAIN drove' : policy.gap > 0 =>
        /\ driveAge[drove'[k].pin] >= policy.gap
        /\ \A j \in DOMAIN drove' : drove'[j].pin = drove'[k].pin => j = k]_nodeVars

\* Rule i fires in this step: the step is a tick and leaves quiet[i] at 0.
Fires(i) == tickAge > 0 /\ tickAge' = 0 /\ i \in DOMAIN rules' /\ quiet'[i] = 0

\* A rule fires only once its condition has held unbroken for its hold, only
\* its interval after its last fire, and an edge rule only once per run, over
\* pushes of levels, rules and limits and over delayed ticks.
FiringDiscipline ==
  [][\A i \in DOMAIN rules : Fires(i) =>
        /\ rules[i].hold > 0 => stood[i] # NotHeld /\ stood[i] >= rules[i].hold
        /\ quiet[i] >= rules[i].gap
        /\ rules[i].edge => ~spoke[i]]_nodeVars

\* A condition that stands is acted on: an edge rule has fired in this run
\* and any other rule within its interval, counted afresh from a new policy
\* or rule set, so a write the old gate refused is asked of the new one.
FiredInTime(i) ==
  stood[i] # NotHeld /\ stood[i] - tickAge >= rules[i].hold =>
    \/ rules[i].edge /\ spoke[i]
    \/ quiet[i] <= tickAge
    \/ quiet[i] - tickAge < rules[i].gap
StandingFires == \A i \in DOMAIN rules : FiredInTime(i)

\* Host rules the node acknowledged as persisted are in force again after a
\* reset into the same firmware, and only they.
RulesRemembered ==
  [][\A fw \in Firmwares : fw = firmware /\ kept /\ ~told' /\ Reboot(fw, TRUE)
        => HostPart' = HostPart]_nodeVars

\* After a tick in which the built-in cut drove the safe pin low, the pin is
\* low: the host's rules do not undo self-protection.
CutStands ==
  [][Fires(1) /\ Write(SafePin, 0) \in ToSet(drove') => pinLevel'[SafePin] = 0]_nodeVars

\* A rule fires when it is time to, and a pin is driven no more often than its
\* limit allows.
ActsInTime == FiringDiscipline /\ DrivesSpaced
=============================================================================
