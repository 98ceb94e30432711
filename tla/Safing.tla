--------------------------------- MODULE Safing ---------------------------------
(***************************************************************************)
(* From a mode that goes bad to what the host does about it: the standard   *)
(* safing rules (crates/obc-reflex/src/safing.rs), fired by the reflex      *)
(* controller; SafingSink, which turns the advisories into the flags of     *)
(* SafingState; MovementActionSink and the MovementController it shares     *)
(* with the move_actuator tool (crates/obc-movement), which asks the safety *)
(* gate, records, and then drives.  Modes change, commands come and sinks   *)
(* fail between any two of these steps.                                     *)
(***************************************************************************)
EXTENDS Integers, Sequences, FiniteSets

LOCAL INSTANCE SequencesExt

CONSTANTS Suites,       \* suites that may be running: a set of sets of entities
          Debounce,     \* debounce of every safing rule
          StopInterval, \* min_interval_ms of the limit on `stop`, 0 for none
          MaxSafingFaults \* bound: sinks and stores that fail

ASSUME SafingAssumption ==
  Debounce \in Nat \ {0} /\ StopInterval \in Nat /\ Suites \subseteq SUBSET {"power", "net"}

VARIABLES suites,   \* entity of each suite that runs
          mode,     \* entity -> its current mode fact, or "none"
          sinceFire,\* rule id -> time since it fired, up to Debounce
          sinceStop,\* time since the gate let a stop through, up to StopInterval
          advice,   \* rules fired by the tick and not yet dispatched
          flags,    \* SafingState: the flags that are set
          commanded,\* the actuator's fact: its last recorded command
          driving,  \* caller -> command recorded and not yet driven, or "none"
          driven,   \* what the hardware was last told
          safingFaults

safingVars == <<suites, mode, sinceFire, sinceStop, advice, flags, commanded, driving, driven,
                safingFaults>>

Modes == [power |-> {"normal", "charging", "low", "critical"},
          net   |-> {"online", "degraded", "offline"}]
Movers == {"reflex", "tool"}

Rule(id, entity, modes, does) == [id |-> id, entity |-> entity, modes |-> modes, does |-> does]

EngageRules ==
  << Rule("critical-escalate", "power", {"critical"}, "escalate"),
     Rule("critical-stop", "power", {"critical"}, "stop"),
     Rule("low", "power", {"low"}, "shed_load"),
     Rule("offline", "net", {"offline"}, "degraded_mode"),
     Rule("degraded", "net", {"degraded"}, "reduce_bandwidth") >>
RecoveryRules ==
  << Rule("power-recovered", "power", {"normal", "charging"}, "clear_shed"),
     Rule("net-recovered", "net", {"online"}, "clear_net") >>
(* standard_safing_rules, with an actuator to stop; those that only escalate  *)
(* on a count are the mesh supervisor's and the watches' own.                 *)
StandardRules == EngageRules \o RecoveryRules
SafingIds == {StandardRules[i].id : i \in DOMAIN StandardRules}

SafingInit ==
  /\ suites \in Suites
  /\ mode = [e \in {"power", "net"} |-> "none"]
  /\ sinceFire = [r \in SafingIds |-> Debounce]
  /\ sinceStop = StopInterval
  /\ advice = <<>>
  /\ flags = {}
  /\ commanded = "none" /\ driven = "none"
  /\ driving = [m \in Movers |-> "none"]
  /\ safingFaults = 0

----------------------------------------------------------------------------
(* The world, and time. *)

(* A suite records a mode. *)
ModeChanges(e, m) ==
  /\ e \in suites /\ m # mode[e]
  /\ mode' = [mode EXCEPT ![e] = m]
  /\ UNCHANGED <<suites, sinceFire, sinceStop, advice, flags, commanded, driving, driven, safingFaults>>

Aged(age, cap) == IF age < cap THEN age + 1 ELSE cap

SafingTime ==
  /\ \/ sinceStop < StopInterval
     \/ \E r \in SafingIds : sinceFire[r] < Debounce
  /\ sinceFire' = [r \in SafingIds |-> Aged(sinceFire[r], Debounce)]
  /\ sinceStop' = Aged(sinceStop, StopInterval)
  /\ UNCHANGED <<suites, mode, advice, flags, commanded, driving, driven, safingFaults>>

Fails == safingFaults < MaxSafingFaults /\ safingFaults' = safingFaults + 1

----------------------------------------------------------------------------
(* The reflex controller. *)

Matches(rule) == mode[rule.entity] \in rule.modes
Elapsed(rule) == sinceFire[rule.id] >= Debounce

(* Mutant: a rule that holds is noted as fired also when it is debounced. *)
TickNotesAll ==
  /\ advice = <<>>
  /\ \E i \in DOMAIN StandardRules : Matches(StandardRules[i])
  /\ advice' = SelectSeq(StandardRules, LAMBDA r : Matches(r) /\ Elapsed(r))
  /\ sinceFire' = [r \in SafingIds |->
       IF \E i \in DOMAIN StandardRules : StandardRules[i].id = r /\ Matches(StandardRules[i])
       THEN 0 ELSE sinceFire[r]]
  /\ UNCHANGED <<suites, mode, sinceStop, flags, commanded, driving, driven, safingFaults>>

(* ReflexEngine::tick: what holds and is not debounced fires.  A rule reads    *)
(* one entity, so the order the tick reads them in makes no difference.        *)
SafingTick ==
  /\ advice = <<>>
  /\ \E i \in DOMAIN StandardRules : Matches(StandardRules[i]) /\ Elapsed(StandardRules[i])
  /\ advice' = SelectSeq(StandardRules, LAMBDA r : Matches(r) /\ Elapsed(r))
  /\ sinceFire' = [r \in SafingIds |->
       IF \E i \in DOMAIN advice' : advice'[i].id = r THEN 0 ELSE sinceFire[r]]
  /\ UNCHANGED <<suites, mode, sinceStop, flags, commanded, driving, driven, safingFaults>>

(* apply_advisory. *)
Applied(f, does) ==
  CASE does = "shed_load"        -> f \cup {"shed_load"}
    [] does = "degraded_mode"    -> f \cup {"offline", "degraded_net"}
    [] does = "reduce_bandwidth" -> f \cup {"degraded_net"}
    [] does = "clear_shed"       -> f \ {"shed_load"}
    [] does = "clear_net"        -> f \ {"offline", "degraded_net"}

Publishes == advice # <<>> /\ Head(advice).does \notin {"escalate", "stop"}

(* SafingSink::publish: the flags first, then the sink behind it. *)
Publish ==
  /\ Publishes
  /\ flags' = Applied(flags, Head(advice).does)
  /\ advice' = Tail(advice)
  /\ UNCHANGED <<suites, mode, sinceFire, sinceStop, commanded, driving, driven, safingFaults>>

(* It fails there: the flags stay, and the rest of the tick is dropped.        *)
PublishFails ==
  /\ Publishes /\ Fails
  /\ flags' = Applied(flags, Head(advice).does)
  /\ advice' = <<>>
  /\ UNCHANGED <<suites, mode, sinceFire, sinceStop, commanded, driving, driven>>

(* Sent, or held back by the escalation budget. *)
Escalate ==
  /\ advice # <<>> /\ Head(advice).does = "escalate"
  /\ advice' = Tail(advice)
  /\ UNCHANGED <<suites, mode, sinceFire, sinceStop, flags, commanded, driving, driven, safingFaults>>

(* System 2 cannot be woken, and the stop behind it is not dispatched.         *)
EscalateFails ==
  /\ advice # <<>> /\ Head(advice).does = "escalate" /\ Fails
  /\ advice' = <<>>
  /\ UNCHANGED <<suites, mode, sinceFire, sinceStop, flags, commanded, driving, driven>>

----------------------------------------------------------------------------
(* The movement controller, for the reflex and for the tool. *)

(* SafetyGate::check: a stop too soon after another is refused. *)
GateLets(cmd) == cmd = "stop" => sinceStop >= StopInterval
Charged(cmd) == IF cmd = "stop" THEN 0 ELSE sinceStop

MayPlan(m, cmd) ==
  /\ driving[m] = "none"
  /\ m = "reflex" => cmd = "stop" /\ advice # <<>> /\ Head(advice).does = "stop"

(* plan: the gate, then the fact. *)
Plan(m, cmd) ==
  /\ MayPlan(m, cmd) /\ GateLets(cmd)
  /\ sinceStop' = Charged(cmd)
  /\ commanded' = cmd
  /\ driving' = [driving EXCEPT ![m] = cmd]
  /\ UNCHANGED <<suites, mode, sinceFire, advice, flags, driven, safingFaults>>

(* The gate refuses, or the fact cannot be written: nothing is driven.  The    *)
(* reflex logs it and goes on.                                                 *)
PlanRefused(m, cmd) ==
  /\ MayPlan(m, cmd)
  /\ \/ ~GateLets(cmd) /\ UNCHANGED <<sinceStop, safingFaults>>
     \/ GateLets(cmd) /\ Fails /\ sinceStop' = Charged(cmd)
  /\ advice' = IF m = "reflex" THEN Tail(advice) ELSE advice
  /\ UNCHANGED <<suites, mode, sinceFire, flags, commanded, driving, driven>>

(* drive, behind the await: the hardware takes the command, or it does not.    *)
Drive(m) ==
  /\ driving[m] # "none"
  /\ \/ driven' = driving[m] /\ UNCHANGED safingFaults
     \/ Fails /\ UNCHANGED driven
  /\ driving' = [driving EXCEPT ![m] = "none"]
  /\ advice' = IF m = "reflex" THEN Tail(advice) ELSE advice
  /\ UNCHANGED <<suites, mode, sinceFire, sinceStop, flags, commanded>>

\* The reflex controller works off what its tick fired.
DispatchStep ==
  \/ Publish \/ PublishFails \/ Escalate \/ EscalateFails
  \/ Plan("reflex", "stop") \/ PlanRefused("reflex", "stop") \/ Drive("reflex")

----------------------------------------------------------------------------
(* Properties. *)

\* The flags are those of the mode: load is shed while the battery is low, and
\* taken up again; the link is marked degraded or down, and up.
FlagsFit ==
  /\ mode["power"] = "low" => "shed_load" \in flags
  /\ mode["power"] \in {"normal", "charging"} => "shed_load" \notin flags
  /\ mode["net"] = "offline" => {"offline", "degraded_net"} \subseteq flags
  /\ mode["net"] = "degraded" => "degraded_net" \in flags
  /\ mode["net"] = "online" => flags \cap {"offline", "degraded_net"} = {}

\* A mode that stays is answered, whatever was debounced, refused or dropped on
\* the way and however the flags stood before; and while the battery stays
\* critical the actuator is stopped again and again, and its fact says so, also
\* when a command of the tool overtakes the stop.
SafingFollows ==
  <>[][UNCHANGED mode]_safingVars =>
    /\ <>[]FlagsFit
    /\ []<>(mode["power"] = "critical" => driven = "stop")
    /\ []<>(mode["power"] = "critical" => commanded = "stop")
=================================================================================
