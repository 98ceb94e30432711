------------------------------- MODULE AirWatch -------------------------------
(***************************************************************************)
(* What the base station says it refuses on the air, as the host keeps it  *)
(* (crates/obc-spine/src/lora_gateway.rs, AirWatch and the part of         *)
(* run_gateway_rx that drives it). A burst of bad-tag refusals per claimed *)
(* source is a fact `spine.air.<src>.refused`; `spine.air.refused_count`   *)
(* is the number a rule watches. Ages stop at AIR_CLEAR, as in LoraAuth.       *)
(***************************************************************************)
EXTENDS Integers, FiniteSets

CONSTANTS
  Claimed,    \* the source bytes a frame may claim
  AIR_CAP,      \* AIR_MAX_TRACKED_SOURCES (8)
  AIR_CLEAR,    \* AIR_REFUSED_CLEAR_MS, in ticks
  AirCrashes   \* may the process end between two writes?

ASSUME AirCapAssumption     == AIR_CAP \in Nat \ {0}
ASSUME AirClearAssumption   == AIR_CLEAR \in Nat \ {0}
ASSUME AirCrashesAssumption == AirCrashes \in BOOLEAN

VARIABLES
  \* World memory.
  refusing,      \* sources whose current fact says "refusing"
  burstFactAge,       \* time since that fact was written
  refusedCount,  \* spine.air.refused_count
  \* The process.
  bursts,        \* keys of `bursts`
  burstAge,           \* time since the burst's last refusal
  overflowed,    \* has `overflow` been counted since the start?
  \* The console: flips with every line, whatever the line is.
  line

airFacts == <<refusing, burstFactAge, refusedCount>>
watch == <<bursts, burstAge, overflowed>>
airVars  == <<airFacts, watch, line>>

AirAge == 0 .. AIR_CLEAR

AirInit ==
  /\ refusing = {}
  /\ burstFactAge = [s \in Claimed |-> 0]
  /\ refusedCount = 0
  /\ bursts = {}
  /\ burstAge = [s \in Claimed |-> 0]
  /\ overflowed = FALSE
  /\ line = FALSE

-----------------------------------------------------------------------------
(* observe, then sweep, for the refusal s names; a crash may cut the writes *)
(* short after any of them.                                                 *)

Tracks(s) == s \in bursts \/ Cardinality(bursts) < AIR_CAP

BurstsWith(s) == IF Tracks(s) THEN bursts \cup {s} ELSE bursts
AgeWith(s)    == IF Tracks(s) THEN [burstAge EXCEPT ![s] = 0] ELSE burstAge

AirExpired(B, a) == {s \in B : a[s] >= AIR_CLEAR}

\* Mutant: a sweep leaves the count to the next burst.
CountAfterNoSweep(B, a, old) == old

\* The count is rewritten when a sweep closed something, else it stays.
CountAfterSweep(B, a, old) ==
  IF AirExpired(B, a) = {} THEN old ELSE Cardinality(B \ AirExpired(B, a))

RefusalLine(s) ==
  LET B == BurstsWith(s)
      a == AgeWith(s)
      counted == IF s \in bursts THEN refusedCount ELSE Cardinality(B)
  IN  /\ bursts' = B \ AirExpired(B, a)
      /\ burstAge' = a
      /\ overflowed' = (overflowed \/ ~Tracks(s))
      /\ refusing' = (refusing \cup (B \ bursts)) \ AirExpired(B, a)
      /\ burstFactAge' = [t \in Claimed |-> IF t \in B \ bursts THEN 0 ELSE burstFactAge[t]]
      /\ refusedCount' = CountAfterSweep(B, a, counted)
      /\ line' = ~line

\* A received frame, or a refusal that is not a bad tag: only the sweep.
FrameLine ==
  /\ bursts' = bursts \ AirExpired(bursts, burstAge)
  /\ refusing' = refusing \ AirExpired(bursts, burstAge)
  /\ refusedCount' = CountAfterSweep(bursts, burstAge, refusedCount)
  /\ line' = ~line
  /\ UNCHANGED <<burstFactAge, burstAge, overflowed>>

\* Any other console line: `continue`, no sweep.
OtherLine == line' = ~line /\ UNCHANGED <<airFacts, watch>>

\* A new process adopts the open bursts, timed from the fact.
AirResume ==
  /\ bursts' = refusing'
  /\ burstAge' = [s \in Claimed |-> IF s \in refusing' THEN burstFactAge'[s] ELSE 0]

AirRestart ==
  /\ UNCHANGED <<airFacts, line>>
  /\ AirResume
  /\ overflowed' = FALSE

\* The process ends while it handles a refusal or sweeps: after the new burst's
\* fact or some of the closed ones' are written, before or after the count is.
CrashAtCount ==
  /\ AirCrashes
  /\ \/ \E s \in Claimed \ bursts :
          /\ Tracks(s)
          /\ refusing' = refusing \cup {s}
          /\ burstFactAge' = [burstFactAge EXCEPT ![s] = 0]
          /\ refusedCount' \in {refusedCount, Cardinality(BurstsWith(s))}
     \/ \E closed \in SUBSET AirExpired(bursts, burstAge) :
          /\ refusing' = refusing \ closed
          /\ UNCHANGED <<burstFactAge, refusedCount>>
  /\ AirResume
  /\ overflowed' = FALSE
  /\ UNCHANGED line

AirOlder(a) == IF a < AIR_CLEAR THEN a + 1 ELSE a

AirTick ==
  /\ burstAge' = [s \in Claimed |-> IF s \in bursts THEN AirOlder(burstAge[s]) ELSE burstAge[s]]
  /\ burstFactAge' = [s \in Claimed |-> IF s \in refusing THEN AirOlder(burstFactAge[s]) ELSE burstFactAge[s]]
  /\ UNCHANGED <<refusing, refusedCount, bursts, overflowed, line>>

AirNext ==
  \/ \E s \in Claimed : RefusalLine(s)
  \/ FrameLine
  \/ OtherLine
  \/ AirRestart
  \/ CrashAtCount
  \/ AirTick

-----------------------------------------------------------------------------
(* Properties *)

\* World memory and the watch agree on who is being refused, also across a
\* restart in the middle of a burst.
BurstsAreFacts == bursts = refusing

\* A console line that opens or closes a burst leaves the number the rule
\* watches equal to the bursts open.
CountFollows ==
  [][bursts' # bursts /\ line' # line => refusedCount' = Cardinality(bursts')]_airVars

\* From some point on no bad tag is reported in s's name.
NotNamed(s) == <>[][~RefusalLine(s) /\ ~AirRestart /\ ~CrashAtCount]_airVars

\* A burst that stops is closed, as long as other stations are heard.
BurstsClose == \A s \in Claimed : NotNamed(s) => []<>(s \notin refusing)

\* The facts, the watch and the number a rule reads agree, and what stopped is
\* closed in all three.
AirFactsFollow == []BurstsAreFacts /\ CountFollows /\ BurstsClose
===============================================================================
