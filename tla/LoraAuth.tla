------------------------------- MODULE LoraAuth -------------------------------
(***************************************************************************)
(* The host's verifier of station console lines                            *)
(* (crates/obc-spine/src/lora_gateway.rs, LoraAuth): a replay window and an *)
(* alarm per station, both resumed from world memory on the station's first *)
(* line after a restart.                                                   *)
(*                                                                         *)
(* World memory holds, per station, the fact `spine.auth.<station>` (its   *)
(* counter is `mark`) and `spine.auth.<station>.alarm`, and one            *)
(* `spine.auth.alarm_count`. Time enters only as the time since an alarm's *)
(* last incident, so it is kept as an age that stops at CLEAR.             *)
(***************************************************************************)
EXTENDS HostWindow, FiniteSets

CONSTANTS
  Station,   \* the stations whose lines reach this host
  CLEAR,     \* AUTH_ALARM_CLEAR_MS, in ticks
  CrashAt    \* where in `admit` the process may end: see CrashPoint

\* After the auth fact, or among the alarm's writes.  A fact's own write is
\* taken as whole here; Beliefs has the crash inside it.
CrashPoint == {"mark", "alarm"}

ASSUME StationAssumption == IsFiniteSet(Station)
ASSUME ClearAssumption   == CLEAR \in Nat \ {0}
ASSUME CrashAtAssumption == CrashAt \subseteq CrashPoint

VARIABLES
  \* World memory.
  mark,       \* mark[s]: the counter of the current auth fact, or NoMark
  alarmFact,  \* alarmFact[s]: status of the current alarm fact
  factAge,    \* time since that fact was written
  alarmCount, \* the value of spine.auth.alarm_count
  \* The process.
  resumed,    \* stations whose state has been read back
  window,     \* window[s]
  alarmed,    \* stations with an entry in `alarms`
  age,        \* age[s]: time since the last incident, for s in alarmed
  \* What happened.
  admitted    \* admitted[s][c]: lines of s with counter c that were ingested

facts   == <<mark, alarmFact, factAge, alarmCount>>
process == <<resumed, window, alarmed, age>>
vars    == <<facts, process, admitted>>

NoMark == -1
Age    == 0 .. CLEAR

\* A line: its tag does not verify, it carries none, or it verifies over ctr.
BadTag   == [kind |-> "bad_tag"]
Unsigned == [kind |-> "unsigned"]
Signed(c) == [kind |-> "signed", ctr |-> c]
Line == {BadTag, Unsigned} \cup {Signed(c) : c \in Ctr}

TypeOK ==
  /\ mark \in [Station -> Ctr \cup {NoMark}]
  /\ alarmFact \in [Station -> {"none", "alarmed", "cleared"}]
  /\ factAge \in [Station -> Age]
  /\ alarmCount \in Nat
  /\ resumed \subseteq Station
  /\ window \in [Station -> Source]
  /\ alarmed \subseteq Station
  /\ age \in [Station -> Age]
  /\ admitted \in [Station -> [Ctr -> Nat]]

StoppedProcess ==
  /\ resumed = {}
  /\ window = [s \in Station |-> Unheard]
  /\ alarmed = {}
  /\ age = [s \in Station |-> 0]

Init ==
  /\ mark = [s \in Station |-> NoMark]
  /\ alarmFact = [s \in Station |-> "none"]
  /\ factAge = [s \in Station |-> 0]
  /\ alarmCount = 0
  /\ StoppedProcess
  /\ admitted = [s \in Station |-> [c \in Ctr |-> 0]]

-----------------------------------------------------------------------------
(* admit, in the order the code takes *)

\* 1. A station's first line since the process started reads its facts back.
ResumedWindow(s) ==
  IF s \notin resumed /\ mark[s] # NoMark THEN Resume(mark[s]) ELSE window[s]

\* Mutant: an alarm left open by the previous process is not taken up.
ResumedAlarmsNone(s) == alarmed

ResumedAlarms(s) ==
  IF s \notin resumed /\ alarmFact[s] = "alarmed" THEN alarmed \cup {s} ELSE alarmed

ResumedAge(s) ==
  IF s \notin resumed /\ alarmFact[s] = "alarmed"
  THEN [age EXCEPT ![s] = factAge[s]]
  ELSE age

\* 2. The tag first, the counter second.
Ok(s, line) == line.kind = "signed" /\ Fresh(ResumedWindow(s), line.ctr)

Incident(s, line) ==
  \/ line.kind = "bad_tag"
  \/ line.kind = "signed" /\ Duplicate(ResumedWindow(s), line.ctr)

WindowAfter(s, line) ==
  IF Ok(s, line) THEN Recorded(ResumedWindow(s), line.ctr) ELSE ResumedWindow(s)

\* 3. The fact written on every line carries the highest accepted counter.
MarkAfter(s, line) ==
  LET w == WindowAfter(s, line) IN IF w.heard THEN w.highest ELSE NoMark

\* 4. An incident opens the station's alarm, or restarts the one open.
Opens(s, line) == Incident(s, line) /\ s \notin ResumedAlarms(s)

AlarmsBefore(s, line) ==
  IF Incident(s, line) THEN ResumedAlarms(s) \cup {s} ELSE ResumedAlarms(s)

AgeBefore(s, line) ==
  IF Incident(s, line) THEN [ResumedAge(s) EXCEPT ![s] = 0] ELSE ResumedAge(s)

\* Mutant: only the station that sent the line is swept.
ExpiredHere(s, line) ==
  {t \in AlarmsBefore(s, line) \cap {s} : AgeBefore(s, line)[t] >= CLEAR}

\* 5. sweep_alarms, on every line from any station.
Expired(s, line) == {t \in AlarmsBefore(s, line) : AgeBefore(s, line)[t] >= CLEAR}

AlarmsAfter(s, line) == AlarmsBefore(s, line) \ Expired(s, line)

\* The count is rewritten when an alarm opens, and again when any is swept.
CountOpened(s, line) ==
  IF Opens(s, line) THEN Cardinality(AlarmsBefore(s, line)) ELSE alarmCount

CountAfter(s, line) ==
  IF Expired(s, line) = {} THEN CountOpened(s, line) ELSE Cardinality(AlarmsAfter(s, line))

AlarmFacts(s, line, closed) ==
  [t \in Station |->
     IF t \in closed THEN "cleared"
     ELSE IF t = s /\ Opens(s, line) THEN "alarmed"
     ELSE alarmFact[t]]

\* A fact that is replaced is as old as its replacement.
FactAges ==
  factAge' = [t \in Station |-> IF alarmFact'[t] = alarmFact[t] THEN factAge[t] ELSE 0]

Admit(s, line) ==
  /\ mark' = [mark EXCEPT ![s] = MarkAfter(s, line)]
  /\ alarmFact' = AlarmFacts(s, line, Expired(s, line))
  /\ FactAges
  /\ alarmCount' = CountAfter(s, line)
  /\ resumed' = resumed \cup {s}
  /\ window' = [window EXCEPT ![s] = WindowAfter(s, line)]
  /\ alarmed' = AlarmsAfter(s, line)
  /\ age' = AgeBefore(s, line)
  /\ admitted' = IF Ok(s, line) THEN [admitted EXCEPT ![s][line.ctr] = @ + 1] ELSE admitted

-----------------------------------------------------------------------------

StopProcess ==
  /\ resumed' = {}
  /\ window' = [s \in Station |-> Unheard]
  /\ alarmed' = {}
  /\ age' = [s \in Station |-> 0]

\* The host process ends between two lines.
Restart == StopProcess /\ UNCHANGED <<facts, admitted>>

\* It ends inside `admit`, before the verdict is returned: the payload is not
\* ingested.
CrashInAdmit(s, line) ==
  /\ \/ /\ "mark" \in CrashAt
        /\ mark' = [mark EXCEPT ![s] = MarkAfter(s, line)]
        /\ UNCHANGED <<alarmFact, factAge, alarmCount>>
     \/ /\ "alarm" \in CrashAt
        /\ mark' = [mark EXCEPT ![s] = MarkAfter(s, line)]
        /\ \E closed \in SUBSET Expired(s, line) :
             /\ alarmFact' = AlarmFacts(s, line, closed)
             /\ alarmCount' \in {CountOpened(s, line)} \cup
                               (IF closed = {} THEN {alarmCount} ELSE {})
        /\ FactAges
  /\ StopProcess
  /\ UNCHANGED admitted

Older(a) == IF a < CLEAR THEN a + 1 ELSE a

Tick ==
  /\ age' = [s \in Station |-> IF s \in alarmed THEN Older(age[s]) ELSE age[s]]
  /\ factAge' = [s \in Station |-> Older(factAge[s])]
  /\ UNCHANGED <<mark, alarmFact, alarmCount, resumed, window, alarmed, admitted>>

Next ==
  \/ \E s \in Station, line \in Line : Admit(s, line)
  \/ Restart
  \/ \E s \in Station, line \in Line : CrashInAdmit(s, line)
  \/ Tick

Spec == Init /\ [][Next]_vars

\* Lines keep coming from some station, and time passes.
Traffic == \E s \in Station, line \in Line : Admit(s, line)
FairSpec == Spec /\ WF_vars(Tick) /\ WF_vars(Traffic)

-----------------------------------------------------------------------------
(* Properties *)

\* A counter is ingested at most once from each station, over any number of
\* restarts ("it persists every accept and loses nothing on restart").
AdmittedOnce == \A s \in Station, c \in Ctr : admitted[s][c] <= 1

\* The mark a restart resumes from is at or above everything ingested, also
\* when re-ordered lines are accepted below the highest counter.
MarkCovers ==
  \A s \in Station, c \in Ctr : admitted[s][c] > 0 => c <= mark[s]

\* For every station heard from since the start, the alarm in memory and the
\* alarm fact agree, whoever's line swept it.
AlarmFactsAgree ==
  \A s \in resumed : s \in alarmed <=> alarmFact[s] = "alarmed"

OpenFacts == {s \in Station : alarmFact[s] = "alarmed"}

\* Whenever a running process rewrites the published count, it does not exceed
\* the alarms then open: the safing rule safe-spine-forgery is not given a
\* burst that has ended.
CountNotExceeded ==
  [][alarmCount' # alarmCount /\ resumed' # {} => alarmCount' <= Cardinality(OpenFacts')]_vars

\* From some point on the process is not restarted, and no incident of s opens
\* or extends its alarm.
QuietFor(s) ==
  <>[][/\ resumed \subseteq resumed'
       /\ s \in alarmed' => s \in alarmed /\ age'[s] >= age[s]]_vars

\* A station whose incidents stop loses its alarm, as long as any station's
\* lines arrive.
AlarmClears == \A s \in Station : QuietFor(s) => []<>(s \notin alarmed)

\* The state is well formed, and what world memory says of a station is what
\* the process acts on.
FactsAgree == TypeOK /\ MarkCovers /\ AlarmFactsAgree

\* The alarm count follows the alarms, and an alarm comes to its end.
AlarmsFollow == CountNotExceeded /\ AlarmClears
===============================================================================
