---------------------------- MODULE LoraAuth_proofs ----------------------------
(* What the verifier promises of its windows and its alarms, proved for any    *)
(* stations, window width, counter range, clear time and crash points; and     *)
(* that it takes what the base station's window in front of it took.           *)
EXTENDS ConsoleChain, TLAPS, FiniteSetTheorems

-----------------------------------------------------------------------------
(* The host's window, for every WINDOW and MaxCtr.                           *)

\* What a source's record holds, heard from or not.
LEMMA SourceFields ==
  ASSUME NEW w \in Source
  PROVE  w.heard \in BOOLEAN /\ w.highest \in Ctr /\ w.seen \subseteq Slot
<1>1. CASE w \in Tracked
  <2>1. w.heard \in {TRUE} /\ w.highest \in Ctr /\ w.seen \in SUBSET Slot
    BY <1>1 DEF Tracked
  <2> QED
    BY <2>1
<1>2. CASE w = Unheard
  <2>1. 0 \in Ctr
    BY MaxCtrAssumption DEF Ctr
  <2> QED
    BY <1>2, <2>1 DEF Unheard
<1> QED
  BY <1>1, <1>2 DEF Source

\* A window resumed at a counter is a window whose top is that counter.
LEMMA ResumeType ==
  ASSUME NEW highest \in Ctr
  PROVE  /\ Resume(highest) \in Source
         /\ Resume(highest).heard
         /\ Resume(highest).highest = highest
BY DEF Resume, Source, Tracked

\* A window resumed at a counter takes nothing at or below it as fresh
\* (ReplayWindow::resume: "a restart accepts nothing it might have accepted
\* before").
LEMMA ResumeRefuses ==
  ASSUME NEW highest \in Ctr, NEW c \in Ctr, c <= highest
  PROVE  ~Fresh(Resume(highest), c)
<1> DEFINE w == Resume(highest)
<1>1. w.heard /\ w.highest = highest /\ w.seen = Slot
  BY DEF Resume
<1> HIDE DEF w
<1>2. CASE c = highest
  BY <1>1, <1>2 DEF Fresh, Duplicate, w
<1>3. CASE c < highest /\ Back(w, c) > WINDOW
  BY <1>1, <1>3 DEF Fresh, TooOld, w
<1>4. CASE c < highest /\ Back(w, c) <= WINDOW
  <2>1. Back(w, c) - 1 \in w.seen
    BY <1>1, <1>4, WindowAssumption DEF Back, Slot, Ctr
  <2> QED
    BY <1>1, <1>4, <2>1 DEF Fresh, Duplicate, w
<1> QED
  BY <1>1, <1>2, <1>3, <1>4, WindowAssumption DEF Back, Ctr

\* Recording a fresh counter yields a window whose top is the larger of the two.
LEMMA RecordedType ==
  ASSUME NEW w \in Source, NEW c \in Ctr, Fresh(w, c)
  PROVE  /\ Recorded(w, c) \in Source
         /\ Recorded(w, c).heard
         /\ Recorded(w, c).highest =
              IF ~w.heard \/ c > w.highest THEN c ELSE w.highest
<1>0. w.heard \in BOOLEAN /\ w.highest \in Ctr /\ w.seen \subseteq Slot
  BY SourceFields
<1>1. CASE ~w.heard \/ c > w.highest
  <2>1. (IF w.heard THEN Slid(w.seen, c - w.highest) ELSE {}) \in SUBSET Slot
    BY DEF Slid
  <2> QED
    BY <1>1, <2>1 DEF Recorded, Source, Tracked
<1>2. CASE w.heard /\ ~(c > w.highest)
  <2>1. w \in Tracked
    BY <1>2 DEF Source, Unheard
  <2>2. c < w.highest /\ Back(w, c) <= WINDOW
    BY <1>0, <1>2, WindowAssumption DEF Fresh, TooOld, Duplicate, Back, Ctr
  <2>3. Back(w, c) - 1 \in Slot
    BY <1>0, <2>2, WindowAssumption DEF Back, Slot, Ctr
  <2>4. w.seen \cup {Back(w, c) - 1} \in SUBSET Slot
    BY <1>0, <2>3
  <2> QED
    BY <1>2, <2>1, <2>4 DEF Recorded, Source, Tracked
<1> QED
  BY <1>0, <1>1, <1>2

\* A counter that has been recorded is not fresh again.
LEMMA RecordedRefusesIt ==
  ASSUME NEW w \in Source, NEW c \in Ctr, Fresh(w, c)
  PROVE  ~Fresh(Recorded(w, c), c)
<1> DEFINE n == Recorded(w, c)
<1>0. w.heard \in BOOLEAN /\ w.highest \in Ctr
  BY SourceFields
<1>1. CASE ~w.heard \/ c > w.highest
  <2>1. n.heard /\ n.highest = c
    BY <1>1, RecordedType
  <2> QED
    BY <2>1 DEF Fresh, Duplicate
<1>2. CASE w.heard /\ ~(c > w.highest)
  <2>1. w \in Tracked
    BY <1>2 DEF Source, Unheard
  <2>2. n.heard /\ n.highest = w.highest /\ Back(w, c) - 1 \in n.seen
    BY <1>2, <2>1 DEF Recorded, Tracked
  <2>3. c < w.highest /\ Back(w, c) <= WINDOW
    BY <1>0, <1>2, WindowAssumption DEF Fresh, TooOld, Duplicate, Back, Ctr
  <2> HIDE DEF n
  <2>4. Back(n, c) = Back(w, c)
    BY <2>2 DEF Back
  <2> QED
    BY <2>2, <2>3, <2>4 DEF Fresh, Duplicate, n
<1> QED
  BY <1>0, <1>1, <1>2

\* Nor does recording one counter make another fresh again, slide or no slide.
LEMMA RecordedKeepsRefusing ==
  ASSUME NEW w \in Source, NEW c \in Ctr, Fresh(w, c),
         NEW d \in Ctr, ~Fresh(w, d)
  PROVE  ~Fresh(Recorded(w, c), d)
<1> DEFINE n == Recorded(w, c)
<1>0. w.heard /\ w.highest \in Ctr /\ w.seen \subseteq Slot /\ d <= w.highest
  BY SourceFields DEF Fresh, TooOld, Duplicate, Ctr
<1>1. CASE c > w.highest
  <2>1. n.heard /\ n.highest = c /\ n.seen = Slid(w.seen, c - w.highest)
    BY <1>0, <1>1 DEF Recorded
  <2> HIDE DEF n
  <2>2. d < c /\ Back(n, d) = Back(w, d) + (c - w.highest)
    BY <1>0, <1>1, <2>1 DEF Back, Ctr
  <2>3. CASE Back(n, d) > WINDOW
    BY <2>1, <2>2, <2>3 DEF Fresh, TooOld, n
  <2>4. CASE Back(n, d) <= WINDOW
    <3>1. Back(n, d) - 1 \in Slot
      BY <1>0, <1>1, <2>1, <2>4, WindowAssumption DEF Back, Slot, Ctr
    <3>2. d = w.highest \/ Back(w, d) - 1 \in w.seen
      <4>1. Back(w, d) <= WINDOW
        BY <1>0, <1>1, <2>2, <2>4, WindowAssumption DEF Back, Ctr
      <4> QED
        BY <1>0, <4>1, WindowAssumption DEF Fresh, TooOld, Duplicate, Back, Ctr
    <3>3. Back(n, d) - 1 \in n.seen
      <4>1. CASE d = w.highest
        <5>1. Back(n, d) - 1 = (c - w.highest) - 1
          BY <2>1, <4>1 DEF Back
        <5> QED
          BY <2>1, <3>1, <5>1 DEF Slid
      <4>2. CASE Back(w, d) - 1 \in w.seen
        <5>1. (Back(n, d) - 1) - (c - w.highest) = Back(w, d) - 1
          BY <1>0, <1>1, <2>2 DEF Back, Ctr
        <5> QED
          BY <2>1, <3>1, <4>2, <5>1 DEF Slid
      <4> QED
        BY <3>2, <4>1, <4>2
    <3> QED
      BY <2>1, <2>2, <2>4, <3>3 DEF Fresh, Duplicate, n
  <2> QED
    BY <1>0, <1>1, <2>2, <2>3, <2>4, WindowAssumption DEF Back, Ctr
<1>2. CASE ~(c > w.highest)
  <2>1. w \in Tracked
    BY <1>0 DEF Source, Unheard
  <2>2. n.heard /\ n.highest = w.highest /\ w.seen \subseteq n.seen
    BY <1>0, <1>2, <2>1 DEF Recorded, Tracked
  <2> HIDE DEF n
  <2>3. Back(n, d) = Back(w, d)
    BY <2>2 DEF Back
  <2> QED
    BY <1>0, <2>2, <2>3 DEF Fresh, TooOld, Duplicate, n
<1> QED
  BY <1>1, <1>2

-----------------------------------------------------------------------------
(* The system.                                                             *)

\* The part of the type the windows are about.
WindowTypes ==
  /\ mark \in [Station -> Ctr \cup {NoMark}]
  /\ resumed \subseteq Station
  /\ window \in [Station -> Source]
  /\ admitted \in [Station -> [Ctr -> Nat]]

\* The part the alarms are about.
AlarmTypes ==
  /\ alarmFact \in [Station -> {"none", "alarmed", "cleared"}]
  /\ factAge \in [Station -> Age]
  /\ alarmCount \in Nat
  /\ alarmed \subseteq Station
  /\ age \in [Station -> Age]

\* A station's mark is the top of its window, and its window refuses all that
\* was ingested from it, here or by an earlier process.
Held(s) ==
  IF s \in resumed
  THEN /\ mark[s] = IF window[s].heard THEN window[s].highest ELSE NoMark
       /\ \A c \in Ctr : admitted[s][c] > 0 => ~Fresh(window[s], c)
  ELSE window[s] = Unheard

WindowInv == WindowTypes /\ AdmittedOnce /\ MarkCovers /\ \A s \in Station : Held(s)
AlarmInv  == AlarmTypes /\ resumed \subseteq Station /\ alarmed \subseteq resumed
                        /\ AlarmFactsAgree

\* What the window in force at a line knows: it is the mark's, and it refuses
\* what was ingested.
LEMMA ResumedWindowFacts ==
  ASSUME WindowInv, NEW s \in Station
  PROVE  /\ ResumedWindow(s) \in Source
         /\ mark[s] = IF ResumedWindow(s).heard THEN ResumedWindow(s).highest ELSE NoMark
         /\ \A c \in Ctr : admitted[s][c] > 0 => ~Fresh(ResumedWindow(s), c)
<1> USE DEF WindowInv, WindowTypes
<1>1. CASE s \in resumed
  BY <1>1 DEF ResumedWindow, Held
<1>2. CASE s \notin resumed /\ mark[s] # NoMark
  <2>1. mark[s] \in Ctr /\ ResumedWindow(s) = Resume(mark[s])
    BY <1>2 DEF ResumedWindow
  <2>2. \A c \in Ctr : admitted[s][c] > 0 => ~Fresh(Resume(mark[s]), c)
    BY <2>1, ResumeRefuses DEF MarkCovers
  <2> QED
    BY <1>2, <2>1, <2>2, ResumeType
<1>3. CASE s \notin resumed /\ mark[s] = NoMark
  <2>1. ResumedWindow(s) = Unheard /\ Unheard \in Source /\ ~Unheard.heard
    BY <1>3 DEF ResumedWindow, Held, Source, Unheard
  <2>2. \A c \in Ctr : ~(admitted[s][c] > 0)
    BY <1>3 DEF MarkCovers, NoMark, Ctr
  <2> QED
    BY <1>3, <2>1, <2>2
<1> QED
  BY <1>1, <1>2, <1>3

\* What a line leaves: a window whose top is the new mark, which refuses what
\* was ingested before and the line's own counter.
LEMMA WindowAfterFacts ==
  ASSUME WindowInv, NEW s \in Station, NEW line \in Line
  PROVE  /\ WindowAfter(s, line) \in Source
         /\ MarkAfter(s, line) \in Ctr \cup {NoMark}
         /\ MarkAfter(s, line) =
              IF WindowAfter(s, line).heard THEN WindowAfter(s, line).highest ELSE NoMark
         /\ \A c \in Ctr : admitted[s][c] > 0 => ~Fresh(WindowAfter(s, line), c)
         /\ Ok(s, line) => /\ line.ctr \in Ctr
                           /\ ~Fresh(WindowAfter(s, line), line.ctr)
                           /\ line.ctr <= MarkAfter(s, line)
         /\ mark[s] <= MarkAfter(s, line)
<1> DEFINE w == ResumedWindow(s)
           n == WindowAfter(s, line)
<1>1. /\ w \in Source
      /\ mark[s] = IF w.heard THEN w.highest ELSE NoMark
      /\ \A c \in Ctr : admitted[s][c] > 0 => ~Fresh(w, c)
  BY ResumedWindowFacts
<1>2. MarkAfter(s, line) = IF n.heard THEN n.highest ELSE NoMark
  BY DEF MarkAfter
<1>3. w.heard \in BOOLEAN /\ w.highest \in Ctr
  BY <1>1, SourceFields
<1>4. CASE ~Ok(s, line)
  <2>1. n = w
    BY <1>4 DEF WindowAfter
  <2> HIDE DEF n, w
  <2>2. mark[s] = MarkAfter(s, line) /\ mark[s] \in Ctr \cup {NoMark}
    BY <1>1, <1>2, <2>1, <1>3
  <2>3. mark[s] <= MarkAfter(s, line)
    BY <2>2 DEF Ctr, NoMark
  <2> QED
    BY <1>1, <1>2, <1>4, <2>1, <2>2, <2>3 DEF n
<1>5. CASE Ok(s, line)
  <2>1. line.kind = "signed"
    BY <1>5 DEF Ok
  <2>2. PICK c \in Ctr : line = Signed(c)
    BY <2>1 DEF Line, BadTag, Unsigned
  <2>3. line.ctr = c /\ Fresh(w, c) /\ n = Recorded(w, c)
    BY <1>5, <2>2 DEF Ok, WindowAfter, Signed
  <2> HIDE DEF n, w
  <2>4. /\ n \in Source
        /\ n.heard
        /\ n.highest = IF ~w.heard \/ c > w.highest THEN c ELSE w.highest
    BY <1>1, <2>3, RecordedType
  <2>5. ~Fresh(n, c)
    BY <1>1, <2>3, RecordedRefusesIt
  <2>6. \A d \in Ctr : admitted[s][d] > 0 => ~Fresh(n, d)
    BY <1>1, <2>3, RecordedKeepsRefusing
  <2>7. MarkAfter(s, line) = n.highest /\ n.highest \in Ctr
    BY <1>2, <1>3, <2>4
  <2>8. c <= n.highest /\ mark[s] <= n.highest
    BY <1>1, <1>3, <2>4 DEF Ctr, NoMark
  <2> QED
    BY <1>2, <2>3, <2>4, <2>5, <2>6, <2>7, <2>8 DEF n
<1> QED
  BY <1>4, <1>5

\* A line preserves what the windows promise.
LEMMA AdmitKeepsWindows ==
  ASSUME WindowInv, NEW s \in Station, NEW line \in Line, Admit(s, line)
  PROVE  WindowInv'
<1> USE DEF WindowInv, WindowTypes
<1>1. /\ mark' = [mark EXCEPT ![s] = MarkAfter(s, line)]
      /\ resumed' = resumed \cup {s}
      /\ window' = [window EXCEPT ![s] = WindowAfter(s, line)]
      /\ admitted' = IF Ok(s, line) THEN [admitted EXCEPT ![s][line.ctr] = @ + 1] ELSE admitted
  BY DEF Admit
<1>2. /\ WindowAfter(s, line) \in Source
      /\ MarkAfter(s, line) \in Ctr \cup {NoMark}
      /\ MarkAfter(s, line) =
           IF WindowAfter(s, line).heard THEN WindowAfter(s, line).highest ELSE NoMark
      /\ \A c \in Ctr : admitted[s][c] > 0 => ~Fresh(WindowAfter(s, line), c)
      /\ Ok(s, line) => /\ line.ctr \in Ctr
                        /\ ~Fresh(WindowAfter(s, line), line.ctr)
                        /\ line.ctr <= MarkAfter(s, line)
      /\ mark[s] <= MarkAfter(s, line)
  BY WindowAfterFacts
<1>3. Ok(s, line) => ~(admitted[s][line.ctr] > 0)
  BY <1>2, ResumedWindowFacts DEF Ok
<1>4. admitted' \in [Station -> [Ctr -> Nat]]
  BY <1>1, <1>2
<1>5. \A t \in Station, c \in Ctr :
        admitted'[t][c] = IF Ok(s, line) /\ t = s /\ c = line.ctr
                          THEN admitted[t][c] + 1 ELSE admitted[t][c]
  BY <1>1, <1>2
<1>6. WindowTypes'
  BY <1>1, <1>2, <1>4
<1>7. AdmittedOnce'
  <2> SUFFICES ASSUME NEW t \in Station, NEW c \in Ctr PROVE admitted'[t][c] <= 1
    BY DEF AdmittedOnce
  <2>1. admitted[t][c] \in Nat /\ admitted[t][c] <= 1
    BY DEF AdmittedOnce
  <2> QED
    BY <1>3, <1>5, <2>1
<1>8. MarkCovers'
  <2> SUFFICES ASSUME NEW t \in Station, NEW c \in Ctr, admitted'[t][c] > 0
               PROVE  c <= mark'[t]
    BY DEF MarkCovers
  <2>1. CASE Ok(s, line) /\ t = s /\ c = line.ctr
    BY <1>1, <1>2, <2>1
  <2>2. CASE ~(Ok(s, line) /\ t = s /\ c = line.ctr)
    <3>1. c <= mark[t]
      BY <1>5, <2>2 DEF MarkCovers
    <3>2. mark[t] <= mark'[t] /\ mark[t] \in Int /\ mark'[t] \in Int /\ c \in Int
      BY <1>1, <1>2 DEF Ctr, NoMark
    <3> QED
      BY <3>1, <3>2
  <2> QED
    BY <2>1, <2>2
<1>9. \A t \in Station : Held(t)'
  <2> SUFFICES ASSUME NEW t \in Station PROVE Held(t)'
    OBVIOUS
  <2>1. CASE t = s
    <3>1. s \in resumed' /\ window'[s] = WindowAfter(s, line) /\ mark'[s] = MarkAfter(s, line)
      BY <1>1
    <3>2. \A c \in Ctr : admitted'[s][c] > 0 => ~Fresh(WindowAfter(s, line), c)
      BY <1>2, <1>5
    <3> QED
      BY <1>2, <2>1, <3>1, <3>2 DEF Held
  <2>2. CASE t # s
    <3>1. /\ t \in resumed' <=> t \in resumed
          /\ window'[t] = window[t] /\ mark'[t] = mark[t]
      BY <1>1, <2>2
    <3>2. \A c \in Ctr : admitted'[t][c] = admitted[t][c]
      BY <1>5, <2>2
    <3> QED
      BY <3>1, <3>2 DEF Held
  <2> QED
    BY <2>1, <2>2
<1> QED
  BY <1>6, <1>7, <1>8, <1>9

\* So does the end of the process, between two lines or inside one.
LEMMA StopKeepsWindows ==
  ASSUME WindowInv, StopProcess, admitted' = admitted,
         \/ mark' = mark
         \/ \E s \in Station, line \in Line : mark' = [mark EXCEPT ![s] = MarkAfter(s, line)]
  PROVE  WindowInv'
<1> USE DEF WindowInv, WindowTypes
<1>1. /\ mark' \in [Station -> Ctr \cup {NoMark}]
      /\ \A t \in Station : mark[t] <= mark'[t]
  <2>1. CASE mark' = mark
    BY <2>1 DEF Ctr, NoMark
  <2>2. CASE \E s \in Station, line \in Line : mark' = [mark EXCEPT ![s] = MarkAfter(s, line)]
    <3>1. PICK s \in Station, line \in Line : mark' = [mark EXCEPT ![s] = MarkAfter(s, line)]
      BY <2>2
    <3>2. MarkAfter(s, line) \in Ctr \cup {NoMark} /\ mark[s] <= MarkAfter(s, line)
      BY WindowAfterFacts
    <3> QED
      BY <3>1, <3>2 DEF Ctr, NoMark
  <2> QED
    BY <2>1, <2>2
<1>2. /\ resumed' = {} /\ window' = [s \in Station |-> Unheard]
      /\ Unheard \in Source
  BY DEF StopProcess, Source
<1>3. WindowTypes' /\ AdmittedOnce'
  BY <1>1, <1>2 DEF AdmittedOnce
<1>4. MarkCovers'
  <2> SUFFICES ASSUME NEW t \in Station, NEW c \in Ctr, admitted[t][c] > 0
               PROVE  c <= mark'[t]
    BY DEF MarkCovers
  <2>1. c <= mark[t] /\ mark[t] <= mark'[t]
    BY <1>1 DEF MarkCovers
  <2>2. mark[t] \in Int /\ mark'[t] \in Int /\ c \in Int
    BY <1>1 DEF Ctr, NoMark
  <2> QED
    BY <2>1, <2>2
<1>5. \A t \in Station : Held(t)'
  BY <1>2 DEF Held
<1> QED
  BY <1>3, <1>4, <1>5

\* Nothing was ingested at the start.
LEMMA WindowsStart == Init => WindowInv
<1> SUFFICES ASSUME Init PROVE WindowInv
  OBVIOUS
<1>1. Unheard \in Source /\ NoMark \in Ctr \cup {NoMark}
  BY DEF Source
<1>2. \A s \in Station, c \in Ctr : admitted[s][c] = 0
  BY DEF Init
<1> QED
  BY <1>1, <1>2 DEF Init, StoppedProcess, WindowInv, WindowTypes, AdmittedOnce, MarkCovers, Held

\* The windows' promise, in every state.
LEMMA WindowsHold == Spec => []WindowInv
<1>1. Init => WindowInv
  BY WindowsStart
<1>2. WindowInv /\ [Next]_vars => WindowInv'
  <2> SUFFICES ASSUME WindowInv, [Next]_vars PROVE WindowInv'
    OBVIOUS
  <2>1. CASE \E s \in Station, line \in Line : Admit(s, line)
    BY <2>1, AdmitKeepsWindows
  <2>2. CASE Restart
    BY <2>2, StopKeepsWindows DEF Restart, facts
  <2>3. CASE \E s \in Station, line \in Line : CrashInAdmit(s, line)
    <3>1. PICK s \in Station, line \in Line : CrashInAdmit(s, line)
      BY <2>3
    <3>2. /\ StopProcess /\ admitted' = admitted
          /\ mark' = [mark EXCEPT ![s] = MarkAfter(s, line)]
      BY <3>1 DEF CrashInAdmit
    <3> QED
      BY <3>2, StopKeepsWindows
  <2>4. CASE Tick \/ UNCHANGED vars
    BY <2>4 DEF Tick, vars, facts, process, WindowInv, WindowTypes, AdmittedOnce, MarkCovers, Held
  <2> QED
    BY <2>1, <2>2, <2>3, <2>4 DEF Next
<1> QED
  BY <1>1, <1>2, PTL DEF Spec

-----------------------------------------------------------------------------

\* A counter is ingested from a station at most once, over any number of
\* restarts and crashes inside `admit` (LoraAuth::resume, replay.rs).
THEOREM IngestedOnce == Spec => []AdmittedOnce
<1>1. WindowInv => AdmittedOnce
  BY DEF WindowInv
<1> QED
  BY <1>1, WindowsHold, PTL


-----------------------------------------------------------------------------

\* The alarms as a line finds them: in memory for each station it has read back,
\* and the sender's own read back by the line itself.
LEMMA ResumedAlarmFacts ==
  ASSUME AlarmInv, NEW s \in Station
  PROVE  /\ ResumedAlarms(s) \subseteq Station
         /\ ResumedAlarms(s) \subseteq resumed \cup {s}
         /\ ResumedAge(s) \in [Station -> Age]
         /\ \A t \in resumed \cup {s} :
              t \in ResumedAlarms(s) <=> alarmFact[t] = "alarmed"
<1> USE DEF AlarmInv, AlarmTypes
<1>1. ResumedAge(s) \in [Station -> Age]
  BY DEF ResumedAge
<1>2. \A t \in resumed : t \in alarmed <=> alarmFact[t] = "alarmed"
  BY DEF AlarmFactsAgree
<1>3. CASE s \in resumed
  BY <1>1, <1>2, <1>3 DEF ResumedAlarms
<1>4. CASE s \notin resumed
  BY <1>1, <1>2, <1>4 DEF ResumedAlarms
<1> QED
  BY <1>3, <1>4

\* What a line writes of the alarms is well formed, however many of the closing
\* writes it gets to.
LEMMA AlarmWritesTyped ==
  ASSUME AlarmInv, NEW s \in Station, NEW line \in Line, NEW closed \in SUBSET Station
  PROVE  /\ AlarmFacts(s, line, closed) \in [Station -> {"none", "alarmed", "cleared"}]
         /\ AlarmsBefore(s, line) \subseteq Station
         /\ AlarmsBefore(s, line) \subseteq resumed \cup {s}
         /\ AgeBefore(s, line) \in [Station -> Age]
         /\ CountOpened(s, line) \in Nat
         /\ CountAfter(s, line) \in Nat
<1> USE DEF AlarmInv, AlarmTypes
<1>1. AlarmFacts(s, line, closed) \in [Station -> {"none", "alarmed", "cleared"}]
  BY DEF AlarmFacts
<1>2. /\ AlarmsBefore(s, line) \subseteq Station
      /\ AlarmsBefore(s, line) \subseteq resumed \cup {s}
  BY ResumedAlarmFacts DEF AlarmsBefore
<1>3. 0 \in Age
  BY ClearAssumption DEF Age
<1>4. AgeBefore(s, line) \in [Station -> Age]
  BY <1>3, ResumedAlarmFacts DEF AgeBefore
<1>5. \A S \in SUBSET Station : Cardinality(S) \in Nat
  BY StationAssumption, FS_Subset, FS_CardinalityType
<1>6. CountOpened(s, line) \in Nat
  BY <1>2, <1>5 DEF CountOpened
<1>7. AlarmsAfter(s, line) \in SUBSET Station
  BY <1>2 DEF AlarmsAfter
<1>8. CountAfter(s, line) \in Nat
  BY <1>5, <1>6, <1>7 DEF CountAfter
<1> QED
  BY <1>1, <1>2, <1>4, <1>6, <1>8

\* The ages of the facts stay ages.
LEMMA FactAgesTyped ==
  ASSUME AlarmInv, FactAges
  PROVE  factAge' \in [Station -> Age]
<1>1. 0 \in Age
  BY ClearAssumption DEF Age
<1>2. \A t \in Station : (IF alarmFact'[t] = alarmFact[t] THEN factAge[t] ELSE 0) \in Age
  BY <1>1 DEF AlarmInv, AlarmTypes
<1> QED
  BY <1>2 DEF FactAges

\* A line preserves what the alarms promise: what it opens it writes as open,
\* and what it sweeps, the sender's or another's, it writes as closed.
LEMMA AdmitKeepsAlarms ==
  ASSUME AlarmInv, NEW s \in Station, NEW line \in Line, Admit(s, line)
  PROVE  AlarmInv'
<1> USE DEF AlarmInv
<1>1. /\ alarmFact' = AlarmFacts(s, line, Expired(s, line))
      /\ FactAges
      /\ alarmCount' = CountAfter(s, line)
      /\ resumed' = resumed \cup {s}
      /\ alarmed' = AlarmsAfter(s, line)
      /\ age' = AgeBefore(s, line)
  BY DEF Admit
<1>2. Expired(s, line) \in SUBSET Station /\ Expired(s, line) \subseteq AlarmsBefore(s, line)
  BY AlarmWritesTyped DEF Expired
<1>3. /\ alarmFact' \in [Station -> {"none", "alarmed", "cleared"}]
      /\ alarmCount' \in Nat /\ age' \in [Station -> Age]
      /\ alarmed' \subseteq resumed' /\ resumed' \subseteq Station
      /\ alarmed' \subseteq Station
  BY <1>1, <1>2, AlarmWritesTyped DEF AlarmsAfter
<1>4. AlarmTypes'
  BY <1>1, <1>3, FactAgesTyped DEF AlarmTypes
<1>5. AlarmFactsAgree'
  <2> SUFFICES ASSUME NEW t \in resumed'
               PROVE  t \in alarmed' <=> alarmFact'[t] = "alarmed"
    BY DEF AlarmFactsAgree
  <2>1. t \in Station /\ t \in resumed \cup {s}
    BY <1>1, <1>3
  <2>2. t \in ResumedAlarms(s) <=> alarmFact[t] = "alarmed"
    BY <2>1, ResumedAlarmFacts
  <2>3. CASE t \in Expired(s, line)
    BY <1>1, <2>1, <2>3 DEF AlarmFacts, AlarmsAfter
  <2>4. CASE t \notin Expired(s, line)
    <3>1. t \in alarmed' <=> t \in AlarmsBefore(s, line)
      BY <1>1, <2>4 DEF AlarmsAfter
    <3>2. alarmFact'[t] = IF t = s /\ Opens(s, line) THEN "alarmed" ELSE alarmFact[t]
      BY <1>1, <2>1, <2>4 DEF AlarmFacts
    <3>3. t \in AlarmsBefore(s, line) <=>
            t \in ResumedAlarms(s) \/ (t = s /\ Opens(s, line))
      BY DEF AlarmsBefore, Opens
    <3> QED
      BY <2>2, <3>1, <3>2, <3>3
  <2> QED
    BY <2>3, <2>4
<1> QED
  BY <1>3, <1>4, <1>5

\* A process that has ended has no alarm in memory to disagree with.
LEMMA StopKeepsAlarms ==
  ASSUME AlarmInv, StopProcess,
         alarmFact' \in [Station -> {"none", "alarmed", "cleared"}],
         factAge' \in [Station -> Age],
         alarmCount' \in Nat
  PROVE  AlarmInv'
<1>1. resumed' = {} /\ alarmed' = {} /\ age' = [s \in Station |-> 0] /\ 0 \in Age
  BY ClearAssumption DEF StopProcess, Age
<1> QED
  BY <1>1 DEF AlarmInv, AlarmTypes, AlarmFactsAgree

\* The alarms' promise, in every state.
LEMMA AlarmsHold == Spec => []AlarmInv
<1>1. Init => AlarmInv
  <2>1. 0 \in Age
    BY ClearAssumption DEF Age
  <2> QED
    BY <2>1 DEF Init, StoppedProcess, AlarmInv, AlarmTypes, AlarmFactsAgree
<1>2. AlarmInv /\ [Next]_vars => AlarmInv'
  <2> SUFFICES ASSUME AlarmInv, [Next]_vars PROVE AlarmInv'
    OBVIOUS
  <2>1. CASE \E s \in Station, line \in Line : Admit(s, line)
    BY <2>1, AdmitKeepsAlarms
  <2>2. CASE Restart
    BY <2>2, StopKeepsAlarms DEF Restart, facts, AlarmInv, AlarmTypes
  <2>3. CASE \E s \in Station, line \in Line : CrashInAdmit(s, line)
    <3>1. PICK s \in Station, line \in Line : CrashInAdmit(s, line)
      BY <2>3
    <3>2. StopProcess
      BY <3>1 DEF CrashInAdmit
    <3>3. CASE UNCHANGED <<alarmFact, factAge, alarmCount>>
      BY <3>2, <3>3, StopKeepsAlarms DEF AlarmInv, AlarmTypes
    <3>4. CASE /\ \E closed \in SUBSET Expired(s, line) :
                    /\ alarmFact' = AlarmFacts(s, line, closed)
                    /\ alarmCount' \in {CountOpened(s, line)} \cup
                                      (IF closed = {} THEN {alarmCount} ELSE {})
               /\ FactAges
      <4>1. PICK closed \in SUBSET Expired(s, line) :
              /\ alarmFact' = AlarmFacts(s, line, closed)
              /\ alarmCount' \in {CountOpened(s, line)} \cup
                                (IF closed = {} THEN {alarmCount} ELSE {})
        BY <3>4
      <4>2. closed \in SUBSET Station
        BY AlarmWritesTyped DEF Expired
      <4>3. /\ alarmFact' \in [Station -> {"none", "alarmed", "cleared"}]
            /\ CountOpened(s, line) \in Nat
        BY <4>1, <4>2, AlarmWritesTyped
      <4>4. alarmCount' \in Nat
        BY <4>1, <4>3 DEF AlarmInv, AlarmTypes
      <4> QED
        BY <3>2, <3>4, <4>3, <4>4, FactAgesTyped, StopKeepsAlarms
    <3> QED
      BY <3>1, <3>3, <3>4 DEF CrashInAdmit
  <2>4. CASE Tick
    <3>1. \A a \in Age : Older(a) \in Age
      BY ClearAssumption DEF Age, Older
    <3> QED
      BY <2>4, <3>1 DEF Tick, AlarmInv, AlarmTypes, AlarmFactsAgree
  <2>5. CASE UNCHANGED vars
    BY <2>5 DEF vars, facts, process, AlarmInv, AlarmTypes, AlarmFactsAgree
  <2> QED
    BY <2>1, <2>2, <2>3, <2>4, <2>5 DEF Next
<1> QED
  BY <1>1, <1>2, PTL DEF Spec

\* The state is well formed; the mark a restart resumes from covers all that
\* was ingested; and each alarm in memory is the alarm world memory tells of
\* (LoraAuth::admit, resume and sweep_alarms).
THEOREM FactsAlwaysAgree == Spec => []FactsAgree
<1>1. WindowInv /\ AlarmInv => FactsAgree
  BY DEF WindowInv, WindowTypes, AlarmInv, AlarmTypes, FactsAgree, TypeOK
<1> QED
  BY <1>1, WindowsHold, AlarmsHold, PTL

\* When a running process rewrites the published count, it says no more than
\* the alarms then open: admit when one opens, sweep_alarms when one ends.
THEOREM CountsNoMore == Spec => CountNotExceeded
<1>1. ASSUME AlarmInv, AlarmInv', NEW s \in Station, NEW line \in Line, Admit(s, line),
             alarmCount' # alarmCount
      PROVE  alarmCount' <= Cardinality(OpenFacts')
  <2>1. /\ alarmCount' = CountAfter(s, line) /\ alarmed' = AlarmsAfter(s, line)
    BY <1>1 DEF Admit
  <2>2. alarmCount' = Cardinality(alarmed')
    <3>1. CASE Expired(s, line) = {}
      <4>1. Opens(s, line) /\ alarmCount' = Cardinality(AlarmsBefore(s, line))
        BY <1>1, <2>1, <3>1 DEF CountAfter, CountOpened
      <4>2. AlarmsAfter(s, line) = AlarmsBefore(s, line)
        BY <3>1 DEF AlarmsAfter
      <4> QED
        BY <2>1, <4>1, <4>2
    <3>2. CASE Expired(s, line) # {}
      BY <2>1, <3>2 DEF CountAfter
    <3> QED
      BY <3>1, <3>2
  <2>3. alarmed' \subseteq OpenFacts'
    BY <1>1 DEF AlarmInv, AlarmFactsAgree, OpenFacts
  <2>4. IsFiniteSet(OpenFacts')
    BY StationAssumption, FS_Subset DEF OpenFacts
  <2>5. Cardinality(alarmed') <= Cardinality(OpenFacts')
    BY <2>3, <2>4, FS_Subset
  <2> QED
    BY <2>2, <2>5
<1>2. ASSUME AlarmInv, AlarmInv', [Next]_vars, alarmCount' # alarmCount, resumed' # {}
      PROVE  alarmCount' <= Cardinality(OpenFacts')
  <2>1. CASE \E s \in Station, line \in Line : Admit(s, line)
    BY <1>1, <1>2, <2>1
  <2>2. CASE ~\E s \in Station, line \in Line : Admit(s, line)
    BY <1>2, <2>2 DEF Next, Restart, StopProcess, CrashInAdmit, Tick, vars, facts
  <2> QED
    BY <2>1, <2>2
<1>3. AlarmInv /\ AlarmInv' /\ [Next]_vars =>
        [alarmCount' # alarmCount /\ resumed' # {} => alarmCount' <= Cardinality(OpenFacts')]_vars
  BY <1>2
<1> QED
  BY <1>3, AlarmsHold, PTL DEF Spec, CountNotExceeded

-----------------------------------------------------------------------------
(* The base station's window, as wide as the host's.                        *)

\* A ceiling lies at or above the counter it is taken for, below u32::MAX.
LEMMA BaseNewCeilingBounds ==
  ASSUME NEW c \in Base!Ctr
  PROVE  /\ Base!NewCeiling(c) \in Base!Ctr
         /\ c <= Base!NewCeiling(c)
         /\ Base!NewCeiling(c) <= c + M
BY CeilingAssumption, MaxCtrAssumption DEF Base!NewCeiling, Base!Ctr

\* A window resumed at a ceiling accepts nothing at or below it
\* (ReplayWindow::resume: "a restart accepts nothing it might have accepted
\* before").
LEMMA BaseResumeRefuses ==
  ASSUME NEW top \in Base!Ctr, NEW c \in Base!Ctr, c <= top
  PROVE  ~Base!Accepts(Base!Resume(top), c)
<1> DEFINE w == Base!Resume(top)
<1>1. w.h = top /\ w.bitmap = Base!Bit
  BY DEF Base!Resume
<1>2. ~Base!Newer(w, c) /\ Base!Back(w, c) \in Nat
  BY <1>1 DEF Base!Newer, Base!Back, Base!Ctr
<1>3. CASE Base!Back(w, c) >= WINDOW
  BY <1>2, <1>3 DEF Base!Accepts, Base!TooOld
<1>4. CASE Base!Back(w, c) < WINDOW
  <2>1. Base!Back(w, c) \in Base!Bit
    BY <1>2, <1>4, WindowAssumption DEF Base!Bit
  <2> QED
    BY <1>1, <1>2, <1>4, <2>1 DEF Base!Accepts, Base!Seen
<1> QED
  BY <1>2, <1>3, <1>4, WindowAssumption

\* Marking a counter yields a window whose top is the larger of the two.
LEMMA BaseMarkedType ==
  ASSUME NEW w \in Base!Window, NEW c \in Base!Ctr, Base!Accepts(w, c)
  PROVE  /\ Base!Marked(w, c) \in Base!Window
         /\ Base!Marked(w, c).h = IF Base!Newer(w, c) THEN c ELSE w.h
         /\ Base!Marked(w, c).persisted =
              IF Base!StoreNeeded(w, c) THEN Base!NewCeiling(c) ELSE w.persisted
<1> USE DEF Base!Window
<1>1. CASE Base!Newer(w, c)
  <2>1. Base!Shifted(w.bitmap, c - w.h) \cup {0} \subseteq Base!Bit
    BY WindowAssumption DEF Base!Shifted, Base!Bit
  <2>2. Base!NewCeiling(c) \in Base!Ctr
    BY BaseNewCeilingBounds
  <2> QED
    BY <1>1, <2>1, <2>2 DEF Base!Marked
<1>2. CASE ~Base!Newer(w, c)
  <2>1. Base!Back(w, c) \in Base!Bit
    BY <1>2, WindowAssumption DEF Base!Accepts, Base!TooOld, Base!Newer, Base!Back, Base!Bit, Base!Ctr
  <2> QED
    BY <1>2, <2>1 DEF Base!Marked, Base!StoreNeeded
<1> QED
  BY <1>1, <1>2

\* A counter that has been marked is not accepted again.
LEMMA BaseMarkedRefusesIt ==
  ASSUME NEW w \in Base!Window, NEW c \in Base!Ctr, Base!Accepts(w, c)
  PROVE  ~Base!Accepts(Base!Marked(w, c), c)
<1> DEFINE n == Base!Marked(w, c)
<1>1. CASE Base!Newer(w, c)
  <2>1. n.h = c /\ 0 \in n.bitmap
    BY <1>1 DEF Base!Marked
  <2> HIDE DEF n
  <2>2. ~Base!Newer(n, c) /\ Base!Back(n, c) = 0
    BY <2>1 DEF Base!Newer, Base!Back, Base!Ctr
  <2> QED
    BY <2>1, <2>2, WindowAssumption DEF Base!Accepts, Base!Seen, n
<1>2. CASE ~Base!Newer(w, c)
  <2>1. n.h = w.h /\ Base!Back(w, c) \in n.bitmap
    BY <1>2 DEF Base!Marked, Base!Window
  <2>2. Base!Back(w, c) < WINDOW
    BY <1>2, WindowAssumption DEF Base!Accepts, Base!TooOld, Base!Newer, Base!Back, Base!Ctr, Base!Window
  <2> HIDE DEF n
  <2>3. ~Base!Newer(n, c) /\ Base!Back(n, c) = Base!Back(w, c)
    BY <1>2, <2>1 DEF Base!Newer, Base!Back
  <2> QED
    BY <2>1, <2>2, <2>3 DEF Base!Accepts, Base!Seen, n
<1> QED
  BY <1>1, <1>2

\* Nor does marking one counter make another acceptable again: what the window
\* refuses it goes on refusing, shift or no shift.
LEMMA BaseMarkedKeepsRefusing ==
  ASSUME NEW w \in Base!Window, NEW c \in Base!Ctr, Base!Accepts(w, c),
         NEW d \in Base!Ctr, ~Base!Accepts(w, d)
  PROVE  ~Base!Accepts(Base!Marked(w, c), d)
<1> DEFINE n == Base!Marked(w, c)
<1>0. w.h \in Base!Ctr /\ w.bitmap \subseteq Base!Bit
  BY DEF Base!Window
<1>1. ~Base!Newer(w, d) /\ Base!Back(w, d) \in Nat
  BY <1>0 DEF Base!Accepts, Base!TooOld, Base!Seen, Base!Newer, Base!Back, Base!Ctr
<1>2. CASE Base!Newer(w, c)
  <2>1. n.h = c /\ n.bitmap = Base!Shifted(w.bitmap, c - w.h) \cup {0}
    BY <1>2 DEF Base!Marked
  <2> HIDE DEF n
  <2>2. ~Base!Newer(n, d) /\ Base!Back(n, d) = Base!Back(w, d) + (c - w.h)
    BY <1>0, <1>1, <1>2, <2>1 DEF Base!Newer, Base!Back, Base!Ctr
  <2>3. Base!Back(n, d) \in Nat /\ c - w.h \in Nat
    BY <1>0, <1>1, <1>2, <2>2 DEF Base!Newer, Base!Ctr
  <2>4. CASE Base!Back(n, d) >= WINDOW
    BY <2>2, <2>4 DEF Base!Accepts, Base!TooOld, n
  <2>5. CASE Base!Back(n, d) < WINDOW
    <3>1. Base!Back(w, d) < WINDOW
      BY <1>1, <2>2, <2>3, <2>5, WindowAssumption
    <3>2. Base!Back(w, d) \in w.bitmap
      BY <1>1, <3>1, WindowAssumption DEF Base!Accepts, Base!TooOld, Base!Seen
    <3>3. Base!Back(n, d) \in Base!Bit /\ Base!Back(n, d) - (c - w.h) = Base!Back(w, d)
      BY <1>1, <2>2, <2>3, <2>5, WindowAssumption DEF Base!Bit
    <3>4. Base!Back(n, d) \in n.bitmap
      BY <2>1, <3>2, <3>3 DEF Base!Shifted
    <3> QED
      BY <2>2, <2>5, <3>4 DEF Base!Accepts, Base!Seen, n
  <2> QED
    BY <2>3, <2>4, <2>5, WindowAssumption
<1>3. CASE ~Base!Newer(w, c)
  <2>1. n.h = w.h /\ w.bitmap \subseteq n.bitmap
    BY <1>3 DEF Base!Marked, Base!Window
  <2> HIDE DEF n
  <2>2. Base!Back(n, d) = Base!Back(w, d) /\ ~Base!Newer(n, d)
    BY <1>1, <2>1 DEF Base!Newer, Base!Back
  <2> QED
    BY <1>1, <2>1, <2>2 DEF Base!Accepts, Base!TooOld, Base!Seen, n
<1> QED
  BY <1>2, <1>3

-----------------------------------------------------------------------------
(* The two windows in series (ConsoleChain).                                *)

\* The two count alike.
LEMMA SameCounters == Base!Ctr = Ctr /\ 0 \in Ctr /\ Ctr \subseteq Nat
BY MaxCtrAssumption DEF Base!Ctr, Ctr

\* A window resumed at a ceiling is a window.
LEMMA BaseResumeType ==
  ASSUME NEW top \in Ctr
  PROVE  /\ Base!Resume(top) \in Base!Window
         /\ Base!Resume(top).h = top /\ Base!Resume(top).persisted = top
BY SameCounters DEF Base!Resume, Base!Window

\* What the host's window comes to refuse by recording a counter is that
\* counter and those that have fallen behind it.
LEMMA RecordedRefusesNoMore ==
  ASSUME NEW w \in Source, NEW c \in Ctr, Fresh(w, c),
         NEW d \in Ctr, d # c, Fresh(w, d), ~Fresh(Recorded(w, c), d)
  PROVE  Recorded(w, c).highest - d > WINDOW
<1> DEFINE n == Recorded(w, c)
<1>0. w.heard \in BOOLEAN /\ w.highest \in Ctr /\ w.seen \subseteq Slot
  BY SourceFields
<1>1. CASE ~w.heard
  <2>1. n.heard /\ n.highest = c /\ n.seen = {}
    BY <1>1 DEF Recorded
  <2> HIDE DEF n
  <2> QED
    BY <2>1 DEF Fresh, TooOld, Duplicate, Back, n
<1>2. CASE w.heard /\ c > w.highest
  <2>1. n.heard /\ n.highest = c /\ n.seen = Slid(w.seen, c - w.highest)
    BY <1>2 DEF Recorded
  <2> HIDE DEF n
  <2> SUFFICES ASSUME ~(n.highest - d > WINDOW) PROVE FALSE
    BY DEF n
  <2>2. d < c /\ Back(n, d) <= WINDOW /\ Back(n, d) - 1 \in n.seen
    BY <2>1, WindowAssumption DEF Fresh, TooOld, Duplicate, Back, Ctr, n
  <2>3. \/ (Back(n, d) - 1) - (c - w.highest) \in w.seen
        \/ Back(n, d) - 1 = (c - w.highest) - 1
    BY <2>1, <2>2 DEF Slid
  <2>4. Back(n, d) = c - d
    BY <2>1 DEF Back
  <2>5. CASE Back(n, d) - 1 = (c - w.highest) - 1
    <3>1. d = w.highest
      BY <1>0, <2>4, <2>5 DEF Ctr
    <3> QED
      BY <1>2, <3>1 DEF Fresh, Duplicate
  <2>6. CASE (Back(n, d) - 1) - (c - w.highest) \in w.seen
    <3>1. Back(w, d) - 1 \in w.seen
      <4>1. (Back(n, d) - 1) - (c - w.highest) = Back(w, d) - 1
        BY <1>0, <2>4 DEF Back, Ctr
      <4> QED
        BY <2>6, <4>1
    <3>2. Back(w, d) - 1 \in 0 .. WINDOW - 1
      BY <1>0, <3>1 DEF Slot
    <3>3. d < w.highest /\ Back(w, d) <= WINDOW
      BY <1>0, <3>2, WindowAssumption DEF Back, Ctr
    <3> QED
      BY <1>2, <3>1, <3>3 DEF Fresh, Duplicate
  <2> QED
    BY <2>3, <2>5, <2>6
<1>3. CASE w.heard /\ ~(c > w.highest)
  <2>1. w \in Tracked
    BY <1>3 DEF Source, Unheard
  <2>2. n.heard /\ n.highest = w.highest /\ n.seen = w.seen \cup {Back(w, c) - 1}
    BY <1>3, <2>1 DEF Recorded, Tracked
  <2> HIDE DEF n
  <2>3. Back(n, d) = Back(w, d) /\ Back(n, d) - 1 # Back(w, c) - 1
    BY <1>0, <2>2 DEF Back, Ctr
  <2> QED
    BY <1>3, <2>2, <2>3 DEF Fresh, TooOld, Duplicate, n
<1> QED
  BY <1>0, <1>1, <1>2, <1>3

\* What the host refuses above its floor the base refuses too, and the base is
\* never behind the host, nor ahead of its own flash.
Behind(s) ==
  /\ heard[s].persisted = ceil[s]
  /\ heard[s].h <= ceil[s]
  /\ mark[s] <= heard[s].h
  /\ \A c \in Ctr : c > floor[s] /\ ~Fresh(ResumedWindow(s), c) => ~Base!Accepts(heard[s], c)

ChainTypes ==
  /\ ceil \in [Station -> Ctr]
  /\ heard \in [Station -> Base!Window]
  /\ floor \in [Station -> Ctr \cup {NoMark}]

ChainInv == WindowInv /\ ChainTypes /\ \A s \in Station : Behind(s)

\* What the base takes leaves it at or above the counter, still covered by its
\* flash, and refusing the counter and all it refused.
LEMMA HearFacts ==
  ASSUME ChainTypes, NEW s \in Station, NEW c \in Ctr, Hear(s, c),
         heard[s].persisted = ceil[s], heard[s].h <= ceil[s]
  PROVE  /\ ceil' \in [Station -> Ctr] /\ heard' \in [Station -> Base!Window]
         /\ \A t \in Station : t # s => heard'[t] = heard[t] /\ ceil'[t] = ceil[t]
         /\ heard'[s].persisted = ceil'[s] /\ heard'[s].h <= ceil'[s]
         /\ heard[s].h <= heard'[s].h /\ c <= heard'[s].h
         /\ ~Base!Accepts(heard'[s], c)
         /\ \A d \in Ctr : ~Base!Accepts(heard[s], d) => ~Base!Accepts(heard'[s], d)
<1>1. PICK w \in Base!Window : w = heard[s] /\ Base!Accepts(w, c) /\ w.persisted = ceil[s] /\ w.h <= ceil[s]
  BY DEF ChainTypes, Hear
<1>2. c \in Base!Ctr /\ w.h \in Ctr /\ w.persisted \in Ctr
  BY SameCounters DEF Base!Window
<1>3. PICK n : n = Base!Marked(w, c)
  OBVIOUS
<1>4. /\ n \in Base!Window
      /\ n.h = IF Base!Newer(w, c) THEN c ELSE w.h
      /\ n.persisted = IF Base!StoreNeeded(w, c) THEN Base!NewCeiling(c) ELSE w.persisted
  BY <1>1, <1>2, <1>3, BaseMarkedType
<1>5. Base!NewCeiling(c) \in Ctr /\ c <= Base!NewCeiling(c)
  BY <1>2, BaseNewCeilingBounds, SameCounters
<1>6. ~Base!Accepts(n, c) /\ \A d \in Ctr : ~Base!Accepts(w, d) => ~Base!Accepts(n, d)
  BY <1>1, <1>2, <1>3, BaseMarkedRefusesIt, BaseMarkedKeepsRefusing, SameCounters
<1>7. /\ heard' = [heard EXCEPT ![s] = n]
      /\ ceil' = IF Base!StoreNeeded(w, c) THEN [ceil EXCEPT ![s] = Base!NewCeiling(c)] ELSE ceil
  BY <1>1, <1>3 DEF Hear
<1>8. /\ ceil' \in [Station -> Ctr] /\ heard' \in [Station -> Base!Window]
      /\ heard'[s] = n /\ \A t \in Station : t # s => heard'[t] = heard[t] /\ ceil'[t] = ceil[t]
      /\ ceil'[s] = IF Base!StoreNeeded(w, c) THEN Base!NewCeiling(c) ELSE ceil[s]
  BY <1>4, <1>5, <1>7 DEF ChainTypes
<1>9. w.h <= n.h /\ c <= n.h
  BY <1>2, <1>4, SameCounters DEF Base!Newer
<1>10. n.persisted = ceil'[s]
  BY <1>1, <1>4, <1>8
<1>11. n.h <= ceil'[s]
  <2>1. CASE Base!StoreNeeded(w, c)
    BY <1>4, <1>5, <1>8, <2>1 DEF Base!StoreNeeded
  <2>2. CASE ~Base!StoreNeeded(w, c)
    <3>1. ceil'[s] = w.persisted
      BY <1>1, <1>8, <2>2
    <3>2. c \in Nat /\ w.h \in Nat /\ w.persisted \in Nat /\ w.h <= w.persisted
      <4>1. c \in Nat /\ w.h \in Nat /\ w.persisted \in Nat
        BY <1>2, SameCounters
      <4> QED
        BY <1>1, <4>1
    <3>3. c > w.h => c <= w.persisted
      BY <2>2, <3>2 DEF Base!StoreNeeded, Base!Newer
    <3>4. n.h = IF c > w.h THEN c ELSE w.h
      BY <1>4 DEF Base!Newer
    <3> QED
      BY <3>1, <3>2, <3>3, <3>4
  <2> QED
    BY <2>1, <2>2
<1> QED
  BY <1>1, <1>6, <1>8, <1>9, <1>10, <1>11 DEF ChainTypes

\* A line taken by the base, whatever the host does with it or never gets.
LEMMA LineKeeps ==
  ASSUME ChainInv, NEW s \in Station, NEW c \in Ctr, Hear(s, c), floor' = floor,
         Admit(s, Signed(c)) \/ UNCHANGED vars
  PROVE  ChainInv'
<1>1. /\ ceil' \in [Station -> Ctr] /\ heard' \in [Station -> Base!Window]
      /\ \A t \in Station : t # s => heard'[t] = heard[t] /\ ceil'[t] = ceil[t]
      /\ heard'[s].persisted = ceil'[s] /\ heard'[s].h <= ceil'[s]
      /\ heard[s].h <= heard'[s].h /\ c <= heard'[s].h
      /\ ~Base!Accepts(heard'[s], c)
      /\ \A d \in Ctr : ~Base!Accepts(heard[s], d) => ~Base!Accepts(heard'[s], d)
  BY HearFacts DEF ChainInv, Behind
<1>2. ChainTypes'
  BY <1>1 DEF ChainInv, ChainTypes
<1>3. heard[s].h \in Nat /\ heard'[s].h \in Nat /\ c \in Nat /\ mark[s] \in Int /\ mark[s] <= heard[s].h
  BY <1>1, SameCounters DEF ChainInv, ChainTypes, WindowInv, WindowTypes, Behind, Base!Window, NoMark, Ctr
<1>4. CASE UNCHANGED vars
  <2>1. WindowInv' /\ mark' = mark /\ \A t \in Station : ResumedWindow(t)' = ResumedWindow(t)
    BY <1>4 DEF ChainInv, vars, facts, process, WindowInv, WindowTypes, AdmittedOnce, MarkCovers, Held, ResumedWindow
  <2>2. ASSUME NEW t \in Station PROVE Behind(t)'
    <3>1. CASE t = s
      BY <1>1, <1>3, <2>1, <3>1 DEF ChainInv, Behind
    <3>2. CASE t # s
      BY <1>1, <2>1, <3>2 DEF ChainInv, Behind
    <3> QED
      BY <3>1, <3>2
  <2> QED
    BY <1>2, <2>1, <2>2 DEF ChainInv
<1>5. CASE Admit(s, Signed(c))
  <2>1. Signed(c) \in Line /\ Signed(c).kind = "signed" /\ Signed(c).ctr = c
    BY DEF Line, Signed
  <2>2. WindowInv'
    BY <1>5, <2>1, AdmitKeepsWindows DEF ChainInv
  <2>3. PICK w \in Source : w = ResumedWindow(s) /\ mark[s] = IF w.heard THEN w.highest ELSE NoMark
    BY ResumedWindowFacts DEF ChainInv
  <2>4. PICK n : n = IF Fresh(w, c) THEN Recorded(w, c) ELSE w
    OBVIOUS
  <2>5. WindowAfter(s, Signed(c)) = n /\ MarkAfter(s, Signed(c)) = IF n.heard THEN n.highest ELSE NoMark
    BY <2>1, <2>3, <2>4 DEF WindowAfter, MarkAfter, Ok
  <2>6. /\ mark' = [mark EXCEPT ![s] = MarkAfter(s, Signed(c))]
        /\ resumed' = resumed \cup {s}
        /\ window' = [window EXCEPT ![s] = WindowAfter(s, Signed(c))]
    BY <1>5 DEF Admit
  <2>7. mark'[s] = (IF n.heard THEN n.highest ELSE NoMark) /\ ResumedWindow(s)' = n
    BY <2>5, <2>6 DEF ChainInv, WindowInv, WindowTypes, ResumedWindow
  <2>8. \A t \in Station : t # s => mark'[t] = mark[t] /\ ResumedWindow(t)' = ResumedWindow(t)
    BY <2>6 DEF ChainInv, WindowInv, WindowTypes, ResumedWindow
  <2>9. w.heard \in BOOLEAN /\ w.highest \in Ctr
    BY SourceFields
  <2>10. n.heard => n.highest \in Nat /\ n.highest <= heard'[s].h
    <3>1. CASE Fresh(w, c)
      <4>1. n.highest = IF ~w.heard \/ c > w.highest THEN c ELSE w.highest
        BY <2>4, <3>1, RecordedType
      <4> QED
        BY <1>1, <1>3, <2>3, <2>9, <4>1, SameCounters
    <3>2. CASE ~Fresh(w, c)
      BY <1>1, <1>3, <2>3, <2>4, <2>9, <3>2, SameCounters
    <3> QED
      BY <3>1, <3>2
  <2>11. mark'[s] <= heard'[s].h
    BY <1>3, <2>7, <2>10 DEF NoMark
  <2>12. ASSUME NEW d \in Ctr, d > floor[s], ~Fresh(n, d)
         PROVE  ~Base!Accepts(heard'[s], d)
    <3>1. CASE ~Fresh(w, d)
      BY <1>1, <2>3, <2>12, <3>1 DEF ChainInv, Behind
    <3>2. CASE d = c
      BY <1>1, <3>2
    <3>3. CASE Fresh(w, d) /\ d # c
      <4>1. Fresh(w, c) /\ n = Recorded(w, c)
        BY <2>4, <2>12, <3>3
      <4>2. n.highest - d > WINDOW /\ n.heard
        BY <2>12, <3>3, <4>1, RecordedRefusesNoMore, RecordedType
      <4>3. heard'[s].h - d > WINDOW /\ d \in Nat
        <5>1. d \in Nat
          BY SameCounters
        <5> QED
          BY <1>3, <2>10, <4>2, <5>1, WindowAssumption
      <4> QED
        BY <1>3, <4>3, WindowAssumption DEF Base!Accepts, Base!TooOld, Base!Newer, Base!Back
    <3> QED
      BY <3>1, <3>2, <3>3
  <2>13. ASSUME NEW t \in Station PROVE Behind(t)'
    <3>1. CASE t = s
      BY <1>1, <2>7, <2>11, <2>12, <3>1 DEF Behind
    <3>2. CASE t # s
      BY <1>1, <2>8, <3>2 DEF ChainInv, Behind
    <3> QED
      BY <3>1, <3>2
  <2> QED
    BY <1>2, <2>2, <2>13 DEF ChainInv
<1> QED
  BY <1>4, <1>5

\* The base resumes at its ceiling, which lies above all the host has.
LEMMA BaseRebootKeeps ==
  ASSUME ChainInv, BaseReboots
  PROVE  ChainInv'
<1>1. heard' = [t \in Station |-> Base!Resume(ceil[t])] /\ ceil' = ceil /\ floor' = floor /\ UNCHANGED vars
  BY DEF BaseReboots
<1>2. WindowInv' /\ mark' = mark /\ \A t \in Station : ResumedWindow(t)' = ResumedWindow(t)
  BY <1>1 DEF ChainInv, vars, facts, process, WindowInv, WindowTypes, AdmittedOnce, MarkCovers, Held, ResumedWindow
<1>3. ChainTypes'
  BY <1>1, BaseResumeType DEF ChainInv, ChainTypes
<1>4. ASSUME NEW t \in Station PROVE Behind(t)'
  <2>1. PICK top \in Ctr : top = ceil[t] /\ heard'[t] = Base!Resume(top)
    BY <1>1 DEF ChainInv, ChainTypes
  <2>2. heard'[t].h = top /\ heard'[t].persisted = top /\ top \in Nat
    BY <2>1, BaseResumeType, SameCounters
  <2>3. /\ heard[t].h \in Nat /\ heard[t].h <= top /\ mark[t] \in Int /\ mark[t] <= heard[t].h
    BY <2>1, SameCounters DEF ChainInv, ChainTypes, WindowInv, WindowTypes, Behind, Base!Window, NoMark, Ctr
  <2>4. ASSUME NEW d \in Ctr, ~Fresh(ResumedWindow(t), d)
        PROVE  ~Base!Accepts(heard'[t], d)
    <3>1. PICK w \in Source : w = ResumedWindow(t) /\ mark[t] = IF w.heard THEN w.highest ELSE NoMark
      BY ResumedWindowFacts DEF ChainInv
    <3>2. w.heard /\ d <= w.highest
      BY <2>4, <3>1, SourceFields DEF Fresh, TooOld, Duplicate, Ctr
    <3>3. d <= top /\ d \in Nat
      BY <2>2, <2>3, <3>1, <3>2, SameCounters
    <3> QED
      BY <2>1, <3>3, BaseResumeRefuses, SameCounters
  <2> QED
    BY <1>1, <1>2, <2>1, <2>2, <2>3, <2>4 DEF Behind
<1> QED
  BY <1>2, <1>3, <1>4 DEF ChainInv

\* The host starts again from its mark, and so does its floor.
LEMMA HostRebootKeeps ==
  ASSUME ChainInv, HostReboots
  PROVE  ChainInv'
<1>1. /\ Restart /\ floor' = mark /\ ceil' = ceil /\ heard' = heard
  BY DEF HostReboots, baseVars
<1>2. /\ mark' = mark /\ resumed' = {} /\ window' = [t \in Station |-> Unheard]
      /\ StopProcess /\ admitted' = admitted
  BY <1>1 DEF Restart, StopProcess, facts
<1>3. WindowInv'
  BY <1>2, StopKeepsWindows DEF ChainInv
<1>4. ChainTypes'
  BY <1>1 DEF ChainInv, ChainTypes, WindowInv, WindowTypes
<1>5. ASSUME NEW t \in Station PROVE Behind(t)'
  <2>1. ASSUME NEW d \in Ctr, d > mark[t], ~Fresh(ResumedWindow(t)', d)
        PROVE  FALSE
    <3>1. CASE mark[t] = NoMark
      <4>1. ResumedWindow(t)' = Unheard
        BY <1>2, <3>1 DEF ResumedWindow
      <4> QED
        BY <2>1, <4>1 DEF Fresh, TooOld, Duplicate, Unheard
    <3>2. CASE mark[t] # NoMark
      <4>1. ResumedWindow(t)' = Resume(mark[t]) /\ mark[t] \in Ctr
        BY <1>2, <3>2 DEF ResumedWindow, ChainInv, WindowInv, WindowTypes
      <4>2. d <= mark[t] /\ d \in Nat /\ mark[t] \in Nat
        <5>1. d \in Nat /\ mark[t] \in Nat
          BY <4>1, SameCounters
        <5>2. Resume(mark[t]).highest = mark[t]
          BY DEF Resume
        <5> QED
          BY <2>1, <4>1, <5>1, <5>2 DEF Fresh, TooOld, Duplicate
      <4> QED
        BY <2>1, <4>2
    <3> QED
      BY <3>1, <3>2
  <2> QED
    BY <1>1, <1>2, <2>1 DEF ChainInv, Behind
<1> QED
  BY <1>3, <1>4, <1>5 DEF ChainInv

\* Neither has heard anything.
LEMMA ChainStarts == ChainInit => ChainInv
<1> SUFFICES ASSUME ChainInit PROVE ChainInv
  OBVIOUS
<1>1. /\ ceil = [s \in Station |-> 0] /\ heard = [s \in Station |-> Base!Resume(0)] /\ floor = mark
      /\ mark = [s \in Station |-> NoMark] /\ resumed = {} /\ window = [s \in Station |-> Unheard]
  BY DEF ChainInit, Init, StoppedProcess
<1>2. WindowInv
  BY WindowsStart DEF ChainInit
<1>3. Base!Resume(0) \in Base!Window /\ Base!Resume(0).h = 0 /\ Base!Resume(0).persisted = 0 /\ 0 \in Ctr
  BY BaseResumeType, SameCounters
<1>4. ChainTypes
  BY <1>1, <1>3 DEF ChainTypes
<1>5. ASSUME NEW s \in Station PROVE Behind(s)
  <2>1. ResumedWindow(s) = Unheard
    BY <1>1 DEF ResumedWindow
  <2>2. \A c \in Ctr : Fresh(ResumedWindow(s), c)
    BY <2>1 DEF Fresh, TooOld, Duplicate, Unheard
  <2> QED
    BY <1>1, <1>3, <2>2 DEF Behind, NoMark
<1> QED
  BY <1>2, <1>4, <1>5 DEF ChainInv

\* The two windows' agreement, in every state.
LEMMA ChainHolds == ChainSpec => []ChainInv
<1>1. ChainInv /\ [ChainNext]_chainVars => ChainInv'
  <2> SUFFICES ASSUME ChainInv, [ChainNext]_chainVars PROVE ChainInv'
    OBVIOUS
  <2>1. CASE \E s \in Station, c \in Ctr : LineArrives(s, c)
    BY <2>1, LineKeeps DEF LineArrives
  <2>2. CASE \E s \in Station, c \in Ctr : LineLost(s, c)
    BY <2>2, LineKeeps DEF LineLost
  <2>3. CASE BaseReboots
    BY <2>3, BaseRebootKeeps
  <2>4. CASE HostReboots
    BY <2>4, HostRebootKeeps
  <2>5. CASE UNCHANGED chainVars
    BY <2>5 DEF chainVars, baseVars, vars, facts, process, ChainInv, ChainTypes, Behind, WindowInv,
                WindowTypes, AdmittedOnce, MarkCovers, Held, ResumedWindow
  <2> QED
    BY <2>1, <2>2, <2>3, <2>4, <2>5 DEF ChainNext
<1> QED
  BY <1>1, ChainStarts, PTL DEF ChainSpec

\* What the base station prints of a station the host ingests, above the mark
\* its process started from: neither the re-ordering the first window tolerates
\* nor the gaps of its reboots are refused by the second (spine.rs and
\* replay.rs, one window each).
THEOREM LinesAreTaken == ChainSpec => LinesTaken
<1>1. ASSUME ChainInv, NEW s \in Station, NEW c \in Ctr, LineArrives(s, c), c > floor[s]
      PROVE  Ok(s, Signed(c))
  <2>1. Base!Accepts(heard[s], c)
    BY <1>1 DEF LineArrives, Hear
  <2>2. Fresh(ResumedWindow(s), c)
    BY <1>1, <2>1 DEF ChainInv, Behind
  <2> QED
    BY <2>2 DEF Ok, Signed
<1>2. ChainInv => [\A s \in Station, c \in Ctr :
                     LineArrives(s, c) /\ c > floor[s] => Ok(s, Signed(c))]_chainVars
  BY <1>1
<1> QED
  BY <1>2, ChainHolds, PTL DEF LinesTaken
=============================================================================
