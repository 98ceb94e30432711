---------------------------- MODULE Firmware_proofs ----------------------------
(* The two boards of a node, for every value of the constants.                *)
(*                                                                            *)
(* The spine counter keeps its promise for every number of stations, every    *)
(* WIDTH, M, RESERVE, TTL and MaxCtr, under loss, duplication, re-ordering,   *)
(* relays, reboots and failing NVS operations other than a failing write of   *)
(* the receive ceiling.                                                       *)
(*                                                                            *)
(* The node's reflexes fire when it is time to and drive only what a host     *)
(* allowed, for every set of pins, policies, host rules under distinct ids,   *)
(* slots, snapshots and firmwares, over late ticks, pushes of levels, rules   *)
(* and limits, failing pins and resets.                                       *)
EXTENDS SpineMesh, NodeReflex, SequenceTheorems, WellFoundedInduction, NaturalsInduction, TLAPS

-----------------------------------------------------------------------------
(* The station's receive windows, for every width and counter range.        *)

\* A window resumed at a ceiling is a window.
LEMMA ResumeType ==
  ASSUME NEW top \in Ctr
  PROVE  Resume(top) \in Window
BY DEF Resume, Window

\* A ceiling lies at or above the counter it is taken for, below u32::MAX.
LEMMA NewCeilingBounds ==
  ASSUME NEW c \in Ctr
  PROVE  /\ NewCeiling(c) \in Ctr
         /\ c <= NewCeiling(c)
         /\ NewCeiling(c) <= c + M
BY MAssumption, MaxCtrAssumption DEF NewCeiling, Ctr

\* A window resumed at a ceiling accepts nothing at or below it
\* (ReplayWindow::resume: "a restart accepts nothing it might have accepted
\* before").
LEMMA ResumeRefuses ==
  ASSUME NEW top \in Ctr, NEW c \in Ctr, c <= top
  PROVE  ~Accepts(Resume(top), c)
<1> DEFINE w == Resume(top)
<1>1. w.h = top /\ w.bitmap = Bit
  BY DEF Resume
<1>2. ~Newer(w, c) /\ Back(w, c) \in Nat
  BY <1>1 DEF Newer, Back, Ctr
<1>3. CASE Back(w, c) >= WIDTH
  BY <1>2, <1>3 DEF Accepts, TooOld
<1>4. CASE Back(w, c) < WIDTH
  <2>1. Back(w, c) \in Bit
    BY <1>2, <1>4, WidthAssumption DEF Bit
  <2> QED
    BY <1>1, <1>2, <1>4, <2>1 DEF Accepts, Seen
<1> QED
  BY <1>2, <1>3, <1>4, WidthAssumption

\* Marking a counter yields a window whose top is the larger of the two.
LEMMA MarkedType ==
  ASSUME NEW w \in Window, NEW c \in Ctr, Accepts(w, c)
  PROVE  /\ Marked(w, c) \in Window
         /\ Marked(w, c).h = IF Newer(w, c) THEN c ELSE w.h
         /\ Marked(w, c).persisted =
              IF StoreNeeded(w, c) THEN NewCeiling(c) ELSE w.persisted
<1> USE DEF Window
<1>1. CASE Newer(w, c)
  <2>1. Shifted(w.bitmap, c - w.h) \cup {0} \subseteq Bit
    BY WidthAssumption DEF Shifted, Bit
  <2>2. NewCeiling(c) \in Ctr
    BY NewCeilingBounds
  <2> QED
    BY <1>1, <2>1, <2>2 DEF Marked
<1>2. CASE ~Newer(w, c)
  <2>1. Back(w, c) \in Bit
    BY <1>2, WidthAssumption DEF Accepts, TooOld, Newer, Back, Bit, Ctr
  <2> QED
    BY <1>2, <2>1 DEF Marked, StoreNeeded
<1> QED
  BY <1>1, <1>2

\* A counter that has been marked is not accepted again.
LEMMA MarkedRefusesIt ==
  ASSUME NEW w \in Window, NEW c \in Ctr, Accepts(w, c)
  PROVE  ~Accepts(Marked(w, c), c)
<1> DEFINE n == Marked(w, c)
<1>1. CASE Newer(w, c)
  <2>1. n.h = c /\ 0 \in n.bitmap
    BY <1>1 DEF Marked
  <2> HIDE DEF n
  <2>2. ~Newer(n, c) /\ Back(n, c) = 0
    BY <2>1 DEF Newer, Back, Ctr
  <2> QED
    BY <2>1, <2>2, WidthAssumption DEF Accepts, Seen, n
<1>2. CASE ~Newer(w, c)
  <2>1. n.h = w.h /\ Back(w, c) \in n.bitmap
    BY <1>2 DEF Marked, Window
  <2>2. Back(w, c) < WIDTH
    BY <1>2, WidthAssumption DEF Accepts, TooOld, Newer, Back, Ctr, Window
  <2> HIDE DEF n
  <2>3. ~Newer(n, c) /\ Back(n, c) = Back(w, c)
    BY <1>2, <2>1 DEF Newer, Back
  <2> QED
    BY <2>1, <2>2, <2>3 DEF Accepts, Seen, n
<1> QED
  BY <1>1, <1>2

\* Nor does marking one counter make another acceptable again: what the window
\* refuses it goes on refusing, shift or no shift.
LEMMA MarkedKeepsRefusing ==
  ASSUME NEW w \in Window, NEW c \in Ctr, Accepts(w, c),
         NEW d \in Ctr, ~Accepts(w, d)
  PROVE  ~Accepts(Marked(w, c), d)
<1> DEFINE n == Marked(w, c)
<1>0. w.h \in Ctr /\ w.bitmap \subseteq Bit
  BY DEF Window
<1>1. ~Newer(w, d) /\ Back(w, d) \in Nat
  BY <1>0 DEF Accepts, TooOld, Seen, Newer, Back, Ctr
<1>2. CASE Newer(w, c)
  <2>1. n.h = c /\ n.bitmap = Shifted(w.bitmap, c - w.h) \cup {0}
    BY <1>2 DEF Marked
  <2> HIDE DEF n
  <2>2. ~Newer(n, d) /\ Back(n, d) = Back(w, d) + (c - w.h)
    BY <1>0, <1>1, <1>2, <2>1 DEF Newer, Back, Ctr
  <2>3. Back(n, d) \in Nat /\ c - w.h \in Nat
    BY <1>0, <1>1, <1>2, <2>2 DEF Newer, Ctr
  <2>4. CASE Back(n, d) >= WIDTH
    BY <2>2, <2>4 DEF Accepts, TooOld, n
  <2>5. CASE Back(n, d) < WIDTH
    <3>1. Back(w, d) < WIDTH
      BY <1>1, <2>2, <2>3, <2>5, WidthAssumption
    <3>2. Back(w, d) \in w.bitmap
      BY <1>1, <3>1, WidthAssumption DEF Accepts, TooOld, Seen
    <3>3. Back(n, d) \in Bit /\ Back(n, d) - (c - w.h) = Back(w, d)
      BY <1>1, <2>2, <2>3, <2>5, WidthAssumption DEF Bit
    <3>4. Back(n, d) \in n.bitmap
      BY <2>1, <3>2, <3>3 DEF Shifted
    <3> QED
      BY <2>2, <2>5, <3>4 DEF Accepts, Seen, n
  <2> QED
    BY <2>3, <2>4, <2>5, WidthAssumption
<1>3. CASE ~Newer(w, c)
  <2>1. n.h = w.h /\ w.bitmap \subseteq n.bitmap
    BY <1>3 DEF Marked, Window
  <2> HIDE DEF n
  <2>2. Back(n, d) = Back(w, d) /\ ~Newer(n, d)
    BY <1>1, <2>1 DEF Newer, Back
  <2> QED
    BY <1>1, <2>1, <2>2 DEF Accepts, TooOld, Seen, n
<1> QED
  BY <1>2, <1>3

-----------------------------------------------------------------------------
(* Types *)

\* What a station judges a frame by is a window.
LEMMA EntryType ==
  ASSUME TypeOK, NEW s \in Station
  PROVE  Entry(s) \in Window
BY ResumeType DEF Entry, TypeOK

\* The counters are naturals, and zero is one.
LEMMA ZeroIsACounter == 0 \in Ctr /\ Ctr \subseteq Nat
BY MaxCtrAssumption DEF Ctr

\* Issuing a counter keeps every shape.
LEMMA TransmitType ==
  ASSUME TypeOK, CanIssue, Transmit
  PROVE  /\ count + 1 \in Ctr
         /\ count' = count + 1
         /\ entry' \subseteq Station
         /\ window' \in [Station -> Window]
         /\ air' \subseteq Frame
         /\ issued' \in [Ctr -> Nat]
<1>1. count + 1 \in Ctr /\ count' = count + 1
  BY MaxCtrAssumption DEF TypeOK, CanIssue, Transmit, Ctr
<1>2. entry' \subseteq Station
  BY OriginAssumption DEF TypeOK, Transmit
<1>3. window' \in [Station -> Window]
  <2> DEFINE w == IF Origin \in entry THEN window[Origin] ELSE Resume(0)
  <2>1. w \in Window
    BY OriginAssumption, ResumeType, ZeroIsACounter DEF TypeOK
  <2>2. (IF Accepts(w, count + 1) THEN Marked(w, count + 1) ELSE w) \in Window
    BY <1>1, <2>1, MarkedType
  <2>3. window' = [window EXCEPT ![Origin] =
                     IF Accepts(w, count + 1) THEN Marked(w, count + 1) ELSE w]
    BY DEF Transmit
  <2> QED
    BY <2>2, <2>3, OriginAssumption DEF TypeOK
<1>4. air' \subseteq Frame
  <2>1. [ctr |-> count + 1, ttl |-> TTL] \in Frame
    BY <1>1, TtlAssumption DEF Frame
  <2> QED
    BY <2>1 DEF TypeOK, Transmit
<1>5. issued' \in [Ctr -> Nat]
  BY <1>1 DEF TypeOK, Transmit
<1> QED
  BY <1>1, <1>2, <1>3, <1>4, <1>5

\* So does a relayed copy.
LEMMA ForwardType ==
  ASSUME TypeOK, NEW s \in Station, NEW f \in air, Forward(s, f)
  PROVE  /\ air' \subseteq Frame
         /\ deliveries' \in [Station -> [Ctr -> Nat]]
<1>1. f \in Frame
  BY DEF TypeOK
<1>2. f.ttl > 0 => [f EXCEPT !.ttl = @ - 1] \in Frame
  BY <1>1, TtlAssumption DEF Frame
<1>3. air' \subseteq Frame
  BY <1>2 DEF TypeOK, Forward
<1>4. deliveries' \in [Station -> [Ctr -> Nat]]
  <2>1. f.ctr \in Ctr
    BY <1>1 DEF Frame
  <2>2. deliveries[s][f.ctr] + 1 \in Nat
    BY <2>1 DEF TypeOK
  <2>3. [deliveries EXCEPT ![s][f.ctr] = @ + 1] \in [Station -> [Ctr -> Nat]]
    BY <2>1, <2>2 DEF TypeOK
  <2> QED
    BY <2>3 DEF Forward, TypeOK
<1> QED
  BY <1>3, <1>4

\* Every state has its declared shape.
THEOREM TypeCorrect == Spec => []TypeOK
<1>1. Init => TypeOK
  BY ResumeType, ZeroIsACounter DEF Init, TypeOK
<1>2. TypeOK /\ [Next]_vars => TypeOK'
  <2> SUFFICES ASSUME TypeOK, [Next]_vars PROVE TypeOK'
    OBVIOUS
  <2> USE ReserveAssumption, MaxCtrAssumption, ZeroIsACounter
  <2>0. ASSUME NEW c \in Ctr, c + RESERVE <= MaxCtr PROVE c + RESERVE \in Ctr
    BY <2>0 DEF Ctr
  <2>1. ASSUME NEW s \in Station, BootListener(s) PROVE TypeOK'
    <3>1. window' \in [Station -> Window] /\ entry' \subseteq Station
      BY <2>1, ResumeType DEF BootListener, ForgetWindow, TypeOK
    <3>2. store' \subseteq Station
      BY <2>1 DEF BootListener, Outcome, TypeOK
    <3> QED
      BY <2>1, <3>1, <3>2 DEF BootListener, TypeOK, counterVars
  <2>2. CASE BootOrigin
    <3>1. seqCeil + RESERVE \in Ctr
      BY <2>0, <2>2 DEF BootOrigin, TypeOK
    <3>2. window' \in [Station -> Window] /\ entry' \subseteq Station
      BY <2>2, ResumeType, OriginAssumption DEF BootOrigin, SeedOwnWindow, TypeOK
    <3> QED
      BY <2>2, <3>1, <3>2, OriginAssumption DEF BootOrigin, TypeOK
  <2>3. CASE BootOriginDeaf
    <3>1. window' \in [Station -> Window] /\ entry' \subseteq Station
      BY <2>3, ResumeType DEF BootOriginDeaf, ForgetWindow, TypeOK
    <3> QED
      BY <2>3, <3>1 DEF BootOriginDeaf, ForgetCounter, TypeOK
  <2>4. CASE BootOriginMute
    <3>1. window' \in [Station -> Window] /\ entry' \subseteq Station
      BY <2>4, ResumeType DEF BootOriginMute, ForgetWindow, TypeOK
    <3>2. seqCeil' \in Ctr
      BY <2>0, <2>4 DEF BootOriginMute, TypeOK
    <3> QED
      BY <2>4, <3>1, <3>2, OriginAssumption DEF BootOriginMute, ForgetCounter, TypeOK
  <2>5. CASE Send
    <3>1. CanIssue /\ Transmit
      BY <2>5 DEF Send
    <3> QED
      BY <2>5, <3>1, TransmitType DEF Send, TypeOK
  <2>6. CASE SendExtending
    <3>1. CanIssue /\ Transmit
      BY <2>6 DEF SendExtending
    <3>2. ceiling + RESERVE \in Ctr
      BY <2>0, <2>6 DEF SendExtending, TypeOK
    <3> QED
      BY <2>6, <3>1, <3>2, TransmitType DEF SendExtending, TypeOK
  <2>7. CASE SendFailsClosed
    <3>1. seqCeil' \in Ctr
      BY <2>0, <2>7 DEF SendFailsClosed, TypeOK
    <3> QED
      BY <2>7, <3>1 DEF SendFailsClosed, TypeOK, windowVars
  <2>8. ASSUME NEW s \in Station, NEW f \in air,
               Refuse(s, f) \/ Accept(s, f) \/ AcceptStoreFails(s, f)
        PROVE  TypeOK'
    <3>1. f.ctr \in Ctr
      BY DEF TypeOK, Frame
    <3>2. Entry(s) \in Window
      BY EntryType
    <3>3. NewCeiling(f.ctr) \in Ctr
      BY <3>1, NewCeilingBounds
    <3>4. Accepts(Entry(s), f.ctr) => Marked(Entry(s), f.ctr) \in Window
      BY <3>1, <3>2, MarkedType
    <3>5. CASE Refuse(s, f)
      BY <3>2, <3>5 DEF Refuse, TypeOK, counterVars
    <3>6. CASE Accept(s, f)
      <4>1. air' \subseteq Frame /\ deliveries' \in [Station -> [Ctr -> Nat]]
        BY <3>6, ForwardType DEF Accept
      <4> QED
        BY <3>3, <3>4, <3>6, <4>1 DEF Accept, TypeOK, counterVars
    <3>7. CASE AcceptStoreFails(s, f)
      BY <3>3, <3>4, <3>7 DEF AcceptStoreFails, TypeOK, counterVars
    <3> QED
      BY <2>8, <3>5, <3>6, <3>7
  <2>9. CASE UNCHANGED vars
    BY <2>9 DEF vars, counterVars, windowVars, TypeOK
  <2> QED
    BY <2>1, <2>2, <2>3, <2>4, <2>5, <2>6, <2>7, <2>8, <2>9 DEF Next, Boot, Receive
<1> QED
  BY <1>1, <1>2, PTL DEF Spec

-----------------------------------------------------------------------------
(* The sender *)

\* The steps of Next whose whole effect on the sender's promise is the issue
\* of one fresh counter, or none.
LEMMA TransmitIssues ==
  ASSUME TypeOK, SenderInv, CanIssue, Transmit, UNCHANGED deliveries
  PROVE  /\ issued[count + 1] = 0
         /\ \A c \in Ctr : issued'[c] <= 1
         /\ \A c \in Ctr : issued[c] > 0 => issued'[c] > 0
         /\ \A c \in Ctr : issued'[c] > 0 => c <= count + 1
         /\ \A f \in air' : issued'[f.ctr] > 0
         /\ \A s \in Station, c \in Ctr : deliveries'[s][c] > 0 => issued'[c] > 0
<1> DEFINE n == count + 1
<1>1. n \in Ctr /\ count \in Nat
  BY TransmitType, ZeroIsACounter DEF TypeOK
<1>2. issued[n] = 0
  <2>1. issued[n] > 0 => n <= count
    BY <1>1 DEF SenderInv, IssuedBehindCeiling, CanIssue
  <2> QED
    BY <1>1, <2>1 DEF TypeOK
<1>3. \/ /\ issued' = [issued EXCEPT ![n] = 1]
         /\ air' = air \cup {[ctr |-> n, ttl |-> TTL]}
      \/ UNCHANGED <<air, issued>>
  BY <1>1, <1>2 DEF Transmit, TypeOK
<1>4. \A c \in Ctr : issued'[c] = issued[c] \/ (c = n /\ issued'[c] = 1)
  BY <1>1, <1>3 DEF TypeOK
<1>5. \A c \in Ctr : issued[c] > 0 => c <= count
  BY DEF SenderInv, IssuedBehindCeiling, CanIssue
<1>6. \A c \in Ctr : issued'[c] <= 1 /\ (issued[c] > 0 => issued'[c] > 0)
  BY <1>4 DEF SenderInv, TypeOK
<1>7. \A c \in Ctr : issued'[c] > 0 => c <= count + 1
  BY <1>1, <1>4, <1>5, ZeroIsACounter
<1>8. \A f \in air' : issued'[f.ctr] > 0
  <2> SUFFICES ASSUME NEW f \in air' PROVE issued'[f.ctr] > 0
    OBVIOUS
  <2>1. CASE f \in air
    BY <1>6, <2>1 DEF SenderInv, TypeOK, Frame
  <2>2. CASE f \notin air
    BY <1>1, <1>3, <2>2 DEF TypeOK
  <2> QED
    BY <2>1, <2>2
<1>9. \A s \in Station, c \in Ctr : deliveries'[s][c] > 0 => issued'[c] > 0
  BY <1>6 DEF SenderInv
<1> QED
  BY <1>2, <1>6, <1>7, <1>8, <1>9

\* What a receiving station does to the sender's promise: a frame it relays or
\* prints was on the air already.
LEMMA ForwardIssuesNothing ==
  ASSUME TypeOK, SenderInv, NEW s \in Station, NEW f \in air, Forward(s, f),
         UNCHANGED issued
  PROVE  /\ \A g \in air' : issued'[g.ctr] > 0
         /\ \A t \in Station, c \in Ctr : deliveries'[t][c] > 0 => issued'[c] > 0
<1>1. f.ctr \in Ctr /\ issued[f.ctr] > 0
  BY DEF TypeOK, Frame, SenderInv
<1>2. \A g \in air' : g \in air \/ g.ctr = f.ctr
  <2>1. f \in Frame
    BY DEF TypeOK
  <2>2. [f EXCEPT !.ttl = @ - 1].ctr = f.ctr
    BY <2>1 DEF Frame
  <2> QED
    BY <2>2 DEF Forward
<1>3. \A t \in Station, c \in Ctr :
        deliveries'[t][c] = deliveries[t][c] \/ c = f.ctr
  BY <1>1 DEF Forward, TypeOK
<1> QED
  BY <1>1, <1>2, <1>3 DEF SenderInv

\* Every step keeps what is known of the sender.
LEMMA SenderInvStep ==
  ASSUME TypeOK, SenderInv, [Next]_vars
  PROVE  SenderInv'
<1> USE ReserveAssumption, ZeroIsACounter
<1> USE DEF TypeOK
<1>0. \A c \in Ctr : c \in Nat
  OBVIOUS
<1>1. ASSUME NEW s \in Station, BootListener(s) PROVE SenderInv'
  BY <1>1 DEF BootListener, counterVars, SenderInv, IssuedBehindCeiling
<1>2. CASE BootOrigin
  <2>1. \A c \in Ctr : issued[c] > 0 => c <= seqCeil
    BY DEF SenderInv, IssuedBehindCeiling
  <2> QED
    BY <1>0, <1>2, <2>1 DEF BootOrigin, SenderInv, IssuedBehindCeiling
<1>3. CASE BootOriginDeaf
  BY <1>3 DEF BootOriginDeaf, ForgetCounter, SenderInv, IssuedBehindCeiling
<1>4. CASE BootOriginMute
  <2>1. seqCeil <= seqCeil'
    BY <1>4 DEF BootOriginMute
  <2>2. seqCeil \in Nat /\ seqCeil' \in Nat
    BY <1>4 DEF BootOriginMute
  <2>3. \A c \in Ctr : issued[c] > 0 => c <= seqCeil'
    BY <1>0, <2>1, <2>2 DEF SenderInv, IssuedBehindCeiling
  <2> QED
    BY <1>4, <2>3 DEF BootOriginMute, ForgetCounter, SenderInv, IssuedBehindCeiling
<1>5. CASE Send
  <2>1. CanIssue /\ Transmit /\ UNCHANGED deliveries
    BY <1>5 DEF Send
  <2>2. count' = count + 1 /\ count + 1 < ceiling /\ ceiling <= seqCeil
    BY <1>5 DEF Send, Transmit, MustExtend, CanIssue, SenderInv, IssuedBehindCeiling
  <2>3. \A c \in Ctr : issued'[c] > 0 => c <= count'
    BY <2>1, <2>2, TransmitIssues
  <2>4. \A c \in Ctr : issued'[c] > 0 => c <= seqCeil
    BY <1>0, <2>2, <2>3
  <2> QED
    BY <1>5, <2>1, <2>2, <2>3, <2>4, TransmitIssues
    DEF Send, SenderInv, IssuedBehindCeiling
<1>6. CASE SendExtending
  <2>1. CanIssue /\ Transmit /\ UNCHANGED deliveries
    BY <1>6 DEF SendExtending
  <2>2. count' = count + 1 /\ count < ceiling
    BY <1>6 DEF SendExtending, Transmit, CanIssue, SenderInv, IssuedBehindCeiling
  <2>3. seqCeil' = ceiling + RESERVE /\ ceiling' = ceiling + RESERVE
    BY <1>6 DEF SendExtending
  <2>4. \A c \in Ctr : issued'[c] > 0 => c <= count'
    BY <2>1, <2>2, TransmitIssues
  <2>5. count' < ceiling' /\ ceiling' <= seqCeil'
    BY <2>2, <2>3
  <2>6. \A c \in Ctr : issued'[c] > 0 => c <= seqCeil'
    BY <1>0, <2>2, <2>3, <2>4, <2>5
  <2> QED
    BY <2>1, <2>4, <2>5, <2>6, TransmitIssues DEF SenderInv, IssuedBehindCeiling
<1>7. CASE SendFailsClosed
  <2>1. ready /\ ceiling <= seqCeil
    BY <1>7 DEF SendFailsClosed, CanIssue, SenderInv, IssuedBehindCeiling
  <2>2. ceiling <= seqCeil' /\ seqCeil' \in Nat
    BY <1>7, <2>1 DEF SendFailsClosed
  <2>3. \A c \in Ctr : issued[c] > 0 => c <= count /\ count < ceiling
    BY <2>1 DEF SenderInv, IssuedBehindCeiling
  <2>4. \A c \in Ctr : issued[c] > 0 => c <= seqCeil'
    BY <1>0, <2>2, <2>3
  <2> QED
    BY <1>7, <2>2, <2>4 DEF SendFailsClosed, SenderInv, IssuedBehindCeiling
<1>8. ASSUME NEW s \in Station, NEW f \in air,
             Refuse(s, f) \/ Accept(s, f) \/ AcceptStoreFails(s, f)
      PROVE  SenderInv'
  <2>1. UNCHANGED <<counterVars, issued>>
    BY <1>8 DEF Refuse, Accept, AcceptStoreFails
  <2>2. IssuedBehindCeiling'
    BY <2>1 DEF counterVars, SenderInv, IssuedBehindCeiling
  <2>3. CASE Accept(s, f)
    <3>1. Forward(s, f)
      BY <2>3 DEF Accept
    <3> QED
      BY <2>1, <2>2, <3>1, ForwardIssuesNothing DEF SenderInv
  <2>4. CASE Refuse(s, f) \/ AcceptStoreFails(s, f)
    <3>1. UNCHANGED <<air, deliveries>>
      BY <2>4 DEF Refuse, AcceptStoreFails
    <3> QED
      BY <2>1, <2>2, <3>1 DEF SenderInv
  <2> QED
    BY <1>8, <2>3, <2>4
<1>9. CASE UNCHANGED vars
  BY <1>9 DEF vars, counterVars, windowVars, SenderInv, IssuedBehindCeiling
<1> QED
  BY <1>1, <1>2, <1>3, <1>4, <1>5, <1>6, <1>7, <1>8, <1>9 DEF Next, Boot, Receive

\* No counter on the air lies beyond the sender's durable ceiling, at any time.
THEOREM SenderCorrect == Spec => []IssuedBehindCeiling
<1>1. Init => SenderInv
  BY ResumeType, ZeroIsACounter DEF Init, SenderInv, IssuedBehindCeiling
<1>2. TypeOK /\ SenderInv /\ [Next]_vars => SenderInv'
  BY SenderInvStep
<1>3. SenderInv => IssuedBehindCeiling
  BY DEF SenderInv
<1> QED
  BY <1>1, <1>2, <1>3, TypeCorrect, PTL DEF Spec

-----------------------------------------------------------------------------
(* The windows *)

\* Whatever window a station judges by, the one in RAM or the one it would
\* resume, refuses what the station has accepted.
LEMMA EntryRefusesDelivered ==
  ASSUME TypeOK, WindowInv, NEW s \in Station, NEW c \in Ctr,
         deliveries[s][c] > 0
  PROVE  ~Accepts(Entry(s), c)
<1>1. CASE s \in entry
  BY <1>1 DEF WindowInv, Entry
<1>2. CASE s \notin entry
  <2>1. rxCeil[s] \in Ctr /\ c <= rxCeil[s]
    BY DEF TypeOK, WindowInv, DurableBeforeAccept
  <2> QED
    BY <1>2, <2>1, ResumeRefuses DEF Entry
<1> QED
  BY <1>1, <1>2

\* A station that judges a frame, rather than the running origin its own echo,
\* judges it by a window whose ceiling is the durable one.
LEMMA EntryBehindCeiling ==
  ASSUME TypeOK, SenderInv, WindowInv, NEW s \in Station, NEW f \in air,
         Accepts(Entry(s), f.ctr)
  PROVE  /\ ~(s = Origin /\ ready)
         /\ Entry(s).persisted = rxCeil[s]
         /\ Entry(s).h <= rxCeil[s]
<1>1. f.ctr \in Ctr /\ issued[f.ctr] > 0
  BY DEF TypeOK, Frame, SenderInv
<1>2. ~(s = Origin /\ ready)
  BY <1>1 DEF WindowInv, Entry
<1>3. CASE s \in entry
  BY <1>2, <1>3 DEF WindowInv, Entry
<1>4. CASE s \notin entry
  <2>1. Entry(s) = Resume(rxCeil[s]) /\ rxCeil[s] \in Nat
    BY <1>4, ZeroIsACounter DEF Entry, TypeOK
  <2>2. Resume(rxCeil[s]).persisted = rxCeil[s] /\ Resume(rxCeil[s]).h = rxCeil[s]
    BY DEF Resume
  <2> QED
    BY <1>2, <2>1, <2>2
<1> QED
  BY <1>2, <1>3, <1>4

\* Accepting a frame leaves the new window, the new ceiling and the counters
\* accepted so far in the relation the invariant asks for.
LEMMA AcceptKeepsWindows ==
  ASSUME TypeOK, SenderInv, WindowInv,
         NEW s \in Station, NEW f \in air, Accept(s, f)
  PROVE  WindowInv'
<1> DEFINE c == f.ctr
           w == Entry(s)
           n == Marked(w, c)
<1>1. c \in Ctr /\ w \in Window /\ Accepts(w, c)
  BY EntryType DEF Accept, TypeOK, Frame
<1>2. ~(s = Origin /\ ready) /\ w.persisted = rxCeil[s] /\ w.h <= rxCeil[s]
  BY <1>1, EntryBehindCeiling
<1>3. n \in Window /\ n.h = (IF Newer(w, c) THEN c ELSE w.h)
      /\ n.persisted = IF StoreNeeded(w, c) THEN NewCeiling(c) ELSE w.persisted
  BY <1>1, MarkedType
<1>4. /\ window' = [window EXCEPT ![s] = n]
      /\ entry' = entry \cup {s}
      /\ rxCeil' = IF StoreNeeded(w, c) THEN [rxCeil EXCEPT ![s] = NewCeiling(c)]
                                        ELSE rxCeil
      /\ UNCHANGED <<counterVars, issued>>
  BY DEF Accept
<1>5. deliveries[s][c] = 0
  <2>1. ~(deliveries[s][c] > 0)
    BY <1>1, EntryRefusesDelivered
  <2> QED
    BY <1>1, <2>1 DEF TypeOK
<1>6. \/ deliveries' = [deliveries EXCEPT ![s][c] = 1]
      \/ deliveries' = deliveries
  BY <1>1, <1>5 DEF Accept, Forward, TypeOK
<1> HIDE DEF n, w, c
<1>7. \A t \in Station, d \in Ctr :
        \/ deliveries'[t][d] = deliveries[t][d]
        \/ t = s /\ d = c /\ deliveries'[t][d] = 1
  BY <1>1, <1>6 DEF TypeOK
\* The ceiling moves up, and past the counter just accepted.
<1>8. /\ rxCeil' \in [Station -> Ctr]
      /\ \A t \in Station : rxCeil[t] <= rxCeil'[t]
      /\ c <= rxCeil'[s]
      /\ n.persisted = rxCeil'[s]
      /\ n.h <= rxCeil'[s]
  <2>1. NewCeiling(c) \in Ctr /\ c <= NewCeiling(c)
    BY <1>1, NewCeilingBounds
  <2>2. c \in Nat /\ w.h \in Nat /\ NewCeiling(c) \in Nat /\ rxCeil[s] \in Ctr
        /\ rxCeil[s] \in Nat
    BY <1>1, <2>1, ZeroIsACounter DEF Window, TypeOK
  <2>3. CASE StoreNeeded(w, c)
    <3>1. Newer(w, c) /\ c >= w.persisted
      BY <2>3 DEF StoreNeeded
    <3>2. rxCeil' = [rxCeil EXCEPT ![s] = NewCeiling(c)]
      BY <1>4, <2>3
    <3>3. rxCeil'[s] = NewCeiling(c) /\ rxCeil' \in [Station -> Ctr]
      BY <2>1, <3>2 DEF TypeOK
    <3>4. rxCeil[s] <= NewCeiling(c)
      BY <1>2, <2>1, <2>2, <3>1
    <3>5. \A t \in Station : rxCeil[t] <= rxCeil'[t]
      BY <3>2, <3>3, <3>4 DEF TypeOK, Ctr
    <3> QED
      BY <1>3, <2>1, <2>2, <2>3, <3>1, <3>3, <3>5
  <2>4. CASE ~StoreNeeded(w, c)
    <3>1. rxCeil' = rxCeil
      BY <1>4, <2>4
    <3>2. c <= rxCeil[s]
      BY <1>2, <2>2, <2>4 DEF StoreNeeded, Newer
    <3> QED
      BY <1>2, <1>3, <2>2, <2>4, <3>1, <3>2 DEF TypeOK, Ctr
  <2> QED
    BY <2>3, <2>4
<1>9. DurableBeforeAccept'
  <2> SUFFICES ASSUME NEW t \in Station, NEW d \in Ctr, deliveries'[t][d] > 0
               PROVE  d <= rxCeil'[t]
    BY DEF DurableBeforeAccept
  <2>1. CASE t = s /\ d = c
    BY <1>8, <2>1
  <2>2. CASE deliveries'[t][d] = deliveries[t][d]
    <3>1. d <= rxCeil[t] /\ rxCeil[t] <= rxCeil'[t]
      BY <1>8, <2>2 DEF WindowInv, DurableBeforeAccept
    <3>2. d \in Nat /\ rxCeil[t] \in Nat /\ rxCeil'[t] \in Nat
      BY <1>8, ZeroIsACounter DEF TypeOK
    <3> QED
      BY <3>1, <3>2
  <2> QED
    BY <1>7, <2>1, <2>2
<1>10. \A t \in Station, d \in Ctr :
         /\ deliveries'[t][d] <= 1
         /\ t \in entry' /\ deliveries'[t][d] > 0 => ~Accepts(window'[t], d)
  <2> SUFFICES ASSUME NEW t \in Station, NEW d \in Ctr
               PROVE  /\ deliveries'[t][d] <= 1
                      /\ t \in entry' /\ deliveries'[t][d] > 0
                           => ~Accepts(window'[t], d)
    OBVIOUS
  <2>1. deliveries'[t][d] <= 1
    BY <1>7 DEF WindowInv
  <2>2. CASE t = s
    <3>1. window'[s] = n
      BY <1>4 DEF TypeOK
    <3>2. CASE d = c
      BY <1>1, <2>1, <2>2, <3>1, <3>2, MarkedRefusesIt DEF n
    <3>3. CASE d # c
      <4>1. deliveries'[t][d] > 0 => ~Accepts(w, d)
        BY <1>7, <2>2, <3>3, EntryRefusesDelivered DEF w
      <4> QED
        BY <1>1, <2>1, <2>2, <3>1, <4>1, MarkedKeepsRefusing DEF n
    <3> QED
      BY <2>1, <3>2, <3>3
  <2>3. CASE t # s
    <3>1. window'[t] = window[t] /\ (t \in entry' => t \in entry)
      BY <1>4, <2>3 DEF TypeOK
    <3>2. deliveries'[t][d] = deliveries[t][d]
      BY <1>7, <2>3
    <3> QED
      BY <2>1, <3>1, <3>2 DEF WindowInv
  <2> QED
    BY <2>2, <2>3
<1>11. \A t \in entry' :
         ~(t = Origin /\ ready') => /\ window'[t].persisted = rxCeil'[t]
                                   /\ window'[t].h <= rxCeil'[t]
  <2> SUFFICES ASSUME NEW t \in entry', ~(t = Origin /\ ready')
               PROVE  /\ window'[t].persisted = rxCeil'[t]
                      /\ window'[t].h <= rxCeil'[t]
    OBVIOUS
  <2>1. t \in Station /\ (t # s => t \in entry)
    BY <1>4 DEF TypeOK
  <2>2. CASE t = s
    BY <1>4, <1>8, <2>2 DEF TypeOK
  <2>3. CASE t # s
    <3>1. window'[t] = window[t] /\ rxCeil'[t] = rxCeil[t] /\ ready' = ready
      BY <1>4, <2>1, <2>3 DEF TypeOK, counterVars
    <3> QED
      BY <2>1, <2>3, <3>1 DEF WindowInv
  <2> QED
    BY <2>2, <2>3
<1>12. ready' => /\ Origin \in entry'
                /\ window'[Origin].h = count'
                /\ \A d \in Ctr : issued'[d] > 0 => ~Accepts(window'[Origin], d)
  <2>1. ready' = ready /\ count' = count /\ issued' = issued
    BY <1>4 DEF counterVars
  <2>2. ready' => window'[Origin] = window[Origin]
    BY <1>2, <1>4, <2>1, OriginAssumption DEF TypeOK
  <2> QED
    BY <1>4, <2>1, <2>2 DEF WindowInv
<1> QED
  BY <1>9, <1>10, <1>11, <1>12 DEF WindowInv

\* Issuing a counter marks it in the origin's own window and disturbs no other.
LEMMA TransmitKeepsWindows ==
  ASSUME TypeOK, SenderInv, WindowInv, CanIssue, Transmit,
         UNCHANGED <<ready, rxCeil, deliveries>>
  PROVE  WindowInv'
<1> DEFINE n == count + 1
           w == window[Origin]
<1>1. ready /\ Origin \in entry /\ w.h = count
      /\ \A d \in Ctr : issued[d] > 0 => ~Accepts(w, d)
  BY DEF CanIssue, WindowInv
<1>2. n \in Ctr /\ count' = n /\ w \in Window
  BY TransmitType, OriginAssumption DEF TypeOK
<1>3. Newer(w, n) /\ Accepts(w, n)
  BY <1>1, <1>2 DEF Newer, Accepts, TooOld, Seen, TypeOK, Ctr
<1>4. /\ window' = [window EXCEPT ![Origin] = Marked(w, n)]
      /\ entry' = entry
  BY <1>1, <1>3 DEF Transmit
<1>5. window'[Origin] = Marked(w, n)
      /\ \A t \in Station : t # Origin => window'[t] = window[t]
  BY <1>4, OriginAssumption DEF TypeOK
<1>6. \A d \in Ctr : issued'[d] > 0 => issued[d] > 0 \/ d = n
  BY <1>2 DEF Transmit, TypeOK
<1>7. \A d \in Ctr : issued'[d] > 0 => ~Accepts(window'[Origin], d)
  BY <1>1, <1>2, <1>3, <1>5, <1>6, MarkedRefusesIt, MarkedKeepsRefusing
<1>8. \A t \in Station, d \in Ctr :
        t \in entry' /\ deliveries'[t][d] > 0 => ~Accepts(window'[t], d)
  <2> SUFFICES ASSUME NEW t \in Station, NEW d \in Ctr,
                      t \in entry', deliveries'[t][d] > 0
               PROVE  ~Accepts(window'[t], d)
    OBVIOUS
  <2>1. ~Accepts(window[t], d)
    BY <1>4 DEF WindowInv
  <2> QED
    BY <1>2, <1>3, <1>5, <2>1, MarkedKeepsRefusing
<1>9. \A t \in entry' : ~(t = Origin /\ ready') =>
        /\ window'[t].persisted = rxCeil'[t]
        /\ window'[t].h <= rxCeil'[t]
  BY <1>1, <1>4, <1>5 DEF WindowInv, TypeOK
<1>10. window'[Origin].h = count'
  BY <1>2, <1>3, <1>5, MarkedType
<1>11. DurableBeforeAccept'
  BY DEF WindowInv, DurableBeforeAccept
<1>12. \A t \in Station, d \in Ctr : deliveries'[t][d] <= 1
  BY DEF WindowInv
<1> QED
  BY <1>1, <1>4, <1>7, <1>8, <1>9, <1>10, <1>11, <1>12 DEF WindowInv

\* Every step keeps what is known of the windows.
LEMMA WindowInvStep ==
  ASSUME "rx_write" \notin NvsFault, TypeOK, SenderInv, WindowInv, [Next]_vars
  PROVE  WindowInv'
\* A station that forgets its window, or loads it, keeps what flash holds.
<1>1. ASSUME NEW s \in Station, ForgetWindow(s), UNCHANGED <<rxCeil, deliveries, issued>>,
             s = Origin => ~ready', s # Origin => UNCHANGED <<ready, count>>
      PROVE  WindowInv'
  <2>1. \A t \in Station : t # s => window'[t] = window[t]
    BY <1>1 DEF ForgetWindow, TypeOK
  <2>2. \A t \in entry' : t \in entry /\ t \in Station /\ t # s
    BY <1>1 DEF ForgetWindow, TypeOK
  <2>3. ready' => s # Origin
    BY <1>1
  <2>4. ready' => ready /\ count' = count /\ Origin \in entry'
    BY <1>1, <2>3 DEF WindowInv, ForgetWindow
  <2>5. \A t \in entry' : (t = Origin /\ ready) => (t = Origin /\ ready')
    BY <1>1, <2>2
  <2> QED
    BY <1>1, <2>1, <2>2, <2>3, <2>4, <2>5, OriginAssumption
    DEF WindowInv, DurableBeforeAccept
<1>2. ASSUME NEW s \in Station, BootListener(s) PROVE WindowInv'
  BY <1>1, <1>2 DEF BootListener, counterVars
<1>3. CASE BootOrigin
  <2>1. /\ entry' = entry \cup {Origin}
        /\ window' = [window EXCEPT ![Origin] = Resume(seqCeil)]
        /\ ready' /\ count' = seqCeil
        /\ UNCHANGED <<rxCeil, issued, deliveries>>
    BY <1>3 DEF BootOrigin, SeedOwnWindow
  <2>2. window'[Origin] = Resume(seqCeil) /\ window'[Origin].h = seqCeil
    BY <2>1, OriginAssumption DEF TypeOK, Resume
  <2>3. \A c \in Ctr : issued[c] > 0 => ~Accepts(window'[Origin], c)
    BY <2>2, ResumeRefuses DEF SenderInv, IssuedBehindCeiling, TypeOK
  <2>4. \A t \in Station : t # Origin => window'[t] = window[t]
    BY <2>1 DEF TypeOK
  <2>5. \A t \in Station, c \in Ctr :
          /\ deliveries'[t][c] <= 1
          /\ t \in entry' /\ deliveries'[t][c] > 0 => ~Accepts(window'[t], c)
    BY <2>1, <2>3, <2>4 DEF WindowInv, SenderInv
  <2>6. \A t \in entry' : ~(t = Origin /\ ready') =>
          /\ window'[t].persisted = rxCeil'[t]
          /\ window'[t].h <= rxCeil'[t]
    BY <2>1, <2>4 DEF WindowInv, TypeOK
  <2> QED
    BY <2>1, <2>2, <2>3, <2>5, <2>6 DEF WindowInv, DurableBeforeAccept
<1>4. CASE BootOriginDeaf
  BY <1>1, <1>4, OriginAssumption DEF BootOriginDeaf, ForgetCounter
<1>5. CASE BootOriginMute
  BY <1>1, <1>5, OriginAssumption DEF BootOriginMute, ForgetCounter
<1>6. CASE Send
  BY <1>6, TransmitKeepsWindows DEF Send
<1>7. CASE SendExtending
  BY <1>7, TransmitKeepsWindows DEF SendExtending
<1>8. CASE SendFailsClosed
  BY <1>8 DEF SendFailsClosed, windowVars, WindowInv, DurableBeforeAccept
<1>9. ASSUME NEW s \in Station, NEW f \in air, Refuse(s, f) PROVE WindowInv'
  <2>1. /\ window' = [window EXCEPT ![s] = Entry(s)]
        /\ entry' = entry \cup {s}
        /\ UNCHANGED <<counterVars, rxCeil, issued, deliveries>>
    BY <1>9 DEF Refuse
  <2>2. window'[s] = Entry(s)
        /\ \A t \in Station : t # s => window'[t] = window[t]
    BY <2>1 DEF TypeOK
  <2>3. \A c \in Ctr : deliveries[s][c] > 0 => ~Accepts(Entry(s), c)
    BY EntryRefusesDelivered
  <2>4. s \notin entry => Entry(s).persisted = rxCeil[s] /\ Entry(s).h <= rxCeil[s]
    <3>1. rxCeil[s] \in Nat
      BY ZeroIsACounter DEF TypeOK
    <3> QED
      BY <3>1 DEF Entry, Resume
  <2>5. \A t \in Station, c \in Ctr :
          /\ deliveries'[t][c] <= 1
          /\ t \in entry' /\ deliveries'[t][c] > 0 => ~Accepts(window'[t], c)
    BY <2>1, <2>2, <2>3 DEF WindowInv
  <2>6. s \in entry => window' = window
    BY <2>1 DEF Entry, TypeOK
  <2>7. ready => Origin \in entry
    BY DEF WindowInv
  <2>8. \A t \in entry' : ~(t = Origin /\ ready') =>
          /\ window'[t].persisted = rxCeil'[t]
          /\ window'[t].h <= rxCeil'[t]
    BY <2>1, <2>2, <2>4, <2>6 DEF WindowInv, TypeOK, counterVars
  <2>9. ready' => window'[Origin] = window[Origin]
    BY <2>1, <2>2, <2>6, <2>7, OriginAssumption DEF counterVars
  <2> QED
    BY <2>1, <2>5, <2>8, <2>9 DEF WindowInv, DurableBeforeAccept, counterVars
<1>10. ASSUME NEW s \in Station, NEW f \in air, Accept(s, f) PROVE WindowInv'
  BY <1>10, AcceptKeepsWindows
<1>11. ASSUME NEW s \in Station, NEW f \in air, AcceptStoreFails(s, f)
       PROVE  WindowInv'
  BY <1>11 DEF AcceptStoreFails
<1>12. CASE UNCHANGED vars
  BY <1>12 DEF vars, counterVars, windowVars, WindowInv, DurableBeforeAccept
<1> QED
  BY <1>2, <1>3, <1>4, <1>5, <1>6, <1>7, <1>8, <1>9, <1>10, <1>11, <1>12
  DEF Next, Boot, Receive

-----------------------------------------------------------------------------
(* The results *)

\* No station ever accepts a counter it could not prove, after a power cycle,
\* to have accepted; and a running origin takes no echo of its own frames.
THEOREM WindowsCorrect ==
  ASSUME "rx_write" \notin NvsFault
  PROVE  Spec => [](DurableBeforeAccept /\ OwnEchoDropped)
<1>1. Init => SenderInv /\ WindowInv
  BY ResumeType, ZeroIsACounter
  DEF Init, SenderInv, IssuedBehindCeiling, WindowInv, DurableBeforeAccept
<1>2. TypeOK /\ SenderInv /\ WindowInv /\ [Next]_vars => (SenderInv /\ WindowInv)'
  BY SenderInvStep, WindowInvStep
<1>3. TypeOK /\ SenderInv /\ WindowInv => DurableBeforeAccept /\ OwnEchoDropped
  BY DEF WindowInv, SenderInv, OwnEchoDropped, Entry, TypeOK, Frame
<1> QED
  BY <1>1, <1>2, <1>3, TypeCorrect, PTL DEF Spec

\* A step that issues a counter is one step of the abstract origin.
LEMMA TransmitRefines ==
  ASSUME TypeOK, SenderInv, CanIssue, Transmit, UNCHANGED deliveries
  PROVE  [Channel!Next]_(Channel!vars)
<1>1. count + 1 \in Ctr /\ issued[count + 1] = 0
  BY TransmitType, TransmitIssues
<1>2. \/ issued' = [issued EXCEPT ![count + 1] = 1]
      \/ issued' = issued
  BY <1>1 DEF Transmit, TypeOK
<1>3. CASE issued' = [issued EXCEPT ![count + 1] = 1]
  <2>1. Channel!Originate(count + 1)
    BY <1>1, <1>3 DEF Channel!Originate
  <2> QED
    BY <1>1, <2>1 DEF Channel!Next
<1>4. CASE issued' = issued
  BY <1>4 DEF Channel!vars
<1> QED
  BY <1>2, <1>3, <1>4

\* A station accepts a frame at most once, and only one that was sent.
LEMMA AcceptRefines ==
  ASSUME TypeOK, SenderInv, WindowInv,
         NEW s \in Station, NEW f \in air, Accept(s, f)
  PROVE  [Channel!Next]_(Channel!vars)
<1>1. f.ctr \in Ctr
  BY DEF TypeOK, Frame
<1>2. issued[f.ctr] = 1
  BY <1>1 DEF SenderInv, TypeOK
<1>3. deliveries[s][f.ctr] = 0
  <2>1. ~(deliveries[s][f.ctr] > 0)
    BY <1>1, EntryRefusesDelivered DEF Accept
  <2> QED
    BY <1>1, <2>1 DEF TypeOK
<1>4. UNCHANGED issued
  BY DEF Accept
<1>5. \/ deliveries' = [deliveries EXCEPT ![s][f.ctr] = 1]
      \/ deliveries' = deliveries
  BY <1>1, <1>3 DEF Accept, Forward, TypeOK
<1>6. CASE deliveries' = [deliveries EXCEPT ![s][f.ctr] = 1]
  <2>1. Channel!Deliver(s, f.ctr)
    BY <1>2, <1>3, <1>4, <1>6 DEF Channel!Deliver
  <2> QED
    BY <1>1, <2>1 DEF Channel!Next
<1>7. CASE deliveries' = deliveries
  BY <1>4, <1>7 DEF Channel!vars
<1> QED
  BY <1>5, <1>6, <1>7

\* The counter and the windows together: over the whole life of the mesh, with
\* frames lost, duplicated, re-ordered and relayed and stations rebooting at
\* any step, each counter is sent at most once and accepted at most once.
THEOREM SpineIsAtMostOnce ==
  ASSUME "rx_write" \notin NvsFault
  PROVE  Spec => ImplementsAtMostOnce
<1>1. Init => SenderInv /\ WindowInv
  BY ResumeType, ZeroIsACounter
  DEF Init, SenderInv, IssuedBehindCeiling, WindowInv, DurableBeforeAccept
<1>2. TypeOK /\ SenderInv /\ WindowInv /\ [Next]_vars => (SenderInv /\ WindowInv)'
  BY SenderInvStep, WindowInvStep
<1>3. Init => Channel!Init
  BY DEF Init, Channel!Init
<1>4. TypeOK /\ SenderInv /\ WindowInv /\ [Next]_vars => [Channel!Next]_(Channel!vars)
  <2> SUFFICES ASSUME TypeOK, SenderInv, WindowInv, [Next]_vars
               PROVE  [Channel!Next]_(Channel!vars)
    OBVIOUS
  <2>1. CASE Boot
    <3>1. UNCHANGED <<issued, deliveries>>
      BY <2>1 DEF Boot, BootListener, BootOrigin, BootOriginDeaf, BootOriginMute
    <3> QED
      BY <3>1 DEF Channel!vars
  <2>2. CASE Send
    BY <2>2, TransmitRefines DEF Send
  <2>3. CASE SendExtending
    BY <2>3, TransmitRefines DEF SendExtending
  <2>4. CASE SendFailsClosed
    BY <2>4 DEF SendFailsClosed, Channel!vars
  <2>5. ASSUME NEW s \in Station, NEW f \in air, Refuse(s, f) \/ AcceptStoreFails(s, f)
        PROVE  [Channel!Next]_(Channel!vars)
    BY <2>5 DEF Refuse, AcceptStoreFails, Channel!vars
  <2>6. ASSUME NEW s \in Station, NEW f \in air, Accept(s, f)
        PROVE  [Channel!Next]_(Channel!vars)
    BY <2>6, AcceptRefines
  <2>7. CASE UNCHANGED vars
    BY <2>7 DEF vars, Channel!vars
  <2> QED
    BY <2>1, <2>2, <2>3, <2>4, <2>5, <2>6, <2>7 DEF Next, Receive
<1> QED
  BY <1>1, <1>2, <1>3, <1>4, TypeCorrect, PTL
  DEF Spec, ImplementsAtMostOnce, Channel!Spec

-----------------------------------------------------------------------------
(* What a reset costs                                                         *)

\* While the origin can send, the ceiling in flash is the one it holds, within a
\* block of its count; every ceiling a station holds for it was taken for a
\* frame on the air.
GapInv ==
  /\ ready /\ ~failed => ceiling = seqCeil
  /\ SkipBounded
  /\ RestartGapBounded

\* A ceiling moved for a frame on the air is within M of it, and no frame ever
\* leaves the air.
LEMMA CeilingFollowsAFrame ==
  ASSUME TypeOK, RestartGapBounded, NEW s \in Station, NEW f \in air,
         air \subseteq air',
         rxCeil' = rxCeil \/ rxCeil' = [rxCeil EXCEPT ![s] = NewCeiling(f.ctr)]
  PROVE  RestartGapBounded'
<1>1. f.ctr \in Ctr
  BY DEF TypeOK, Frame
<1>2. NewCeiling(f.ctr) <= f.ctr + M
  BY <1>1, NewCeilingBounds
<1>3. ASSUME NEW t \in Station, rxCeil'[t] > 0
      PROVE  \E g \in air' : rxCeil'[t] <= g.ctr + M
  <2>1. CASE rxCeil'[t] = rxCeil[t]
    BY <1>3, <2>1 DEF RestartGapBounded
  <2>2. CASE rxCeil'[t] # rxCeil[t]
    <3>1. rxCeil'[t] = NewCeiling(f.ctr)
      BY <2>2 DEF TypeOK
    <3> QED
      BY <1>2, <3>1
  <2> QED
    BY <2>1, <2>2
<1> QED
  BY <1>3 DEF RestartGapBounded

\* Every step of the origin or of a station keeps the costs bounded, whichever
\* writes to flash fail.
LEMMA GapStep ==
  ASSUME TypeOK, GapInv, [Next]_vars
  PROVE  GapInv'
<1> USE DEF GapInv
<1>0. /\ seqCeil \in Nat /\ count \in Nat /\ ceiling \in Nat /\ RESERVE \in Nat \ {0}
      /\ ready \in BOOLEAN /\ failed \in BOOLEAN
  BY ZeroIsACounter, ReserveAssumption DEF TypeOK
<1>1. ASSUME UNCHANGED <<seqCeil, ready, count, ceiling, failed>> \/ ~ready',
             rxCeil' = rxCeil, air \subseteq air'
      PROVE  GapInv'
  BY <1>0, <1>1 DEF SkipBounded, RestartGapBounded
<1>2. CASE \E s \in Station : BootListener(s)
  BY <1>1, <1>2 DEF BootListener, counterVars
<1>3. CASE BootOrigin
  <2>1. /\ seqCeil' = seqCeil + RESERVE /\ count' = seqCeil /\ ceiling' = seqCeil'
        /\ ~failed' /\ UNCHANGED <<rxCeil, air>>
    BY <1>3 DEF BootOrigin
  <2> QED
    BY <1>0, <2>1 DEF SkipBounded, RestartGapBounded
<1>4. CASE BootOriginDeaf \/ BootOriginMute
  <2>1. ~ready' /\ rxCeil' = rxCeil /\ air' = air
    BY <1>4 DEF BootOriginDeaf, BootOriginMute, ForgetCounter
  <2> QED
    BY <1>1, <2>1
<1>5. CASE Send
  <2>1. /\ count' = count + 1 /\ UNCHANGED <<seqCeil, ready, ceiling, failed, rxCeil>>
        /\ air \subseteq air'
    BY <1>5 DEF Send, Transmit
  <2> QED
    BY <1>0, <2>1 DEF SkipBounded, RestartGapBounded
<1>6. CASE SendExtending
  <2>1. /\ count + 1 >= ceiling /\ count' = count + 1 /\ seqCeil' = ceiling + RESERVE
        /\ ceiling' = seqCeil' /\ UNCHANGED <<ready, failed, rxCeil>>
        /\ air \subseteq air'
    BY <1>6 DEF SendExtending, Transmit, MustExtend
  <2> QED
    BY <1>0, <2>1 DEF SkipBounded, RestartGapBounded
<1>7. CASE SendFailsClosed
  <2>1. /\ ready /\ ~failed /\ count + 1 >= ceiling
        /\ seqCeil' \in {seqCeil, ceiling + RESERVE} /\ failed' = TRUE
        /\ UNCHANGED <<ready, count, ceiling, rxCeil, air>>
    BY <1>7 DEF SendFailsClosed, CanIssue, MustExtend, windowVars
  <2> QED
    BY <1>0, <2>1 DEF SkipBounded, RestartGapBounded
<1>8. ASSUME NEW s \in Station, NEW f \in air, Refuse(s, f) PROVE GapInv'
  BY <1>1, <1>8 DEF Refuse, counterVars
<1>9. ASSUME NEW s \in Station, NEW f \in air, Accept(s, f) \/ AcceptStoreFails(s, f)
      PROVE  GapInv'
  <2>1. /\ UNCHANGED counterVars
        /\ rxCeil' = rxCeil \/ rxCeil' = [rxCeil EXCEPT ![s] = NewCeiling(f.ctr)]
        /\ air \subseteq air'
    BY <1>9 DEF Accept, AcceptStoreFails, Forward
  <2>2. RestartGapBounded'
    BY <2>1, CeilingFollowsAFrame
  <2> QED
    BY <2>1, <2>2 DEF counterVars, SkipBounded
<1>10. CASE UNCHANGED vars
  BY <1>1, <1>10 DEF vars, counterVars, windowVars
<1> QED
  BY <1>2, <1>3, <1>4, <1>5, <1>6, <1>7, <1>8, <1>9, <1>10 DEF Next, Boot, Receive

\* Neither a reset of the origin nor one of a receiver costs more counters than
\* was persisted ahead (SeqCounter::RESERVE, ReplayWindow::M), with any of the
\* NVS operations failing.
THEOREM CostsBounded == Spec => []GapsBounded
<1>1. Init => GapInv
  BY DEF Init, GapInv, SkipBounded, RestartGapBounded
<1>2. TypeOK /\ GapInv /\ [Next]_vars => GapInv'
  BY GapStep
<1>3. GapInv => GapsBounded
  BY DEF GapInv, GapsBounded
<1> QED
  BY <1>1, <1>2, <1>3, TypeCorrect, PTL DEF Spec


-----------------------------------------------------------------------------
(* NodeReflex.  Steps of a loop                                              *)

\* What holds at the start, and after a step if before it, holds to the end.
LEMMA StepsReach ==
  ASSUME NEW n \in Nat, NEW T, 0 \in T, \A i \in 0 .. n - 1 : i \in T => i + 1 \in T
  PROVE  \A i \in 0 .. n : i \in T
<1> DEFINE missed == {i \in 0 .. n : i \notin T}
<1> SUFFICES ASSUME missed # {} PROVE FALSE
  OBVIOUS
<1>1. missed \subseteq Nat
  OBVIOUS
<1>2. PICK i \in missed : \A m \in missed : ~(<<m, i>> \in OpToRel(<, Nat))
  BY <1>1, NatLessThanWellFounded, WFMin
<1>3. \A m \in missed : ~(m \in Nat /\ i \in Nat /\ m < i)
  BY <1>2, Zenon DEF OpToRel
<1>4. i \in 0 .. n /\ i \notin T /\ i # 0
  BY <1>2
<1>5. i - 1 \in 0 .. n - 1 /\ i - 1 \in 0 .. n /\ i - 1 \in Nat /\ i - 1 < i /\ i - 1 + 1 = i
  BY <1>4
<1>6. i - 1 \notin T
  BY <1>4, <1>5
<1>7. i - 1 \in missed
  BY <1>5, <1>6
<1> QED
  BY <1>3, <1>4, <1>5, <1>7

\* f holds the states of a loop of n steps g from b.
Steps(f, n, b, g) == f[0] = b /\ \A i \in 1 .. n : f[i] = g[i][f[i - 1]]

\* A loop of n steps, each of which keeps to S, runs.
LEMMA StepsExist ==
  ASSUME NEW S, NEW n \in Nat, NEW b \in S, NEW g \in [1 .. n -> [S -> S]]
  PROVE  \E f \in [0 .. n -> S] : Steps(f, n, b, g)
<1> USE DEF Steps
<1> DEFINE Runs(f, k) == Steps(f, k, b, g)
           T == {k \in 0 .. n : \E f \in [0 .. k -> S] : Runs(f, k)}
<1>1. 0 \in T
  <2>1. PICK f : f = [i \in 0 .. 0 |-> b]
    OBVIOUS
  <2>2. f \in [0 .. 0 -> S] /\ f[0] = b
    BY <2>1
  <2>3. Runs(f, 0)
    BY <2>2
  <2>4. 0 \in 0 .. n
    OBVIOUS
  <2> HIDE DEF Runs
  <2> QED
    BY <2>2, <2>3, <2>4
<1>2. ASSUME NEW k \in 0 .. n - 1, k \in T
      PROVE  k + 1 \in T
  <2>1. PICK f \in [0 .. k -> S] : Runs(f, k)
    BY <1>2
  <2> DEFINE f2 == [i \in 0 .. k + 1 |-> IF i <= k THEN f[i] ELSE g[k + 1][f[k]]]
  <2>2. k + 1 \in 1 .. n /\ k \in 0 .. k /\ g[k + 1] \in [S -> S] /\ f[k] \in S
    OBVIOUS
  <2>3. g[k + 1][f[k]] \in S
    BY <2>2
  <2>4. f2 \in [0 .. k + 1 -> S]
    BY <2>3
  <2>5. \A i \in 0 .. k : f2[i] = f[i]
    OBVIOUS
  <2>6. f2[k + 1] = g[k + 1][f[k]]
    OBVIOUS
  <2> HIDE DEF f2
  <2>7. f2[0] = b
    BY <2>1, <2>5
  <2>8. ASSUME NEW i \in 1 .. k + 1
        PROVE  f2[i] = g[i][f2[i - 1]]
    <3>1. CASE i = k + 1
      <4>1. i - 1 = k
        BY <3>1
      <4> QED
        BY <2>5, <2>6, <3>1, <4>1
    <3>2. CASE i # k + 1
      <4>1. i \in 1 .. k /\ i - 1 \in 0 .. k /\ i \in 0 .. k
        BY <3>2
      <4> QED
        BY <2>1, <2>5, <4>1
    <3> QED
      BY <3>1, <3>2
  <2> QED
    BY <2>2, <2>4, <2>7, <2>8
<1> HIDE DEF T
<1>3. \A i \in 0 .. n : i \in T
  BY <1>1, <1>2, StepsReach
<1> QED
  BY <1>3 DEF T

-----------------------------------------------------------------------------
(* The rules *)

Acts == {Escalate, Nothing} \cup [kind : {"gpio_write"}, pin : Pins, value : 0 .. 1]

RuleOk(r) ==
  /\ r.id \in Ids /\ r.then \in Acts
  /\ r.gap \in 0 .. AgeCap /\ r.edge \in BOOLEAN
  /\ r.hold \in Nat /\ r.hold + ReflexInterval <= AgeCap

RulesOk(rs) ==
  /\ Len(rs) \in Nat /\ DOMAIN rs = 1 .. Len(rs)
  /\ \A i \in 1 .. Len(rs) : RuleOk(rs[i])
  /\ \A i, j \in 1 .. Len(rs) : rs[i].id = rs[j].id => i = j

\* The built-ins are rules, each under an id of its own.
LEMMA DefaultsAre ==
  /\ Len(DefaultSafingRules) = 6 /\ DefaultSafingRules \in Seq(ToSet(DefaultSafingRules))
  /\ RulesOk(DefaultSafingRules)
<1> DEFINE d == DefaultSafingRules
<1>1. Len(d) = 6 /\ DOMAIN d = 1 .. 6
  BY DEF DefaultSafingRules
<1>2. /\ d[1] = Rule("safe-battery-critical", Sensor("soc", "le", 0), Write(SafePin, 0), CutDebounce, FALSE, 0)
      /\ d[2] = Rule("safe-battery-low", Sensor("soc", "le", 1), Escalate, CutDebounce, FALSE, 0)
      /\ d[3] = Rule("safe-link-offline", Sensor("silence", "ge", LinkTimeout), Escalate, NewsDebounce, TRUE, 0)
      /\ d[4] = Rule("safe-overtemp-critical", Sensor("temperature", "ge", 2), Write(SafePin, 0), CutDebounce, FALSE, 0)
      /\ d[5] = Rule("safe-overtemp-warn", Sensor("temperature", "ge", 1), Escalate, CutDebounce, FALSE, 0)
      /\ d[6] = Rule("safe-humidity-high", Sensor("humidity", "ge", 1), Escalate, NewsDebounce, FALSE, 0)
  BY DEF DefaultSafingRules
<1>3. \A i \in 1 .. 6 : i = 1 \/ i = 2 \/ i = 3 \/ i = 4 \/ i = 5 \/ i = 6
  OBVIOUS
<1>4. /\ d[1].id = "safe-battery-critical" /\ d[2].id = "safe-battery-low"
      /\ d[3].id = "safe-link-offline" /\ d[4].id = "safe-overtemp-critical"
      /\ d[5].id = "safe-overtemp-warn" /\ d[6].id = "safe-humidity-high"
  BY <1>2 DEF Rule
<1>5. Write(SafePin, 0) \in Acts /\ Escalate \in Acts
  BY PinsAssumption DEF Acts, Write
<1>6. \A i \in 1 .. 6 : d[i].then \in Acts
  <2>1. /\ d[1].then = Write(SafePin, 0) /\ d[2].then = Escalate /\ d[3].then = Escalate
        /\ d[4].then = Write(SafePin, 0) /\ d[5].then = Escalate /\ d[6].then = Escalate
    BY <1>2 DEF Rule
  <2> QED
    BY <1>3, <1>5, <2>1
<1>7. \A i \in 1 .. 6 : d[i].gap \in {CutDebounce, NewsDebounce}
  <2>1. /\ d[1].gap = CutDebounce /\ d[2].gap = CutDebounce /\ d[3].gap = NewsDebounce
        /\ d[4].gap = CutDebounce /\ d[5].gap = CutDebounce /\ d[6].gap = NewsDebounce
    BY <1>2 DEF Rule
  <2> QED
    BY <1>3, <2>1
<1>8. \A i \in 1 .. 6 : d[i].edge \in BOOLEAN /\ d[i].hold = 0
  <2>1. /\ d[1].edge = FALSE /\ d[2].edge = FALSE /\ d[3].edge = TRUE
        /\ d[4].edge = FALSE /\ d[5].edge = FALSE /\ d[6].edge = FALSE
        /\ d[1].hold = 0 /\ d[2].hold = 0 /\ d[3].hold = 0
        /\ d[4].hold = 0 /\ d[5].hold = 0 /\ d[6].hold = 0
    BY <1>2 DEF Rule
  <2> QED
    BY <1>3, <2>1
<1>9. \A i, j \in 1 .. 6 : d[i].id = d[j].id => i = j
  BY <1>3, <1>4
<1>10. d \in Seq(ToSet(d))
  <2>1. d = [i \in 1 .. 6 |-> d[i]]
    BY <1>1 DEF DefaultSafingRules
  <2>2. \A i \in 1 .. 6 : d[i] \in ToSet(d)
    BY <1>1 DEF ToSet
  <2> DEFINE S == ToSet(d)
  <2> HIDE DEF d, S
  <2>3. [i \in 1 .. 6 |-> d[i]] \in Seq(S)
    BY <2>2 DEF S
  <2> QED
    BY <2>1, <2>3 DEF S
<1>11. \A i \in 1 .. 6 : d[i].id \in Ids
  <2>1. WithDefaults(<< >>) = d
    BY <1>10, ConcatEmptySeq DEF WithDefaults
  <2>2. \A i \in 1 .. 6 : d[i] \in ToSet(d)
    BY <1>1 DEF ToSet
  <2> QED
    BY <2>1, <2>2 DEF Ids
<1>12. \A i \in 1 .. 6 : RuleOk(d[i])
  BY <1>6, <1>7, <1>8, <1>11, TimesAssumption DEF RuleOk
<1> HIDE DEF d
<1>13. RulesOk(d)
  BY <1>1, <1>9, <1>12 DEF RulesOk
<1> QED
  BY <1>1, <1>10, <1>13 DEF d

HostSets == HostRules \cup {<< >>}
HostOf(rs) == SubSeq(rs, Len(DefaultSafingRules) + 1, Len(rs))

\* The built-ins and a host's rules are rules, each under an id of its own,
\* and the host's can be told from them.
LEMMA WithDefaultsAre ==
  ASSUME NEW h \in HostSets
  PROVE  RulesOk(WithDefaults(h)) /\ HostOf(WithDefaults(h)) = h
<1> DEFINE d == DefaultSafingRules
           rs == WithDefaults(h)
           S == ToSet(d) \cup ToSet(h)
<1>1. Len(d) = 6 /\ d \in Seq(ToSet(d)) /\ RulesOk(d)
  BY DefaultsAre
<1>2. h \in Seq(ToSet(h))
  <2>1. CASE h = << >>
    BY <2>1
  <2>2. CASE h \in HostRules
    BY <2>2, HostRulesAssumption
  <2> QED
    BY <2>1, <2>2 DEF HostSets
<1>3. d \in Seq(S) /\ h \in Seq(S)
  <2> HIDE DEF d
  <2>1. \A i \in 1 .. Len(d) : d[i] \in ToSet(d)
    BY <1>1 DEF ToSet
  <2>2. \A i \in 1 .. Len(h) : h[i] \in ToSet(h)
    BY <1>2 DEF ToSet
  <2> QED
    BY <1>1, <1>2, <2>1, <2>2
<1>4. PICK n \in Nat : n = Len(h)
  <2>1. Len(h) \in Nat
    BY <1>2
  <2> QED
    BY <2>1
<1> HIDE DEF d, S
<1>5. /\ rs \in Seq(S) /\ Len(rs) = 6 + n /\ DOMAIN rs = 1 .. 6 + n
      /\ \A i \in 1 .. 6 + n : rs[i] = IF i <= 6 THEN d[i] ELSE h[i - 6]
  <2>1. /\ d \o h \in Seq(S) /\ Len(d \o h) = Len(d) + Len(h)
        /\ \A i \in 1 .. Len(d) + Len(h) : (d \o h)[i] = IF i <= Len(d) THEN d[i] ELSE h[i - Len(d)]
    BY <1>3, ConcatProperties
  <2>2. rs = d \o h
    BY DEF WithDefaults, d
  <2>3. Len(rs) = 6 + n /\ \A i \in 1 .. 6 + n : rs[i] = IF i <= 6 THEN d[i] ELSE h[i - 6]
    BY <1>1, <1>4, <2>1, <2>2
  <2> HIDE DEF rs
  <2>4. rs \in Seq(S)
    BY <2>1, <2>2
  <2> QED
    BY <2>3, <2>4
<1>6. \A i \in 1 .. n : h[i] \in ToSet(h) /\ h[i] \in S
  <2>1. DOMAIN h = 1 .. n
    BY <1>2, <1>4
  <2> QED
    BY <2>1 DEF ToSet, S
<1>7. HostOf(rs) = h
  <2>1. HostOf(rs) = SubSeq(rs, 7, 6 + n)
    BY <1>1, <1>5 DEF HostOf, d
  <2>2. \A i \in 7 .. 6 + n : rs[i] \in S
    <3> SUFFICES ASSUME NEW i \in 7 .. 6 + n
                 PROVE  rs[i] \in S
      OBVIOUS
    <3>1. i \in 1 .. 6 + n /\ ~(i <= 6) /\ i - 6 \in 1 .. n
      OBVIOUS
    <3> QED
      BY <1>5, <1>6, <3>1
  <2> HIDE DEF rs
  <2>3. 7 \in Int /\ 6 + n \in Int
    OBVIOUS
  <2>4. /\ SubSeq(rs, 7, 6 + n) \in Seq(S)
        /\ Len(SubSeq(rs, 7, 6 + n)) = IF 7 <= 6 + n THEN (6 + n) - 7 + 1 ELSE 0
        /\ \A i \in 1 .. (6 + n) - 7 + 1 : SubSeq(rs, 7, 6 + n)[i] = rs[7 + i - 1]
    BY <2>2, <2>3, SubSeqProperties
  <2>5. Len(SubSeq(rs, 7, 6 + n)) = n
    BY <2>4
  <2>6. ASSUME NEW i \in 1 .. n
        PROVE  SubSeq(rs, 7, 6 + n)[i] = h[i]
    <3>1. i \in 1 .. (6 + n) - 7 + 1 /\ 7 + i - 1 = 6 + i /\ 6 + i \in 1 .. 6 + n /\ ~(6 + i <= 6)
          /\ 6 + i - 6 = i
      OBVIOUS
    <3>2. SubSeq(rs, 7, 6 + n)[i] = rs[6 + i]
      BY <2>4, <3>1
    <3>3. rs[6 + i] = h[6 + i - 6]
      BY <1>5, <3>1
    <3> QED
      BY <3>1, <3>2, <3>3
  <2> QED
    BY <1>3, <1>4, <2>1, <2>4, <2>5, <2>6, SeqEqual
<1>8. RulesOk(rs)
  <2>1. CASE h = << >>
    <3>1. n = 0
      BY <1>4, <2>1
    <3>2. Len(rs) = 6 /\ DOMAIN rs = 1 .. 6 /\ \A i \in 1 .. 6 : rs[i] = d[i]
      BY <1>5, <3>1
    <3> HIDE DEF rs
    <3> QED
      BY <1>1, <3>2 DEF RulesOk
  <2>2. CASE h \in HostRules
    <3>1. /\ \A r \in ToSet(h) :
               /\ r.then = Escalate \/ \E p \in Pins, v \in 0 .. 1 : r.then = Write(p, v)
               /\ r.gap \in 0 .. AgeCap /\ r.edge \in BOOLEAN
               /\ r.hold \in Nat /\ r.hold + ReflexInterval <= AgeCap
          /\ \A i, j \in DOMAIN rs : rs[i].id = rs[j].id => i = j
      BY <2>2, HostRulesAssumption
    <3>2. \A r \in ToSet(h) : r.id \in Ids
      BY <2>2 DEF Ids
    <3>3. \A p \in Pins, v \in 0 .. 1 : Write(p, v) \in Acts
      BY DEF Write, Acts
    <3>4. \A r \in ToSet(h) : r.then \in Acts
      BY <3>1, <3>3 DEF Acts
    <3>5. \A r \in ToSet(h) : RuleOk(r)
      BY <3>1, <3>2, <3>4 DEF RuleOk
    <3>6. \A i \in 1 .. 6 : RuleOk(d[i])
      BY <1>1 DEF RulesOk
    <3> HIDE DEF rs
    <3>7. ASSUME NEW i \in 1 .. 6 + n
          PROVE  RuleOk(rs[i])
      <4>1. CASE i <= 6
        <5>1. i \in 1 .. 6
          BY <4>1
        <5> QED
          BY <1>5, <3>6, <4>1, <5>1
      <4>2. CASE ~(i <= 6)
        <5>1. i - 6 \in 1 .. n
          BY <4>2
        <5> QED
          BY <1>5, <1>6, <3>5, <4>2, <5>1
      <4> QED
        BY <4>1, <4>2
    <3> QED
      BY <1>5, <3>1, <3>7 DEF RulesOk
  <2> QED
    BY <2>1, <2>2 DEF HostSets
<1> QED
  BY <1>7, <1>8

-----------------------------------------------------------------------------
(* Judging one rule *)

Began(h) == IF h = NotHeld THEN 0 ELSE h

\* The rule fires, of its age of the last fire, whether this run had its fire,
\* and the age of the run.
FiresOn(r, snap, l, x, h) ==
  /\ Holds(r.when, snap, levels)
  /\ ~(r.hold > 0 /\ Began(h) < r.hold)
  /\ ~(r.edge /\ x)
  /\ ~(r.gap > 0 /\ l < r.gap)

NewLast(r, snap, l, x, h) == IF FiresOn(r, snap, l, x, h) THEN 0 ELSE l
NewRan(r, snap, l, x, h) ==
  IF r.edge THEN Holds(r.when, snap, levels) /\ (FiresOn(r, snap, l, x, h) \/ x) ELSE x
NewHeld(r, snap, h) ==
  IF r.hold > 0 THEN IF Holds(r.when, snap, levels) THEN Began(h) ELSE NotHeld ELSE h

Judgement(n) ==
  [last : [Ids -> Ages], ran : [Ids -> BOOLEAN], held : [Ids -> Ages \cup {NotHeld}], fired : Seq(1 .. n)]

\* One rule's judgement touches its own entries only, and fires it or not.
LEMMA JudgeIs ==
  ASSUME NEW n \in Nat, NEW s \in Judgement(n), NEW r, RuleOk(r), NEW i \in 1 .. n, NEW snap
  PROVE  LET l == s.last[r.id]
             x == s.ran[r.id]
             h == s.held[r.id]
             j == Judge(s, r, i, snap)
         IN  /\ j \in Judgement(n)
             /\ j.last = [s.last EXCEPT ![r.id] = NewLast(r, snap, l, x, h)]
             /\ j.ran = [s.ran EXCEPT ![r.id] = NewRan(r, snap, l, x, h)]
             /\ j.held = [s.held EXCEPT ![r.id] = NewHeld(r, snap, h)]
             /\ j.fired = IF FiresOn(r, snap, l, x, h) THEN Append(s.fired, i) ELSE s.fired
<1> DEFINE l == s.last[r.id]
           x == s.ran[r.id]
           h == s.held[r.id]
           j == Judge(s, r, i, snap)
           holds == Holds(r.when, snap, levels)
           fires == FiresOn(r, snap, l, x, h)
<1>1. /\ s = [last |-> s.last, ran |-> s.ran, held |-> s.held, fired |-> s.fired]
      /\ s.last \in [Ids -> Ages] /\ s.ran \in [Ids -> BOOLEAN]
      /\ s.held \in [Ids -> Ages \cup {NotHeld}] /\ s.fired \in Seq(1 .. n)
  BY DEF Judgement
<1>2. r.id \in Ids /\ r.edge \in BOOLEAN /\ r.hold \in Nat /\ r.gap \in 0 .. AgeCap
  BY DEF RuleOk
<1>3. l \in Ages /\ x \in BOOLEAN /\ h \in Ages \cup {NotHeld} /\ Began(h) \in Ages
  BY <1>1, <1>2, TimesAssumption DEF Ages, Began
<1>4. 0 \in Ages
  BY TimesAssumption DEF Ages
<1>5. PICK nl, nr, nh : /\ nl = NewLast(r, snap, l, x, h) /\ nr = NewRan(r, snap, l, x, h)
                        /\ nh = NewHeld(r, snap, h)
  OBVIOUS
<1>6. nl = (IF fires THEN 0 ELSE l) /\ nl \in Ages
  BY <1>3, <1>4, <1>5 DEF NewLast
<1>7. nh = (IF r.hold > 0 THEN IF holds THEN Began(h) ELSE NotHeld ELSE h) /\ nh \in Ages \cup {NotHeld}
  BY <1>3, <1>5 DEF NewHeld
<1>8. nr = (IF r.edge THEN holds /\ (fires \/ x) ELSE x) /\ nr \in BOOLEAN
  BY <1>3, <1>5, Zenon DEF NewRan
<1> DEFINE judged == [last |-> [s.last EXCEPT ![r.id] = nl], ran |-> [s.ran EXCEPT ![r.id] = nr],
                      held |-> [s.held EXCEPT ![r.id] = nh],
                      fired |-> IF fires THEN Append(s.fired, i) ELSE s.fired]
<1>9. ASSUME ~holds
      PROVE  j = judged
  <2>1. j = [s EXCEPT !.ran[r.id]  = IF r.edge THEN FALSE ELSE @,
                      !.held[r.id] = IF r.hold > 0 THEN NotHeld ELSE @]
    BY <1>9, Zenon DEF Judge
  <2>2. ~fires
    BY <1>9 DEF FiresOn
  <2>3. nl = l /\ nh = (IF r.hold > 0 THEN NotHeld ELSE h)
    BY <1>6, <1>7, <1>9, <2>2
  <2>4. nr = IF r.edge THEN FALSE ELSE x
    BY <1>8, <1>9, Zenon
  <2>5. j = [last |-> s.last, ran |-> [s.ran EXCEPT ![r.id] = nr],
             held |-> [s.held EXCEPT ![r.id] = nh], fired |-> s.fired]
    BY <1>1, <2>1, <2>3, <2>4
  <2>6. [s.last EXCEPT ![r.id] = nl] = s.last
    BY <1>1, <2>3
  <2> HIDE DEF j, fires
  <2> QED
    BY <2>2, <2>5, <2>6
<1>10. ASSUME holds
       PROVE  j = judged
  <2>1. PICK kept1 : kept1 = [s EXCEPT !.held[r.id] = IF r.hold > 0 THEN Began(h) ELSE @]
    OBVIOUS
  <2> DEFINE waits == \/ r.hold > 0 /\ Began(h) < r.hold
                      \/ r.edge /\ x
                      \/ r.gap > 0 /\ l < r.gap
  <2>2. j = IF waits THEN kept1
            ELSE [kept1 EXCEPT !.last[r.id] = 0, !.ran[r.id] = IF r.edge THEN TRUE ELSE @,
                               !.fired = Append(@, i)]
    BY <1>10, <2>1 DEF Judge, Began
  <2>3. kept1 = [last |-> s.last, ran |-> s.ran, held |-> [s.held EXCEPT ![r.id] = nh], fired |-> s.fired]
    <3>1. nh = IF r.hold > 0 THEN Began(h) ELSE h
      BY <1>7, <1>10
    <3>2. kept1 = [s EXCEPT !.held[r.id] = nh]
      BY <1>1, <2>1, <3>1
    <3> QED
      BY <1>1, <3>2
  <2>4. fires <=> ~waits
    BY <1>10, Zenon DEF FiresOn
  <2> HIDE DEF waits
  <2>5. CASE waits
    <3>1. ~fires /\ j = kept1
      BY <2>2, <2>4, <2>5
    <3>2. nl = l
      BY <1>6, <3>1
    <3>3. nr = x
      BY <1>3, <1>8, <1>10, <3>1, Zenon
    <3>4. [s.last EXCEPT ![r.id] = nl] = s.last /\ [s.ran EXCEPT ![r.id] = nr] = s.ran
      BY <1>1, <3>2, <3>3
    <3> HIDE DEF j, fires
    <3> QED
      BY <2>3, <3>1, <3>4
  <2>6. CASE ~waits
    <3>1. fires
      BY <2>4, <2>6
    <3>2. nl = 0
      BY <1>6, <3>1
    <3>3. nr = IF r.edge THEN TRUE ELSE x
      BY <1>8, <1>10, <3>1, Zenon
    <3>4. j = [kept1 EXCEPT !.last[r.id] = 0, !.ran[r.id] = IF r.edge THEN TRUE ELSE @,
                            !.fired = Append(@, i)]
      BY <2>2, <2>6
    <3>5. j = [last |-> [s.last EXCEPT ![r.id] = nl], ran |-> [s.ran EXCEPT ![r.id] = nr],
               held |-> [s.held EXCEPT ![r.id] = nh], fired |-> Append(s.fired, i)]
      BY <2>3, <3>2, <3>3, <3>4
    <3> HIDE DEF j, fires
    <3> QED
      BY <3>1, <3>5
  <2> QED
    BY <2>5, <2>6
<1>11. j = judged
  BY <1>9, <1>10
<1>12. /\ judged.last = [s.last EXCEPT ![r.id] = nl] /\ judged.ran = [s.ran EXCEPT ![r.id] = nr]
       /\ judged.held = [s.held EXCEPT ![r.id] = nh]
       /\ judged.fired = IF fires THEN Append(s.fired, i) ELSE s.fired
  BY Zenon
<1>13. judged \in Judgement(n)
  <2>1. /\ [s.last EXCEPT ![r.id] = nl] \in [Ids -> Ages]
        /\ [s.held EXCEPT ![r.id] = nh] \in [Ids -> Ages \cup {NotHeld}]
    BY <1>1, <1>6, <1>7
  <2>2. [s.ran EXCEPT ![r.id] = nr] \in [Ids -> BOOLEAN]
    BY <1>1, <1>8
  <2>3. (IF fires THEN Append(s.fired, i) ELSE s.fired) \in Seq(1 .. n)
    <3>1. Append(s.fired, i) \in Seq(1 .. n)
      BY <1>1
    <3> HIDE DEF fires
    <3> QED
      BY <1>1, <3>1
  <2> QED
    BY <2>1, <2>2, <2>3 DEF Judgement
<1> HIDE DEF judged, j
<1> QED
  BY <1>5, <1>11, <1>12, <1>13 DEF j

-----------------------------------------------------------------------------
(* Judging them all *)

\* The engine has its shape.
EngineOk ==
  /\ RulesOk(rules)
  /\ lastFire \in [Ids -> Ages] /\ firedRun \in [Ids -> BOOLEAN]
  /\ heldFor \in [Ids -> Ages \cup {NotHeld}]

Before == [last |-> lastFire, ran |-> firedRun, held |-> heldFor, fired |-> << >>]

\* The pass over the rules is what its equations say, step by step.
LEMMA JudgedIs ==
  ASSUME EngineOk, NEW snap
  PROVE  /\ Judged(snap) \in [0 .. Len(rules) -> Judgement(Len(rules))]
         /\ Judged(snap)[0] = Before
         /\ \A i \in 1 .. Len(rules) : Judged(snap)[i] = Judge(Judged(snap)[i - 1], rules[i], i, snap)
<1>1. PICK n \in Nat : n = Len(rules) /\ \A i \in 1 .. n : RuleOk(rules[i])
  <2>1. Len(rules) \in Nat /\ \A i \in 1 .. Len(rules) : RuleOk(rules[i])
    BY DEF EngineOk, RulesOk
  <2> QED
    BY <2>1
<1> DEFINE S == Judgement(n)
<1>2. Before \in S
  <2>1. << >> \in Seq(1 .. n)
    OBVIOUS
  <2> QED
    BY <2>1 DEF Before, Judgement, EngineOk
<1>3. \A s \in S, i \in 1 .. n : Judge(s, rules[i], i, snap) \in S
  <2> SUFFICES ASSUME NEW s \in S, NEW i \in 1 .. n
               PROVE  Judge(s, rules[i], i, snap) \in S
    OBVIOUS
  <2>1. RuleOk(rules[i])
    BY <1>1
  <2> QED
    BY <2>1, JudgeIs
<1> HIDE DEF S
<1>4. \E f \in [0 .. n -> S] :
        f[0] = Before /\ \A i \in 1 .. n : f[i] = Judge(f[i - 1], rules[i], i, snap)
  <2>1. PICK g : g = [i \in 1 .. n |-> [s \in S |-> Judge(s, rules[i], i, snap)]]
    OBVIOUS
  <2>2. g \in [1 .. n -> [S -> S]]
    BY <1>3, <2>1
  <2> HIDE DEF S
  <2>0. PICK b \in S : b = Before
    BY <1>2
  <2>3a. \E f \in [0 .. n -> S] : Steps(f, n, b, g)
    BY <2>2, StepsExist, Zenon
  <2>3. PICK f \in [0 .. n -> S] : f[0] = b /\ \A i \in 1 .. n : f[i] = g[i][f[i - 1]]
    BY <2>3a DEF Steps
  <2>4. ASSUME NEW i \in 1 .. n
        PROVE  f[i] = Judge(f[i - 1], rules[i], i, snap)
    <3>1. i - 1 \in 0 .. n
      OBVIOUS
    <3>2. f[i - 1] \in S
      BY <2>3, <3>1
    <3> QED
      BY <2>1, <2>3, <3>2
  <2> QED
    BY <2>0, <2>3, <2>4
<1>5. \E f : f = [i \in 0 .. n |-> IF i = 0 THEN Before ELSE Judge(f[i - 1], rules[i], i, snap)]
  <2>1. PICK f \in [0 .. n -> S] :
          f[0] = Before /\ \A i \in 1 .. n : f[i] = Judge(f[i - 1], rules[i], i, snap)
    BY <1>4
  <2>2. f = [i \in 0 .. n |-> f[i]]
    BY <2>1
  <2>3. ASSUME NEW i \in 0 .. n
        PROVE  f[i] = IF i = 0 THEN Before ELSE Judge(f[i - 1], rules[i], i, snap)
    <3>1. i = 0 \/ i \in 1 .. n
      OBVIOUS
    <3>2. CASE i = 0
      BY <2>1, <3>2
    <3>3. CASE i # 0
      BY <2>1, <3>1, <3>3
    <3> QED
      BY <3>2, <3>3
  <2> QED
    BY <2>2, <2>3
<1>6. Judged(snap) = CHOOSE f : f = [i \in 0 .. n |-> IF i = 0 THEN Before
                                                     ELSE Judge(f[i - 1], rules[i], i, snap)]
  BY <1>1 DEF Judged, Before
<1>7. PICK f : /\ f = Judged(snap)
               /\ f = [i \in 0 .. n |-> IF i = 0 THEN Before ELSE Judge(f[i - 1], rules[i], i, snap)]
  BY <1>5, <1>6, Zenon
<1>8. f[0] = Before /\ \A i \in 1 .. n : f[i] = Judge(f[i - 1], rules[i], i, snap)
  <2>1. 0 \in 0 .. n /\ \A i \in 1 .. n : i \in 0 .. n /\ i # 0
    OBVIOUS
  <2> QED
    BY <1>7, <2>1
<1>9. f \in [0 .. n -> S]
  <2> DEFINE T == {i \in 0 .. n : f[i] \in S}
  <2>1. 0 \in T
    BY <1>2, <1>8
  <2>2. ASSUME NEW i \in 0 .. n - 1, i \in T
        PROVE  i + 1 \in T
    <3>1. i + 1 \in 1 .. n /\ i + 1 - 1 = i /\ i + 1 \in 0 .. n
      OBVIOUS
    <3>2. f[i + 1] = Judge(f[i], rules[i + 1], i + 1, snap)
      BY <1>8, <3>1
    <3> QED
      BY <1>3, <2>2, <3>1, <3>2
  <2> HIDE DEF T
  <2>3. \A i \in 0 .. n : i \in T
    BY <2>1, <2>2, StepsReach
  <2>4. \A i \in 0 .. n : f[i] \in S
    BY <2>3 DEF T
  <2>5. DOMAIN f = 0 .. n /\ f = [i \in 0 .. n |-> f[i]]
    BY <1>7
  <2> QED
    BY <2>4, <2>5
<1> QED
  BY <1>1, <1>7, <1>8, <1>9 DEF S

\* What the pass leaves of rule i: its own judgement, of what was before.
JudgedAt(i, snap, s) ==
  LET r == rules[i]
      l == lastFire[r.id]
      x == firedRun[r.id]
      h == heldFor[r.id]
  IN  /\ s.last[r.id] = NewLast(r, snap, l, x, h)
      /\ s.ran[r.id] = NewRan(r, snap, l, x, h)
      /\ s.held[r.id] = NewHeld(r, snap, h)
      /\ i \in ToSet(s.fired) <=> FiresOn(r, snap, l, x, h)

UntouchedAt(i, s) ==
  LET r == rules[i]
  IN  /\ s.last[r.id] = lastFire[r.id] /\ s.ran[r.id] = firedRun[r.id]
      /\ s.held[r.id] = heldFor[r.id] /\ i \notin ToSet(s.fired)

\* No rule has a say in the judgement of another.
LEMMA EvaluateIs ==
  ASSUME EngineOk, NEW snap
  PROVE  /\ Evaluate(snap) \in Judgement(Len(rules))
         /\ \A i \in 1 .. Len(rules) : JudgedAt(i, snap, Evaluate(snap))
<1>1. PICK n \in Nat : /\ n = Len(rules) /\ \A i \in 1 .. n : RuleOk(rules[i])
                       /\ \A i, j \in 1 .. n : rules[i].id = rules[j].id => i = j
  <2>1. Len(rules) \in Nat /\ \A i \in 1 .. Len(rules) : RuleOk(rules[i])
    BY DEF EngineOk, RulesOk
  <2>2. \A i, j \in 1 .. Len(rules) : rules[i].id = rules[j].id => i = j
    BY DEF EngineOk, RulesOk
  <2> QED
    BY <2>1, <2>2
<1>2. PICK f : /\ f = Judged(snap) /\ f \in [0 .. n -> Judgement(n)] /\ f[0] = Before
               /\ \A i \in 1 .. n : f[i] = Judge(f[i - 1], rules[i], i, snap)
  BY <1>1, JudgedIs
<1> DEFINE T == {k \in 0 .. n : \A i \in 1 .. n : IF i <= k THEN JudgedAt(i, snap, f[k])
                                                  ELSE UntouchedAt(i, f[k])}
<1>3. 0 \in T
  <2>1. \A i \in 1 .. n : ~(i <= 0)
    OBVIOUS
  <2>2. ToSet(<< >>) = {}
    BY DEF ToSet
  <2>3. \A i \in 1 .. n : UntouchedAt(i, f[0])
    BY <1>2, <2>2 DEF Before, UntouchedAt
  <2>4. 0 \in 0 .. n
    OBVIOUS
  <2> QED
    BY <2>1, <2>3, <2>4
<1>4. ASSUME NEW k \in 0 .. n - 1, k \in T
      PROVE  k + 1 \in T
  <2>1. PICK m \in 1 .. n : m = k + 1
    OBVIOUS
  <2>2. m - 1 = k /\ m \in 0 .. n /\ k \in 0 .. n
    BY <2>1
  <2>3. PICK s \in Judgement(n), t \in Judgement(n) : s = f[k] /\ t = f[m]
    BY <1>2, <2>2
  <2>4. t = Judge(s, rules[m], m, snap)
    BY <1>2, <2>2, <2>3
  <2>5. \A i \in 1 .. n : IF i <= k THEN JudgedAt(i, snap, s) ELSE UntouchedAt(i, s)
    BY <1>4, <2>3
  <2>6. UntouchedAt(m, s)
    BY <2>1, <2>5
  <2>7. PICK r, l, x, h : /\ r = rules[m] /\ l = lastFire[r.id] /\ x = firedRun[r.id]
                          /\ h = heldFor[r.id]
    OBVIOUS
  <2>8. s.last[r.id] = l /\ s.ran[r.id] = x /\ s.held[r.id] = h /\ m \notin ToSet(s.fired)
    BY <2>6, <2>7 DEF UntouchedAt
  <2>9. /\ t \in Judgement(n)
        /\ t.last = [s.last EXCEPT ![r.id] = NewLast(r, snap, l, x, h)]
        /\ t.ran = [s.ran EXCEPT ![r.id] = NewRan(r, snap, l, x, h)]
        /\ t.held = [s.held EXCEPT ![r.id] = NewHeld(r, snap, h)]
        /\ t.fired = IF FiresOn(r, snap, l, x, h) THEN Append(s.fired, m) ELSE s.fired
    BY <1>1, <2>4, <2>7, <2>8, JudgeIs
  <2>10. /\ s.last \in [Ids -> Ages] /\ s.ran \in [Ids -> BOOLEAN]
         /\ s.held \in [Ids -> Ages \cup {NotHeld}] /\ s.fired \in Seq(1 .. n)
    BY DEF Judgement
  <2>11. ToSet(Append(s.fired, m)) = ToSet(s.fired) \cup {m}
    <3>1. PICK c \in Nat : c = Len(s.fired) /\ DOMAIN s.fired = 1 .. c
      BY <2>10
    <3>2. PICK q : q = Append(s.fired, m)
      OBVIOUS
    <3>3. DOMAIN q = 1 .. c + 1 /\ \A j \in 1 .. c + 1 : q[j] = IF j <= c THEN s.fired[j] ELSE m
      BY <2>10, <3>1, <3>2
    <3>4. ToSet(q) = ToSet(s.fired) \cup {m}
      BY <3>1, <3>3 DEF ToSet
    <3> QED
      BY <3>2, <3>4
  <2>12. r.id \in Ids /\ \A i \in 1 .. n : rules[i].id \in Ids /\ (rules[i].id = r.id => i = m)
    BY <1>1, <2>7 DEF RuleOk
  <2>13. JudgedAt(m, snap, t)
    <3>1. /\ t.last[r.id] = NewLast(r, snap, l, x, h) /\ t.ran[r.id] = NewRan(r, snap, l, x, h)
          /\ t.held[r.id] = NewHeld(r, snap, h)
      BY <2>9, <2>10, <2>12
    <3>2. m \in ToSet(t.fired) <=> FiresOn(r, snap, l, x, h)
      BY <2>8, <2>9, <2>11
    <3> QED
      BY <2>7, <3>1, <3>2 DEF JudgedAt
  <2>14. ASSUME NEW i \in 1 .. n, i # m
         PROVE  /\ t.last[rules[i].id] = s.last[rules[i].id]
                /\ t.ran[rules[i].id] = s.ran[rules[i].id]
                /\ t.held[rules[i].id] = s.held[rules[i].id]
                /\ i \in ToSet(t.fired) <=> i \in ToSet(s.fired)
    <3>1. rules[i].id # r.id /\ rules[i].id \in Ids
      BY <2>12, <2>14
    <3>2. /\ t.last[rules[i].id] = s.last[rules[i].id]
          /\ t.ran[rules[i].id] = s.ran[rules[i].id]
          /\ t.held[rules[i].id] = s.held[rules[i].id]
      BY <2>9, <2>10, <3>1
    <3>3. i \in ToSet(t.fired) <=> i \in ToSet(s.fired)
      BY <2>9, <2>11, <2>14
    <3> QED
      BY <3>2, <3>3
  <2>15. ASSUME NEW i \in 1 .. n
         PROVE  IF i <= m THEN JudgedAt(i, snap, t) ELSE UntouchedAt(i, t)
    <3>1. CASE i = m
      BY <2>13, <3>1
    <3>2. CASE i < m
      <4>1. i <= k /\ i # m /\ i <= m
        BY <2>1, <3>2
      <4>2. JudgedAt(i, snap, s)
        BY <2>5, <4>1
      <4>3. JudgedAt(i, snap, t)
        BY <2>14, <4>1, <4>2 DEF JudgedAt
      <4> QED
        BY <4>1, <4>3
    <3>3. CASE i > m
      <4>1. ~(i <= k) /\ i # m /\ ~(i <= m)
        BY <2>1, <3>3
      <4>2. UntouchedAt(i, s)
        BY <2>5, <4>1
      <4>3. UntouchedAt(i, t)
        BY <2>14, <4>1, <4>2 DEF UntouchedAt
      <4> QED
        BY <4>1, <4>3
    <3> QED
      BY <3>1, <3>2, <3>3
  <2> QED
    BY <2>1, <2>2, <2>3, <2>15
<1> HIDE DEF T
<1>5. \A k \in 0 .. n : k \in T
  BY <1>3, <1>4, StepsReach
<1>6. n \in T /\ n \in 0 .. n
  BY <1>5
<1>7. f[n] \in Judgement(n) /\ \A i \in 1 .. n : JudgedAt(i, snap, f[n])
  BY <1>2, <1>6 DEF T
<1>8. Evaluate(snap) = f[n]
  BY <1>1, <1>2 DEF Evaluate
<1> QED
  BY <1>1, <1>7, <1>8

-----------------------------------------------------------------------------
(* The gate *)

Writes == [kind : {"gpio_write"}, pin : Pins, value : 0 .. 1]
Gate == [age : [Pins -> Ages], level : [Pins -> 0 .. 1], drove : Seq(Writes)]

PolicyOk(p) == p.pins \subseteq Pins /\ p.lo \in Int /\ p.hi \in Int /\ p.gap \in 0 .. AgeCap

GateOk ==
  /\ PolicyOk(policy)
  /\ gateAge \in [Pins -> Ages] /\ driveAge \in [Pins -> Ages]
  /\ pinLevel \in [Pins -> 0 .. 1]
  /\ \A p \in Pins : gateAge[p] <= driveAge[p]

\* One action: nothing, a write that the pin fails at, or one that drives it.
LEMMA PerformIs ==
  ASSUME GateOk, NEW g \in Gate, NEW act \in Acts, NEW faulty
  PROVE  LET e == Perform(g, act, faulty)
         IN  \/ e = g
             \/ /\ act \in Writes /\ Admits(g, act) /\ e \in Gate
                /\ e.age = IF policy.gap > 0 THEN [g.age EXCEPT ![act.pin] = 0] ELSE g.age
                /\ \/ e.level = g.level /\ e.drove = g.drove
                   \/ /\ e.level = [g.level EXCEPT ![act.pin] = act.value]
                      /\ e.drove = Append(g.drove, act)
<1> DEFINE e == Perform(g, act, faulty)
<1>1. /\ g = [age |-> g.age, level |-> g.level, drove |-> g.drove]
      /\ g.age \in [Pins -> Ages] /\ g.level \in [Pins -> 0 .. 1] /\ g.drove \in Seq(Writes)
  BY DEF Gate
<1>2. CASE act.kind # "gpio_write"
  BY <1>2 DEF Perform
<1>3. CASE act.kind = "gpio_write" /\ ~Admits(g, act)
  BY <1>3 DEF Perform, GpioWrite
<1>4. CASE act.kind = "gpio_write" /\ Admits(g, act)
  <2>1. act \in Writes /\ act.pin \in Pins /\ act.value \in 0 .. 1
    BY <1>4 DEF Acts, Writes, Escalate, Nothing
  <2>2. PICK age : age = IF policy.gap > 0 THEN [g.age EXCEPT ![act.pin] = 0] ELSE g.age
    OBVIOUS
  <2>3. age \in [Pins -> Ages]
    <3>1. 0 \in Ages
      BY TimesAssumption DEF Ages
    <3>2. [g.age EXCEPT ![act.pin] = 0] \in [Pins -> Ages]
      BY <1>1, <3>1
    <3> QED
      BY <1>1, <2>2, <3>2
  <2>4. PICK passed : passed = [g EXCEPT !.age[act.pin] = IF policy.gap > 0 THEN 0 ELSE @]
    OBVIOUS
  <2>5. passed = [age |-> age, level |-> g.level, drove |-> g.drove]
    <3>1. CASE policy.gap > 0
      BY <1>1, <2>2, <2>4, <3>1
    <3>2. CASE ~(policy.gap > 0)
      <4>1. [g.age EXCEPT ![act.pin] = g.age[act.pin]] = g.age
        BY <1>1
      <4>2. passed = [g EXCEPT !.age[act.pin] = g.age[act.pin]]
        BY <1>1, <2>4, <3>2
      <4>3. passed = [age |-> [g.age EXCEPT ![act.pin] = g.age[act.pin]], level |-> g.level, drove |-> g.drove]
        BY <1>1, <4>2
      <4> QED
        BY <2>2, <3>2, <4>1, <4>3
    <3> QED
      BY <3>1, <3>2
  <2>6. e = IF act.pin \in faulty THEN passed
            ELSE [passed EXCEPT !.level[act.pin] = act.value, !.drove = Append(@, act)]
    BY <1>4, <2>4 DEF Perform, GpioWrite
  <2>7. CASE act.pin \in faulty
    <3>1. e = [age |-> age, level |-> g.level, drove |-> g.drove]
      BY <2>5, <2>6, <2>7
    <3> HIDE DEF e
    <3>2. e.age = age /\ e.level = g.level /\ e.drove = g.drove /\ e \in Gate
      BY <1>1, <2>3, <3>1 DEF Gate
    <3> QED
      BY <1>4, <2>1, <2>2, <3>2 DEF e
  <2>8. CASE act.pin \notin faulty
    <3>1. e = [age |-> age, level |-> [g.level EXCEPT ![act.pin] = act.value],
               drove |-> Append(g.drove, act)]
      BY <2>5, <2>6, <2>8
    <3>2. [g.level EXCEPT ![act.pin] = act.value] \in [Pins -> 0 .. 1] /\ Append(g.drove, act) \in Seq(Writes)
      BY <1>1, <2>1
    <3> HIDE DEF e
    <3>3. /\ e.age = age /\ e.level = [g.level EXCEPT ![act.pin] = act.value]
          /\ e.drove = Append(g.drove, act) /\ e \in Gate
      BY <2>3, <3>1, <3>2 DEF Gate
    <3> QED
      BY <1>4, <2>1, <2>2, <3>3 DEF e
  <2> QED
    BY <2>7, <2>8
<1> QED
  BY <1>2, <1>3, <1>4

Pulse == [age |-> gateAge, level |-> pinLevel, drove |-> << >>]

\* The actions of a step, one by one.
LEMMA PerformedIs ==
  ASSUME GateOk, NEW acts \in Seq(Acts), NEW faulty
  PROVE  /\ Performed(acts, faulty) \in [0 .. Len(acts) -> Gate]
         /\ Performed(acts, faulty)[0] = Pulse
         /\ \A i \in 1 .. Len(acts) :
              Performed(acts, faulty)[i] = Perform(Performed(acts, faulty)[i - 1], acts[i], faulty)
<1>1. PICK n \in Nat : n = Len(acts) /\ \A i \in 1 .. n : acts[i] \in Acts
  <2>1. Len(acts) \in Nat /\ \A i \in 1 .. Len(acts) : acts[i] \in Acts
    OBVIOUS
  <2> QED
    BY <2>1
<1>2. Pulse \in Gate
  BY DEF Pulse, Gate, GateOk
<1>3. \A g \in Gate, i \in 1 .. n : Perform(g, acts[i], faulty) \in Gate
  BY <1>1, PerformIs
<1>4. \E f \in [0 .. n -> Gate] :
        f[0] = Pulse /\ \A i \in 1 .. n : f[i] = Perform(f[i - 1], acts[i], faulty)
  <2>1. PICK g : g = [i \in 1 .. n |-> [s \in Gate |-> Perform(s, acts[i], faulty)]]
    OBVIOUS
  <2>2. g \in [1 .. n -> [Gate -> Gate]]
    BY <1>3, <2>1
  <2>3. PICK b \in Gate : b = Pulse
    BY <1>2
  <2>4. \E f \in [0 .. n -> Gate] : Steps(f, n, b, g)
    BY <2>2, StepsExist, Zenon
  <2>5. PICK f \in [0 .. n -> Gate] : f[0] = b /\ \A i \in 1 .. n : f[i] = g[i][f[i - 1]]
    BY <2>4 DEF Steps
  <2>6. ASSUME NEW i \in 1 .. n
        PROVE  f[i] = Perform(f[i - 1], acts[i], faulty)
    <3>1. i - 1 \in 0 .. n
      OBVIOUS
    <3>2. f[i - 1] \in Gate
      BY <2>5, <3>1
    <3> QED
      BY <2>1, <2>5, <3>2
  <2> QED
    BY <2>3, <2>5, <2>6
<1>5. \E f : f = [i \in 0 .. n |-> IF i = 0 THEN Pulse ELSE Perform(f[i - 1], acts[i], faulty)]
  <2>1. PICK f \in [0 .. n -> Gate] :
          f[0] = Pulse /\ \A i \in 1 .. n : f[i] = Perform(f[i - 1], acts[i], faulty)
    BY <1>4
  <2>2. f = [i \in 0 .. n |-> f[i]]
    BY <2>1
  <2>3. ASSUME NEW i \in 0 .. n
        PROVE  f[i] = IF i = 0 THEN Pulse ELSE Perform(f[i - 1], acts[i], faulty)
    <3>1. i = 0 \/ i \in 1 .. n
      OBVIOUS
    <3>2. CASE i = 0
      BY <2>1, <3>2
    <3>3. CASE i # 0
      BY <2>1, <3>1, <3>3
    <3> QED
      BY <3>2, <3>3
  <2> QED
    BY <2>2, <2>3
<1>6. Performed(acts, faulty) =
        CHOOSE f : f = [i \in 0 .. n |-> IF i = 0 THEN Pulse ELSE Perform(f[i - 1], acts[i], faulty)]
  BY <1>1 DEF Performed, Pulse
<1>7. PICK f : /\ f = Performed(acts, faulty)
               /\ f = [i \in 0 .. n |-> IF i = 0 THEN Pulse ELSE Perform(f[i - 1], acts[i], faulty)]
  BY <1>5, <1>6, Zenon
<1>8. f[0] = Pulse /\ \A i \in 1 .. n : f[i] = Perform(f[i - 1], acts[i], faulty)
  <2>1. 0 \in 0 .. n /\ \A i \in 1 .. n : i \in 0 .. n /\ i # 0
    OBVIOUS
  <2> QED
    BY <1>7, <2>1
<1>9. f \in [0 .. n -> Gate]
  <2> DEFINE T == {i \in 0 .. n : f[i] \in Gate}
  <2>1. 0 \in T
    BY <1>2, <1>8
  <2>2. ASSUME NEW i \in 0 .. n - 1, i \in T
        PROVE  i + 1 \in T
    <3>1. i + 1 \in 1 .. n /\ i + 1 - 1 = i /\ i + 1 \in 0 .. n
      OBVIOUS
    <3>2. f[i + 1] = Perform(f[i], acts[i + 1], faulty)
      BY <1>8, <3>1
    <3> QED
      BY <1>3, <2>2, <3>1, <3>2
  <2> HIDE DEF T
  <2>3. \A i \in 0 .. n : i \in T
    BY <2>1, <2>2, StepsReach
  <2>4. \A i \in 0 .. n : f[i] \in Gate
    BY <2>3 DEF T
  <2>5. f = [i \in 0 .. n |-> f[i]]
    BY <1>7
  <2> QED
    BY <2>4, <2>5
<1> QED
  BY <1>1, <1>7, <1>8, <1>9

\* What the actions so far have done: only pins of the policy moved, only
\* values of it were driven; under an interval each pin was driven at most
\* once, and only if the interval had passed.
RunsInLimits(g) ==
  /\ \A p \in Pins : g.age[p] <= gateAge[p]
  /\ \A p \in Pins : g.level[p] # pinLevel[p] => p \in policy.pins
  /\ \A k \in DOMAIN g.drove :
       /\ g.drove[k].pin \in policy.pins /\ g.drove[k].value \in policy.lo .. policy.hi
       /\ policy.gap > 0 => /\ gateAge[g.drove[k].pin] >= policy.gap
                            /\ g.age[g.drove[k].pin] = 0
  /\ policy.gap > 0 => \A j, k \in DOMAIN g.drove : g.drove[j].pin = g.drove[k].pin => j = k

\* Another action leaves that true.
LEMMA PerformKeepsLimits ==
  ASSUME GateOk, NEW g \in Gate, RunsInLimits(g), NEW act \in Acts, NEW faulty
  PROVE  RunsInLimits(Perform(g, act, faulty))
<1>1. PICK e : e = Perform(g, act, faulty)
  OBVIOUS
<1>2. CASE e = g
  BY <1>1, <1>2
<1>3. CASE /\ act \in Writes /\ Admits(g, act) /\ e \in Gate
           /\ e.age = IF policy.gap > 0 THEN [g.age EXCEPT ![act.pin] = 0] ELSE g.age
  <2>1. PICK w \in Pins, v \in 0 .. 1 : w = act.pin /\ v = act.value
    BY <1>3 DEF Writes
  <2>2. /\ g.age \in [Pins -> Ages] /\ g.level \in [Pins -> 0 .. 1] /\ g.drove \in Seq(Writes)
        /\ gateAge \in [Pins -> Ages] /\ pinLevel \in [Pins -> 0 .. 1]
        /\ policy.gap \in 0 .. AgeCap
    BY DEF Gate, GateOk, PolicyOk
  <2>3. w \in policy.pins /\ v \in policy.lo .. policy.hi /\ (policy.gap > 0 => g.age[w] >= policy.gap)
    BY <1>3, <2>1 DEF Admits
  <2>4. ASSUME NEW p \in Pins
        PROVE  /\ e.age[p] = IF policy.gap > 0 /\ p = w THEN 0 ELSE g.age[p]
               /\ e.age[p] <= gateAge[p] /\ g.age[p] \in Nat /\ gateAge[p] \in Nat
    <3>1. e.age[p] = IF policy.gap > 0 /\ p = w THEN 0 ELSE g.age[p]
      BY <1>3, <2>1, <2>2
    <3>2. g.age[p] <= gateAge[p]
      BY DEF RunsInLimits
    <3>3. g.age[p] \in Nat /\ gateAge[p] \in Nat
      BY <2>2, TimesAssumption DEF Ages
    <3> QED
      BY <3>1, <3>2, <3>3
  <2>5. PICK c \in Nat : c = Len(g.drove) /\ DOMAIN g.drove = 1 .. c
    BY <2>2
  <2>6. ASSUME NEW k \in 1 .. c
        PROVE  /\ g.drove[k].pin \in Pins
               /\ g.drove[k].pin \in policy.pins /\ g.drove[k].value \in policy.lo .. policy.hi
               /\ policy.gap > 0 => /\ gateAge[g.drove[k].pin] >= policy.gap
                                    /\ g.age[g.drove[k].pin] = 0
    <3>1. g.drove[k] \in Writes
      BY <2>2, <2>5
    <3> QED
      BY <2>5, <3>1 DEF RunsInLimits, Writes
  <2>7. policy.gap > 0 => \A k \in 1 .. c : g.drove[k].pin # w
    BY <2>2, <2>3, <2>6
  <2>8. CASE e.level = g.level /\ e.drove = g.drove
    <3>1. \A p \in Pins : e.level[p] # pinLevel[p] => p \in policy.pins
      BY <2>8 DEF RunsInLimits
    <3>2. \A k \in DOMAIN e.drove :
            /\ e.drove[k].pin \in policy.pins /\ e.drove[k].value \in policy.lo .. policy.hi
            /\ policy.gap > 0 => /\ gateAge[e.drove[k].pin] >= policy.gap
                                 /\ e.age[e.drove[k].pin] = 0
      BY <2>4, <2>5, <2>6, <2>7, <2>8
    <3>3. policy.gap > 0 => \A j, k \in DOMAIN e.drove : e.drove[j].pin = e.drove[k].pin => j = k
      BY <2>8 DEF RunsInLimits
    <3> QED
      BY <1>1, <2>4, <3>1, <3>2, <3>3 DEF RunsInLimits
  <2>9. CASE /\ e.level = [g.level EXCEPT ![act.pin] = act.value]
             /\ e.drove = Append(g.drove, act)
    <3>1. \A p \in Pins : e.level[p] # pinLevel[p] => p \in policy.pins
      BY <2>1, <2>2, <2>3, <2>9 DEF RunsInLimits
    <3>2. DOMAIN e.drove = 1 .. c + 1 /\ \A k \in 1 .. c + 1 : e.drove[k] = IF k <= c THEN g.drove[k] ELSE act
      BY <2>2, <2>5, <2>9
    <3>3. ASSUME NEW k \in 1 .. c + 1
          PROVE  /\ e.drove[k].pin \in policy.pins /\ e.drove[k].value \in policy.lo .. policy.hi
                 /\ policy.gap > 0 => /\ gateAge[e.drove[k].pin] >= policy.gap
                                      /\ e.age[e.drove[k].pin] = 0
      <4>1. CASE k <= c
        <5>1. k \in 1 .. c /\ e.drove[k] = g.drove[k]
          BY <3>2, <4>1
        <5> QED
          BY <2>4, <2>6, <2>7, <5>1
      <4>2. CASE ~(k <= c)
        <5>1. e.drove[k].pin = w /\ e.drove[k].value = v
          BY <2>1, <3>2, <4>2
        <5>2. policy.gap > 0 => gateAge[w] >= policy.gap
          <6>1. g.age[w] <= gateAge[w] /\ g.age[w] \in Nat /\ gateAge[w] \in Nat
            BY <2>4 DEF RunsInLimits
          <6> QED
            BY <2>2, <2>3, <6>1
        <5> QED
          BY <2>3, <2>4, <5>1, <5>2
      <4> QED
        BY <4>1, <4>2
    <3>4. ASSUME policy.gap > 0, NEW j \in 1 .. c + 1, NEW k \in 1 .. c + 1,
                 e.drove[j].pin = e.drove[k].pin
          PROVE  j = k
      <4>1. CASE j <= c /\ k <= c
        <5>1. j \in 1 .. c /\ k \in 1 .. c /\ e.drove[j] = g.drove[j] /\ e.drove[k] = g.drove[k]
          BY <3>2, <4>1
        <5> QED
          BY <2>5, <3>4, <5>1 DEF RunsInLimits
      <4>2. CASE j <= c /\ ~(k <= c)
        <5>1. j \in 1 .. c /\ e.drove[j] = g.drove[j] /\ e.drove[k].pin = w
          BY <2>1, <3>2, <4>2
        <5> QED
          BY <2>7, <3>4, <5>1
      <4>3. CASE ~(j <= c) /\ k <= c
        <5>1. k \in 1 .. c /\ e.drove[k] = g.drove[k] /\ e.drove[j].pin = w
          BY <2>1, <3>2, <4>3
        <5> QED
          BY <2>7, <3>4, <5>1
      <4>4. CASE ~(j <= c) /\ ~(k <= c)
        BY <4>4
      <4> QED
        BY <4>1, <4>2, <4>3, <4>4
    <3> QED
      BY <1>1, <2>4, <3>1, <3>2, <3>3, <3>4 DEF RunsInLimits
  <2>10. \/ e.level = g.level /\ e.drove = g.drove
         \/ /\ e.level = [g.level EXCEPT ![act.pin] = act.value]
            /\ e.drove = Append(g.drove, act)
         \/ e = g
    BY <1>1, PerformIs
  <2> QED
    BY <1>2, <2>8, <2>9, <2>10
<1> QED
  BY <1>1, <1>2, <1>3, PerformIs

\* The actions of one step, whoever asked for them.
LEMMA ActuateIs ==
  ASSUME GateOk, NEW acts \in Seq(Acts), NEW faulty, Actuate(acts, faulty)
  PROVE  /\ policy' = policy /\ told' = told
         /\ GateOk'
         /\ drove' \in Seq(Writes)
         /\ \A p \in Pins : pinLevel'[p] # pinLevel[p] => p \in policy.pins
         /\ \A k \in DOMAIN drove' :
              /\ drove'[k].pin \in policy.pins /\ drove'[k].value \in policy.lo .. policy.hi
              /\ policy.gap > 0 =>
                   /\ driveAge[drove'[k].pin] >= policy.gap
                   /\ \A j \in DOMAIN drove' : drove'[j].pin = drove'[k].pin => j = k
<1>1. PICK n \in Nat : n = Len(acts) /\ \A i \in 1 .. n : acts[i] \in Acts
  <2>1. Len(acts) \in Nat /\ \A i \in 1 .. Len(acts) : acts[i] \in Acts
    OBVIOUS
  <2> QED
    BY <2>1
<1>2. PICK f : /\ f = Performed(acts, faulty) /\ f \in [0 .. n -> Gate] /\ f[0] = Pulse
               /\ \A i \in 1 .. n : f[i] = Perform(f[i - 1], acts[i], faulty)
  BY <1>1, PerformedIs
<1>3. GateOk /\ policy.gap \in 0 .. AgeCap /\ gateAge \in [Pins -> Ages] /\ driveAge \in [Pins -> Ages]
  BY DEF GateOk, PolicyOk
<1> DEFINE T == {i \in 0 .. n : RunsInLimits(f[i])}
<1>4. 0 \in T
  <2>1. \A p \in Pins : gateAge[p] \in Nat
    BY <1>3, TimesAssumption DEF Ages
  <2>2. DOMAIN << >> = {}
    OBVIOUS
  <2>3. RunsInLimits(Pulse)
    BY <2>1, <2>2 DEF RunsInLimits, Pulse
  <2>4. 0 \in 0 .. n
    OBVIOUS
  <2> QED
    BY <1>2, <2>3, <2>4
<1>5. ASSUME NEW i \in 0 .. n - 1, i \in T
      PROVE  i + 1 \in T
  <2>1. PICK m \in 1 .. n : m = i + 1
    OBVIOUS
  <2>2. m - 1 = i /\ m \in 0 .. n /\ i \in 0 .. n
    BY <2>1
  <2>3. PICK g \in Gate, act \in Acts : g = f[i] /\ act = acts[m]
    BY <1>1, <1>2, <2>2
  <2>4. f[m] = Perform(g, act, faulty) /\ RunsInLimits(g)
    BY <1>2, <1>5, <2>2, <2>3
  <2>5. RunsInLimits(f[m])
    BY <2>4, PerformKeepsLimits
  <2> QED
    BY <2>1, <2>2, <2>5
<1> HIDE DEF T
<1>6. \A i \in 0 .. n : i \in T
  BY <1>4, <1>5, StepsReach
<1>7. n \in T /\ n \in 0 .. n
  BY <1>6
<1>8. PICK end \in Gate : end = f[n]
  BY <1>2, <1>7
<1>9. RunsInLimits(end)
  BY <1>7, <1>8 DEF T
<1>10. end = Performed(acts, faulty)[Len(acts)]
  BY <1>1, <1>2, <1>8
<1>11. /\ gateAge' = end.age /\ pinLevel' = end.level /\ drove' = end.drove
       /\ driveAge' = [p \in Pins |-> IF policy.gap > 0 /\ \E w \in ToSet(end.drove) : w.pin = p
                                      THEN 0 ELSE driveAge[p]]
       /\ policy' = policy /\ told' = told
  BY <1>10 DEF Actuate
<1>12. end.age \in [Pins -> Ages] /\ end.level \in [Pins -> 0 .. 1] /\ end.drove \in Seq(Writes)
  BY DEF Gate
<1>13. ASSUME NEW p \in Pins
       PROVE  gateAge'[p] <= driveAge'[p] /\ driveAge'[p] \in Ages
  <2>1. end.age[p] <= gateAge[p] /\ gateAge[p] <= driveAge[p]
    BY <1>9, <1>3 DEF RunsInLimits, GateOk
  <2>2. end.age[p] \in Nat /\ gateAge[p] \in Nat /\ driveAge[p] \in Nat /\ 0 \in Ages
        /\ driveAge[p] \in Ages
    BY <1>3, <1>12, TimesAssumption DEF Ages
  <2>3. CASE policy.gap > 0 /\ \E w \in ToSet(end.drove) : w.pin = p
    <3>1. PICK k \in DOMAIN end.drove : end.drove[k].pin = p
      BY <2>3 DEF ToSet
    <3>2. end.age[p] = 0
      BY <1>9, <2>3, <3>1 DEF RunsInLimits
    <3> QED
      BY <1>11, <2>2, <2>3, <3>2
  <2>4. CASE ~(policy.gap > 0 /\ \E w \in ToSet(end.drove) : w.pin = p)
    BY <1>11, <2>1, <2>2, <2>4
  <2> QED
    BY <2>3, <2>4
<1>14. driveAge' \in [Pins -> Ages]
  BY <1>11, <1>13
<1>15. GateOk'
  BY <1>3, <1>11, <1>12, <1>13, <1>14 DEF GateOk, PolicyOk
<1>16. ASSUME NEW k \in DOMAIN end.drove
       PROVE  /\ end.drove[k].pin \in policy.pins /\ end.drove[k].value \in policy.lo .. policy.hi
              /\ policy.gap > 0 =>
                   /\ driveAge[end.drove[k].pin] >= policy.gap
                   /\ \A j \in DOMAIN end.drove : end.drove[j].pin = end.drove[k].pin => j = k
  <2>1. PICK p \in Pins : p = end.drove[k].pin
    <3>1. end.drove[k] \in Writes
      BY <1>12
    <3> QED
      BY <3>1 DEF Writes
  <2>2. gateAge[p] <= driveAge[p] /\ gateAge[p] \in Nat /\ driveAge[p] \in Nat
    BY <1>3, TimesAssumption DEF GateOk, Ages
  <2> QED
    BY <1>3, <1>9, <2>1, <2>2 DEF RunsInLimits
<1>17. \A p \in Pins : end.level[p] # pinLevel[p] => p \in policy.pins
  BY <1>9 DEF RunsInLimits
<1> QED
  BY <1>11, <1>12, <1>15, <1>16, <1>17

-----------------------------------------------------------------------------
(* The invariant *)

Policy == Policies \cup {DenyUntilTold}

\* How the engine's history, kept by rule id, and what a reader of the ticks
\* would note of each rule agree.
Agrees(i) ==
  LET r == rules[i]
  IN  /\ stood[i] = NotHeld \/ stood[i] \in 0 .. r.hold + ReflexInterval
      /\ r.hold > 0 =>
           /\ stood[i] = NotHeld <=> heldFor[r.id] = NotHeld
           /\ stood[i] # NotHeld =>
                \/ stood[i] = heldFor[r.id]
                \/ stood[i] = r.hold + ReflexInterval /\ heldFor[r.id] >= stood[i]
      /\ quiet[i] = lastFire[r.id]
      /\ r.edge => (spoke[i] <=> firedRun[r.id])
      /\ quiet[i] >= tickAge

\* What the flash holds is what this firmware would start from.
FlashAgrees ==
  kept => HostPart = IF nvs.firmware = firmware /\ Valid(nvs.rules) THEN nvs.rules ELSE << >>

RulesAre ==
  /\ HostPart \in HostSets
  /\ rules = WithDefaults(HostPart)

HistoryTypes ==
  /\ stood \in [DOMAIN rules -> Ages \cup {NotHeld}]
  /\ quiet \in [DOMAIN rules -> Ages] /\ spoke \in [DOMAIN rules -> BOOLEAN]

\* Until a host has told it otherwise the gate denies every pin, and no pin has
\* moved; what was driven last lay in the limits.
GateInv ==
  /\ GateOk
  /\ policy \in Policy /\ told \in BOOLEAN /\ (~told => policy = DenyUntilTold)
  /\ drove \in Seq(Writes)
  /\ ~told => \A p \in Pins : pinLevel[p] = 0
  /\ \A w \in ToSet(drove) : told /\ w.pin \in policy.pins /\ w.value \in policy.lo .. policy.hi

HistoryInv ==
  /\ RulesAre /\ EngineOk /\ HistoryTypes
  /\ \A i \in DOMAIN rules : Agrees(i)
  /\ StandingFires

NodeInv ==
  /\ GateInv
  /\ HistoryInv
  /\ levels \in [Slots -> {Unset, 0, 1}]
  /\ silence \in Ages /\ tickAge \in 0 .. ReflexInterval
  /\ nvs \in {NoRecord} \cup [firmware : Firmwares, rules : HostRules]
  /\ firmware \in Firmwares /\ kept \in BOOLEAN
  /\ FlashAgrees

\* Every policy has its shape, the one of a boot too.
LEMMA PolicyIsOk == \A p \in Policy : PolicyOk(p)
<1>1. \A p \in Policies : PolicyOk(p)
  BY PinsAssumption DEF PolicyOk
<1>2. PolicyOk(DenyUntilTold)
  BY TimesAssumption DEF PolicyOk, DenyUntilTold
<1> QED
  BY <1>1, <1>2 DEF Policy

\* The invariant is stronger than the two that are asked for.
LEMMA NodeInvIsTold == NodeInv => AuthorityIsTold /\ StandingFires
<1> SUFFICES ASSUME NodeInv PROVE AuthorityIsTold /\ StandingFires
  OBVIOUS
<1>1. NodeTypeOK
  BY DEF NodeInv, GateInv, HistoryInv, NodeTypeOK, RulesAre, HostSets, EngineOk, GateOk, HistoryTypes, Policy
<1> QED
  BY <1>1 DEF NodeInv, GateInv, HistoryInv, AuthorityIsTold

\* Ages grow by one, up to the cap.
LEMMA TimeFacts ==
  /\ ReflexInterval \in Nat /\ ReflexInterval > 0 /\ AgeCap \in Nat /\ ReflexInterval <= AgeCap
  /\ Ages = 0 .. AgeCap /\ NotHeld = -1
  /\ \A a \in Ages : Older(a) \in Ages /\ Older(a) >= a /\ Older(a) <= a + 1
                     /\ (a < AgeCap => Older(a) = a + 1)
BY TimesAssumption DEF Ages, NotHeld, Older

\* A rule set in force, armed: nothing stands and nothing has fired.
LEMMA FreshIsOk ==
  ASSUME NEW h \in HostSets, rules' = WithDefaults(h), Fresh(rules'), tickAge' \in 0 .. ReflexInterval
  PROVE  /\ EngineOk' /\ HistoryTypes' /\ \A i \in DOMAIN rules' : Agrees(i)'
         /\ StandingFires' /\ RulesAre' /\ HostPart' = h
<1>1. RulesOk(WithDefaults(h)) /\ HostOf(WithDefaults(h)) = h
  BY WithDefaultsAre
<1>2. HostPart' = h /\ RulesOk(rules)'
  <2>1. HostPart' = HostOf(rules')
    BY DEF HostPart, HostOf
  <2> QED
    BY <1>1, <2>1 DEF RulesOk
<1>3. RulesAre'
  BY <1>2 DEF RulesAre
<1>4. /\ lastFire' = [id \in Ids |-> AgeCap] /\ firedRun' = [id \in Ids |-> FALSE]
      /\ heldFor' = [id \in Ids |-> NotHeld]
      /\ stood' = [i \in DOMAIN rules' |-> NotHeld] /\ quiet' = [i \in DOMAIN rules' |-> AgeCap]
      /\ spoke' = [i \in DOMAIN rules' |-> FALSE]
  BY DEF Fresh
<1>5. AgeCap \in Ages
  BY TimeFacts
<1>6. EngineOk' /\ HistoryTypes'
  BY <1>2, <1>4, <1>5 DEF EngineOk, HistoryTypes
<1>7. ASSUME NEW i \in DOMAIN rules'
      PROVE  Agrees(i)' /\ FiredInTime(i)'
  <2>1. RuleOk(rules'[i])
    BY <1>1, <1>2 DEF RulesOk
  <2>2. rules'[i].id \in Ids
    BY <2>1 DEF RuleOk
  <2>3. /\ stood'[i] = NotHeld /\ quiet'[i] = AgeCap /\ spoke'[i] = FALSE
        /\ lastFire'[rules'[i].id] = AgeCap /\ firedRun'[rules'[i].id] = FALSE
        /\ heldFor'[rules'[i].id] = NotHeld
    BY <1>4, <2>2
  <2>4. tickAge' \in Nat /\ tickAge' <= AgeCap /\ AgeCap >= tickAge'
    BY TimeFacts
  <2>5. Agrees(i)'
    BY <2>3, <2>4 DEF Agrees
  <2>6. FiredInTime(i)'
    BY <2>3 DEF FiredInTime
  <2> QED
    BY <2>5, <2>6
<1> QED
  BY <1>2, <1>3, <1>6, <1>7 DEF StandingFires

\* A rule of the node has its shape.
LEMMA RuleFacts ==
  ASSUME EngineOk, NEW i \in DOMAIN rules
  PROVE  /\ rules[i].id \in Ids /\ rules[i].then \in Acts
         /\ rules[i].gap \in Nat /\ rules[i].edge \in BOOLEAN
         /\ rules[i].hold \in Nat /\ rules[i].hold + ReflexInterval <= AgeCap
<1>1. RuleOk(rules[i])
  BY DEF EngineOk, RulesOk
<1> QED
  BY <1>1, TimesAssumption DEF RuleOk

-----------------------------------------------------------------------------
(* The tick *)

\* What a tick makes of rule i: it fires of what stood, and leaves what stands.
TickAt(i, snap) ==
  LET r == rules[i]
      l == lastFire[r.id]
      x == firedRun[r.id]
      h == heldFor[r.id]
      holds == Holds(r.when, snap, levels)
      fires == FiresOn(r, snap, l, x, h)
  IN  /\ lastFire'[r.id] = NewLast(r, snap, l, x, h)
      /\ firedRun'[r.id] = NewRan(r, snap, l, x, h)
      /\ heldFor'[r.id] = NewHeld(r, snap, h)
      /\ stood'[i] = IF ~holds THEN NotHeld ELSE IF stood[i] = NotHeld THEN 0 ELSE stood[i]
      /\ quiet'[i] = IF fires THEN 0 ELSE quiet[i]
      /\ spoke'[i] = (holds /\ (fires \/ spoke[i]))

\* A tick judges every rule, and acts.
LEMMA TickIs ==
  ASSUME EngineOk, HistoryTypes, NEW reading, NEW faulty, Tick(reading, faulty)
  PROVE  /\ \E snap : \A i \in DOMAIN rules : TickAt(i, snap)
         /\ EngineOk' /\ HistoryTypes'
         /\ \E acts \in Seq(Acts) : Actuate(acts, faulty)
<1>1. PICK n \in Nat : /\ n = Len(rules) /\ DOMAIN rules = 1 .. n
                       /\ \A i \in 1 .. n : RuleOk(rules[i])
  <2>1. /\ Len(rules) \in Nat /\ DOMAIN rules = 1 .. Len(rules)
        /\ \A i \in 1 .. Len(rules) : RuleOk(rules[i])
    BY DEF EngineOk, RulesOk
  <2> QED
    BY <2>1
<1>2. PICK snap : snap = [e \in DOMAIN reading \cup {"silence"} |->
                            IF e = "silence" THEN silence ELSE reading[e]]
  OBVIOUS
<1>3. PICK end : end = Evaluate(snap)
  OBVIOUS
<1>4. /\ lastFire' = end.last /\ firedRun' = end.ran /\ heldFor' = end.held
      /\ Actuate(Actions(end.fired), faulty)
      /\ stood' = [i \in DOMAIN rules |-> IF ~Holds(rules[i].when, snap, levels) THEN NotHeld
                                          ELSE IF stood[i] = NotHeld THEN 0 ELSE stood[i]]
      /\ quiet' = [i \in DOMAIN rules |-> IF i \in ToSet(end.fired) THEN 0 ELSE quiet[i]]
      /\ spoke' = [i \in DOMAIN rules |->
                     Holds(rules[i].when, snap, levels) /\ (i \in ToSet(end.fired) \/ spoke[i])]
      /\ rules' = rules
  BY <1>2, <1>3 DEF Tick
<1>5. end \in Judgement(n) /\ \A i \in 1 .. n : JudgedAt(i, snap, end)
  BY <1>1, <1>3, EvaluateIs
<1>6. \A i \in DOMAIN rules : TickAt(i, snap)
  <2> SUFFICES ASSUME NEW i \in 1 .. n
               PROVE  TickAt(i, snap)
    BY <1>1
  <2>1. JudgedAt(i, snap, end)
    BY <1>5
  <2>2. /\ stood'[i] = IF ~Holds(rules[i].when, snap, levels) THEN NotHeld
                       ELSE IF stood[i] = NotHeld THEN 0 ELSE stood[i]
        /\ quiet'[i] = IF i \in ToSet(end.fired) THEN 0 ELSE quiet[i]
        /\ spoke'[i] = (Holds(rules[i].when, snap, levels) /\ (i \in ToSet(end.fired) \/ spoke[i]))
    BY <1>1, <1>4
  <2> DEFINE r == rules[i]
             fires == FiresOn(r, snap, lastFire[r.id], firedRun[r.id], heldFor[r.id])
  <2>3. i \in ToSet(end.fired) <=> fires
    BY <2>1 DEF JudgedAt
  <2>4. quiet'[i] = IF fires THEN 0 ELSE quiet[i]
    BY <2>2, <2>3
  <2>5. spoke'[i] = (Holds(r.when, snap, levels) /\ (fires \/ spoke[i]))
    <3>1. CASE fires
      BY <2>2, <2>3, <3>1, Zenon
    <3>2. CASE ~fires
      BY <2>2, <2>3, <3>2, Zenon
    <3> QED
      BY <3>1, <3>2
  <2>6. /\ lastFire'[r.id] = NewLast(r, snap, lastFire[r.id], firedRun[r.id], heldFor[r.id])
        /\ firedRun'[r.id] = NewRan(r, snap, lastFire[r.id], firedRun[r.id], heldFor[r.id])
        /\ heldFor'[r.id] = NewHeld(r, snap, heldFor[r.id])
    BY <1>4, <2>1 DEF JudgedAt
  <2> QED
    BY <2>2, <2>4, <2>5, <2>6, Zenon DEF TickAt
<1>7. EngineOk'
  BY <1>4, <1>5 DEF EngineOk, Judgement
<1>8. HistoryTypes'
  <2>1. 0 \in Ages
    BY TimeFacts
  <2>2. stood' \in [DOMAIN rules -> Ages \cup {NotHeld}]
    BY <1>4, <2>1 DEF HistoryTypes
  <2>3. quiet' \in [DOMAIN rules -> Ages]
    BY <1>4, <2>1 DEF HistoryTypes
  <2>4. spoke' \in [DOMAIN rules -> BOOLEAN]
    BY <1>4, Zenon
  <2> QED
    BY <1>4, <2>2, <2>3, <2>4 DEF HistoryTypes
<1>9. Actions(end.fired) \in Seq(Acts)
  <2>1. end.fired \in Seq(1 .. n)
    BY <1>5 DEF Judgement
  <2>2. PICK c \in Nat : c = Len(end.fired) /\ DOMAIN end.fired = 1 .. c
                         /\ \A k \in 1 .. c : end.fired[k] \in 1 .. n
    <3>1. Len(end.fired) \in Nat /\ DOMAIN end.fired = 1 .. Len(end.fired)
          /\ \A k \in 1 .. Len(end.fired) : end.fired[k] \in 1 .. n
      BY <2>1
    <3> QED
      BY <3>1
  <2>3. Actions(end.fired) = [k \in 1 .. c |-> rules[end.fired[k]].then]
    BY <2>2 DEF Actions
  <2>4. \A k \in 1 .. c : rules[end.fired[k]].then \in Acts
    BY <1>1, <2>2 DEF RuleOk
  <2> QED
    BY <2>3, <2>4
<1> QED
  BY <1>4, <1>6, <1>7, <1>8, <1>9

\* A rule that fires may: it stood its hold, it was quiet for its interval, it
\* did not fire in this run.  A rule that stands and does not fire is waiting.
LEMMA TickRule ==
  ASSUME NodeInv, NEW i \in DOMAIN rules, NEW snap, TickAt(i, snap), HistoryTypes', EngineOk',
         rules' = rules, tickAge' = 0, tickAge >= ReflexInterval
  PROVE  /\ Agrees(i)' /\ FiredInTime(i)'
         /\ Fires(i) => /\ rules[i].hold > 0 => stood[i] # NotHeld /\ stood[i] >= rules[i].hold
                        /\ quiet[i] >= rules[i].gap
                        /\ rules[i].edge => ~spoke[i]
<1>1. PICK r : r = rules[i] /\ r.id \in Ids /\ r.gap \in Nat /\ r.edge \in BOOLEAN
               /\ r.hold \in Nat /\ r.hold + ReflexInterval <= AgeCap
  BY RuleFacts DEF NodeInv, HistoryInv
<1>2. PICK l \in Ages, x \in BOOLEAN, h \in Ages \cup {NotHeld} :
        l = lastFire[r.id] /\ x = firedRun[r.id] /\ h = heldFor[r.id]
  BY <1>1 DEF NodeInv, HistoryInv, EngineOk
<1>3. PICK st \in Ages \cup {NotHeld}, qu \in Ages, sp \in BOOLEAN :
        st = stood[i] /\ qu = quiet[i] /\ sp = spoke[i]
  BY DEF NodeInv, HistoryInv, HistoryTypes
<1>4. PICK hd \in BOOLEAN : hd <=> Holds(r.when, snap, levels)
  BY Zenon
<1>5. PICK fr \in BOOLEAN : fr <=> FiresOn(r, snap, l, x, h)
  BY Zenon
<1>6. fr <=> /\ hd /\ ~(r.hold > 0 /\ Began(h) < r.hold) /\ ~(r.edge /\ x)
             /\ ~(r.gap > 0 /\ l < r.gap)
  BY <1>4, <1>5, Zenon DEF FiresOn
<1>7. /\ lastFire'[r.id] = IF fr THEN 0 ELSE l
      /\ heldFor'[r.id] = IF r.hold > 0 THEN IF hd THEN Began(h) ELSE NotHeld ELSE h
      /\ stood'[i] = IF ~hd THEN NotHeld ELSE IF st = NotHeld THEN 0 ELSE st
      /\ quiet'[i] = IF fr THEN 0 ELSE qu
  BY <1>1, <1>2, <1>3, <1>4, <1>5 DEF TickAt, NewLast, NewHeld
<1>8. /\ firedRun'[r.id] = IF r.edge THEN hd /\ (fr \/ x) ELSE x
      /\ spoke'[i] = (hd /\ (fr \/ sp))
  BY <1>1, <1>2, <1>3, <1>4, <1>5, Zenon DEF TickAt, NewRan
<1>9. /\ st = NotHeld \/ st \in 0 .. r.hold + ReflexInterval
      /\ r.hold > 0 =>
           /\ st = NotHeld <=> h = NotHeld
           /\ st # NotHeld => st = h \/ (st = r.hold + ReflexInterval /\ h >= st)
      /\ qu = l /\ qu >= tickAge
  BY <1>1, <1>2, <1>3 DEF NodeInv, HistoryInv, Agrees
<1>10. r.edge => (sp <=> x)
  BY <1>1, <1>2, <1>3 DEF NodeInv, HistoryInv, Agrees
<1>11. /\ NotHeld = -1 /\ ReflexInterval \in Nat /\ ReflexInterval > 0 /\ AgeCap \in Nat
       /\ l \in Nat /\ qu \in Nat /\ (h = NotHeld \/ h \in Nat) /\ (st = NotHeld \/ st \in Nat)
       /\ tickAge \in Nat
  BY TimeFacts DEF NodeInv
<1>12. Began(h) = IF h = NotHeld THEN 0 ELSE h
  BY DEF Began
<1>13. PICK st2, h2, l2, qu2 : st2 = stood'[i] /\ h2 = heldFor'[r.id] /\ l2 = lastFire'[r.id] /\ qu2 = quiet'[i]
  OBVIOUS
<1>14. PICK sp2 \in BOOLEAN, x2 \in BOOLEAN : sp2 = spoke'[i] /\ x2 = firedRun'[r.id]
  BY <1>1 DEF HistoryTypes, EngineOk
<1>15. /\ st2 = NotHeld \/ st2 \in 0 .. r.hold + ReflexInterval
       /\ r.hold > 0 =>
            /\ st2 = NotHeld <=> h2 = NotHeld
            /\ st2 # NotHeld => st2 = h2 \/ (st2 = r.hold + ReflexInterval /\ h2 >= st2)
       /\ qu2 = l2 /\ qu2 >= 0
  BY <1>1, <1>7, <1>9, <1>11, <1>12, <1>13
<1>16. /\ r.edge => (sp2 <=> x2)
       /\ hd /\ sp => sp2
  BY <1>8, <1>10, <1>14, Zenon
<1>17. Agrees(i)'
  BY <1>1, <1>13, <1>14, <1>15, <1>16 DEF Agrees
<1>18. FiredInTime(i)'
  <2> SUFFICES ASSUME st2 # NotHeld, st2 - 0 >= r.hold, ~(qu2 <= 0), ~(qu2 - 0 < r.gap)
               PROVE  r.edge /\ sp2
    BY <1>1, <1>13, <1>14 DEF FiredInTime
  <2>1. hd /\ ~fr
    BY <1>7, <1>13
  <2>2. qu2 = l
    BY <1>7, <1>9, <1>13, <2>1
  <2>3. ~(r.gap > 0 /\ l < r.gap)
    BY <1>1, <1>11, <2>2
  <2>4. ~(r.hold > 0 /\ Began(h) < r.hold)
    BY <1>1, <1>7, <1>9, <1>11, <1>12, <1>13, <2>1
  <2>5. r.edge /\ x
    BY <1>6, <2>1, <2>3, <2>4, Zenon
  <2>6. sp
    BY <1>10, <2>5
  <2> QED
    BY <1>16, <2>1, <2>5, <2>6
<1>19. ASSUME Fires(i)
       PROVE  /\ r.hold > 0 => st # NotHeld /\ st >= r.hold
              /\ qu >= r.gap
              /\ r.edge => ~sp
  <2>1. fr
    BY <1>7, <1>9, <1>11, <1>19 DEF Fires
  <2>2. /\ ~(r.hold > 0 /\ Began(h) < r.hold) /\ ~(r.gap > 0 /\ l < r.gap)
    BY <1>6, <2>1, Zenon
  <2>3. r.edge => ~sp
    BY <1>6, <1>10, <2>1, Zenon
  <2>4. r.hold > 0 => st # NotHeld /\ st >= r.hold
    BY <1>1, <1>9, <1>11, <1>12, <2>2
  <2>5. qu >= r.gap
    BY <1>1, <1>9, <1>11, <2>2
  <2> QED
    BY <2>3, <2>4, <2>5
<1> QED
  BY <1>1, <1>3, <1>17, <1>18, <1>19

-----------------------------------------------------------------------------
(* Every step *)

\* Actions, whoever asked for them, keep to the limits.
LEMMA ActuateKeeps ==
  ASSUME GateInv, NEW acts \in Seq(Acts), NEW faulty, Actuate(acts, faulty)
  PROVE  /\ GateInv'
         /\ \A k \in DOMAIN drove' : policy.gap > 0 =>
              /\ driveAge[drove'[k].pin] >= policy.gap
              /\ \A j \in DOMAIN drove' : drove'[j].pin = drove'[k].pin => j = k
<1>1. /\ policy' = policy /\ told' = told
      /\ GateOk'
      /\ drove' \in Seq(Writes)
      /\ \A p \in Pins : pinLevel'[p] # pinLevel[p] => p \in policy.pins
      /\ \A k \in DOMAIN drove' :
           /\ drove'[k].pin \in policy.pins /\ drove'[k].value \in policy.lo .. policy.hi
           /\ policy.gap > 0 =>
                /\ driveAge[drove'[k].pin] >= policy.gap
                /\ \A j \in DOMAIN drove' : drove'[j].pin = drove'[k].pin => j = k
  BY ActuateIs DEF GateInv
<1>2. ~told => policy.pins = {}
  BY DEF GateInv, DenyUntilTold
<1>3. ~told' => \A p \in Pins : pinLevel'[p] = 0
  BY <1>1, <1>2 DEF GateInv
<1>4. \A w \in ToSet(drove') : told' /\ w.pin \in policy'.pins /\ w.value \in policy'.lo .. policy'.hi
  <2> SUFFICES ASSUME NEW w \in ToSet(drove')
               PROVE  told' /\ w.pin \in policy'.pins /\ w.value \in policy'.lo .. policy'.hi
    OBVIOUS
  <2>1. PICK k \in DOMAIN drove' : w = drove'[k]
    BY DEF ToSet
  <2>2. w.pin \in policy.pins /\ w.value \in policy.lo .. policy.hi
    BY <1>1, <2>1
  <2>3. told
    BY <1>2, <2>2
  <2> QED
    BY <1>1, <2>2, <2>3
<1>5. policy' \in Policy /\ told' \in BOOLEAN /\ (~told' => policy' = DenyUntilTold)
  BY <1>1 DEF GateInv
<1> QED
  BY <1>1, <1>3, <1>4, <1>5 DEF GateInv

\* Nothing is driven, and the gate is the same.
LEMMA SilentKeepsGate ==
  ASSUME GateInv, Silent, UNCHANGED gate
  PROVE  GateInv'
<1>1. drove' = << >> /\ policy' = policy /\ told' = told /\ gateAge' = gateAge
      /\ pinLevel' = pinLevel /\ driveAge' = driveAge
  BY DEF Silent, gate
<1>2. ToSet(drove') = {} /\ drove' \in Seq(Writes)
  BY <1>1 DEF ToSet
<1>3. GateOk'
  BY <1>1 DEF GateInv, GateOk, PolicyOk
<1> QED
  BY <1>1, <1>2, <1>3 DEF GateInv

\* The gate of a new policy: no interval is running.
LEMMA NewPolicyKeepsGate ==
  ASSUME GateInv, Silent, policy' \in Policy, told' \in BOOLEAN, ~told' => policy' = DenyUntilTold,
         gateAge' = [q \in Pins |-> AgeCap], driveAge' = [q \in Pins |-> AgeCap],
         \/ told' /\ pinLevel' = pinLevel
         \/ pinLevel' = [p \in Pins |-> 0]
  PROVE  GateInv'
<1>1. drove' = << >> /\ AgeCap \in Ages /\ AgeCap <= AgeCap
  BY TimeFacts DEF Silent
<1>2. ToSet(drove') = {} /\ drove' \in Seq(Writes)
  BY <1>1 DEF ToSet
<1>3. pinLevel' \in [Pins -> 0 .. 1] /\ (~told' => \A p \in Pins : pinLevel'[p] = 0)
  BY DEF GateInv, GateOk
<1>4. PolicyOk(policy')
  BY PolicyIsOk
<1>5. GateOk'
  BY <1>1, <1>3, <1>4 DEF GateOk, PolicyOk
<1> QED
  BY <1>2, <1>3, <1>5 DEF GateInv

\* A step that leaves the rules and what is noted of them.
LEMMA SameHistory ==
  ASSUME HistoryInv, UNCHANGED <<rules, engine, history, tickAge>>
  PROVE  HistoryInv'
<1>1. /\ rules' = rules /\ lastFire' = lastFire /\ firedRun' = firedRun /\ heldFor' = heldFor
      /\ stood' = stood /\ quiet' = quiet /\ spoke' = spoke /\ tickAge' = tickAge
  BY DEF engine, history
<1>2. RulesAre' /\ EngineOk' /\ HistoryTypes'
  BY <1>1 DEF HistoryInv, RulesAre, HostPart, EngineOk, RulesOk, HistoryTypes
<1>3. \A i \in DOMAIN rules' : Agrees(i)'
  BY <1>1 DEF HistoryInv, Agrees
<1>4. StandingFires'
  BY <1>1 DEF HistoryInv, StandingFires, FiredInTime
<1> QED
  BY <1>2, <1>3, <1>4 DEF HistoryInv

\* A step that leaves the rules and the flash.
LEMMA SameFlash ==
  ASSUME FlashAgrees, UNCHANGED <<rules, nvs, firmware, kept>>
  PROVE  FlashAgrees'
BY DEF FlashAgrees, HostPart

\* Time passes: what stands stands longer, and no tick is late by more than one.
LEMMA ElapseKeeps ==
  ASSUME NodeInv, Elapse
  PROVE  NodeInv'
<1>1. /\ tickAge < ReflexInterval /\ tickAge' = tickAge + 1
      /\ silence' = Older(silence)
      /\ lastFire' = [x \in DOMAIN lastFire |-> Older(lastFire[x])]
      /\ heldFor' = [x \in DOMAIN heldFor |-> IF heldFor[x] = NotHeld THEN NotHeld ELSE Older(heldFor[x])]
      /\ gateAge' = [x \in DOMAIN gateAge |-> Older(gateAge[x])]
      /\ driveAge' = [x \in DOMAIN driveAge |-> Older(driveAge[x])]
      /\ stood' = [i \in DOMAIN stood |-> IF stood[i] \in {NotHeld, rules[i].hold + ReflexInterval}
                                          THEN stood[i] ELSE stood[i] + 1]
      /\ quiet' = [x \in DOMAIN quiet |-> Older(quiet[x])]
      /\ drove' = << >>
  BY DEF Elapse, Silent
<1>2. /\ rules' = rules /\ firedRun' = firedRun /\ levels' = levels /\ policy' = policy /\ told' = told
      /\ pinLevel' = pinLevel /\ nvs' = nvs /\ firmware' = firmware /\ spoke' = spoke /\ kept' = kept
  BY DEF Elapse
<1>3. GateInv'
  <2>1. /\ gateAge \in [Pins -> Ages] /\ driveAge \in [Pins -> Ages] /\ PolicyOk(policy)
        /\ pinLevel \in [Pins -> 0 .. 1]
    BY DEF NodeInv, GateInv, GateOk
  <2>2. gateAge' \in [Pins -> Ages] /\ driveAge' \in [Pins -> Ages]
    BY <1>1, <2>1, TimeFacts
  <2>3. ASSUME NEW p \in Pins
        PROVE  gateAge'[p] <= driveAge'[p]
    <3>1. gateAge[p] <= driveAge[p] /\ gateAge[p] \in Ages /\ driveAge[p] \in Ages
      BY <2>1 DEF NodeInv, GateInv, GateOk
    <3>2. gateAge'[p] = Older(gateAge[p]) /\ driveAge'[p] = Older(driveAge[p])
      BY <1>1, <2>1
    <3> QED
      BY <3>1, <3>2, TimeFacts DEF Older
  <2>4. GateOk'
    BY <1>2, <2>1, <2>2, <2>3 DEF GateOk, PolicyOk
  <2>5. ToSet(drove') = {} /\ drove' \in Seq(Writes)
    BY <1>1 DEF ToSet
  <2> QED
    BY <1>2, <2>4, <2>5 DEF NodeInv, GateInv
<1>4. RulesAre' /\ EngineOk' /\ HistoryTypes' /\ \A i \in DOMAIN rules' : Agrees(i)' /\ FiredInTime(i)'
  <2>1. RulesAre'
    BY <1>2 DEF NodeInv, HistoryInv, RulesAre, HostPart
  <2>2. /\ lastFire \in [Ids -> Ages] /\ heldFor \in [Ids -> Ages \cup {NotHeld}]
        /\ firedRun \in [Ids -> BOOLEAN] /\ RulesOk(rules)
        /\ stood \in [DOMAIN rules -> Ages \cup {NotHeld}] /\ quiet \in [DOMAIN rules -> Ages]
        /\ spoke \in [DOMAIN rules -> BOOLEAN]
    BY DEF NodeInv, HistoryInv, EngineOk, HistoryTypes
  <2>3. lastFire' \in [Ids -> Ages]
    BY <1>1, <2>2, TimeFacts
  <2>4. heldFor' \in [Ids -> Ages \cup {NotHeld}]
    BY <1>1, <2>2, TimeFacts
  <2>5. EngineOk'
    BY <1>2, <2>2, <2>3, <2>4 DEF EngineOk, RulesOk
  <2>6. ASSUME NEW i \in DOMAIN rules
        PROVE  stood'[i] \in Ages \cup {NotHeld} /\ quiet'[i] \in Ages /\ Agrees(i)' /\ FiredInTime(i)'
    <3>1. PICK r : r = rules[i] /\ r.id \in Ids /\ r.gap \in Nat /\ r.edge \in BOOLEAN
                   /\ r.hold \in Nat /\ r.hold + ReflexInterval <= AgeCap
      BY RuleFacts DEF NodeInv, HistoryInv
    <3>2. PICK l \in Ages, h \in Ages \cup {NotHeld} : l = lastFire[r.id] /\ h = heldFor[r.id]
      BY <2>2, <3>1
    <3>3. PICK st \in Ages \cup {NotHeld}, qu \in Ages : st = stood[i] /\ qu = quiet[i]
      BY <2>2
    <3>4. PICK l2, h2, st2, qu2 : /\ l2 = lastFire'[r.id] /\ h2 = heldFor'[r.id]
                                  /\ st2 = stood'[i] /\ qu2 = quiet'[i]
      OBVIOUS
    <3>5. /\ l2 = Older(l) /\ h2 = (IF h = NotHeld THEN NotHeld ELSE Older(h))
          /\ st2 = (IF st \in {NotHeld, r.hold + ReflexInterval} THEN st ELSE st + 1)
          /\ qu2 = Older(qu)
      BY <1>1, <2>2, <3>1, <3>2, <3>3, <3>4
    <3>6. /\ st = NotHeld \/ st \in 0 .. r.hold + ReflexInterval
          /\ r.hold > 0 =>
               /\ st = NotHeld <=> h = NotHeld
               /\ st # NotHeld => st = h \/ (st = r.hold + ReflexInterval /\ h >= st)
          /\ qu = l /\ qu >= tickAge
          /\ r.edge => (spoke[i] <=> firedRun[r.id])
      BY <3>1, <3>2, <3>3 DEF NodeInv, HistoryInv, Agrees
    <3>7. /\ NotHeld = -1 /\ ReflexInterval \in Nat /\ ReflexInterval > 0 /\ AgeCap \in Nat
          /\ ReflexInterval <= AgeCap
          /\ l \in 0 .. AgeCap /\ qu \in 0 .. AgeCap
          /\ (h = NotHeld \/ h \in 0 .. AgeCap) /\ (st = NotHeld \/ st \in 0 .. AgeCap)
          /\ tickAge \in 0 .. ReflexInterval /\ Ages = 0 .. AgeCap
      BY TimeFacts DEF NodeInv
    <3>8. /\ Older(l) = (IF l < AgeCap THEN l + 1 ELSE AgeCap)
          /\ Older(qu) = (IF qu < AgeCap THEN qu + 1 ELSE AgeCap)
          /\ Older(h) = (IF h < AgeCap THEN h + 1 ELSE AgeCap)
      BY DEF Older
    <3>9. /\ st2 = NotHeld \/ st2 \in 0 .. r.hold + ReflexInterval
          /\ qu2 = l2 /\ qu2 >= tickAge + 1 /\ qu2 \in Ages /\ st2 \in Ages \cup {NotHeld}
      BY <1>1, <3>1, <3>5, <3>6, <3>7, <3>8
    <3>10. r.hold > 0 =>
             /\ st2 = NotHeld <=> h2 = NotHeld
             /\ st2 # NotHeld => st2 = h2 \/ (st2 = r.hold + ReflexInterval /\ h2 >= st2)
      BY <3>1, <3>5, <3>6, <3>7, <3>8
    <3>11. Agrees(i)'
      BY <1>1, <1>2, <3>1, <3>4, <3>6, <3>9, <3>10 DEF Agrees
    <3>12. FiredInTime(i)'
      <4> SUFFICES ASSUME st2 # NotHeld, st2 - (tickAge + 1) >= r.hold, ~(r.edge /\ spoke[i]),
                          ~(qu2 <= tickAge + 1)
                   PROVE  qu2 - (tickAge + 1) < r.gap
        BY <1>1, <1>2, <3>1, <3>4 DEF FiredInTime
      <4>1. st # NotHeld /\ st - tickAge >= r.hold
        BY <3>1, <3>5, <3>6, <3>7
      <4>2. ~(qu <= tickAge)
        BY <3>5, <3>7, <3>8
      <4>3. qu - tickAge < r.gap
        BY <3>1, <3>3, <4>1, <4>2 DEF NodeInv, HistoryInv, StandingFires, FiredInTime
      <4> QED
        BY <3>1, <3>5, <3>7, <3>8, <4>3
    <3> QED
      BY <3>4, <3>9, <3>11, <3>12
  <2>7. DOMAIN stood = DOMAIN rules /\ DOMAIN quiet = DOMAIN rules
    BY <2>2
  <2>8. HistoryTypes'
    BY <1>1, <1>2, <2>2, <2>6, <2>7 DEF HistoryTypes
  <2> QED
    BY <1>2, <2>1, <2>5, <2>6, <2>8
<1>5. HistoryInv'
  BY <1>4 DEF HistoryInv, StandingFires
<1>6. FlashAgrees'
  BY <1>2, SameFlash DEF NodeInv
<1>7. silence' \in Ages /\ tickAge' \in 0 .. ReflexInterval
  <2>1. tickAge \in 0 .. ReflexInterval /\ silence \in Ages
    BY DEF NodeInv
  <2> QED
    BY <1>1, <2>1, TimeFacts
<1> QED
  BY <1>2, <1>3, <1>5, <1>6, <1>7 DEF NodeInv

\* Every rule that fires may, and what it drives the gate admits.
FiresInTime ==
  \A i \in DOMAIN rules : Fires(i) =>
    /\ rules[i].hold > 0 => stood[i] # NotHeld /\ stood[i] >= rules[i].hold
    /\ quiet[i] >= rules[i].gap
    /\ rules[i].edge => ~spoke[i]
DrivesApart ==
  \A k \in DOMAIN drove' : policy.gap > 0 =>
    /\ driveAge[drove'[k].pin] >= policy.gap
    /\ \A j \in DOMAIN drove' : drove'[j].pin = drove'[k].pin => j = k

\* A tick fires what may fire.
LEMMA TickKeeps ==
  ASSUME NodeInv, NEW reading, NEW faulty, Tick(reading, faulty)
  PROVE  NodeInv' /\ FiresInTime /\ DrivesApart
<1>1. /\ rules' = rules /\ levels' = levels /\ silence' = silence /\ nvs' = nvs /\ firmware' = firmware
      /\ kept' = kept /\ tickAge' = 0 /\ tickAge >= ReflexInterval
  BY DEF Tick
<1>2. PICK snap : \A i \in DOMAIN rules : TickAt(i, snap)
  BY TickIs DEF NodeInv, HistoryInv
<1>3. EngineOk' /\ HistoryTypes' /\ \E acts \in Seq(Acts) : Actuate(acts, faulty)
  BY TickIs DEF NodeInv, HistoryInv
<1>4. GateInv' /\ DrivesApart
  BY <1>3, ActuateKeeps DEF NodeInv, DrivesApart
<1>5. ASSUME NEW i \in DOMAIN rules
      PROVE  /\ Agrees(i)' /\ FiredInTime(i)'
             /\ Fires(i) => /\ rules[i].hold > 0 => stood[i] # NotHeld /\ stood[i] >= rules[i].hold
                            /\ quiet[i] >= rules[i].gap
                            /\ rules[i].edge => ~spoke[i]
  BY <1>1, <1>2, <1>3, TickRule
<1>6. FiresInTime
  BY <1>5 DEF FiresInTime
<1>7. RulesAre'
  BY <1>1 DEF NodeInv, HistoryInv, RulesAre, HostPart
<1>8. HistoryInv'
  BY <1>1, <1>3, <1>5, <1>7 DEF HistoryInv, StandingFires
<1>9. FlashAgrees'
  BY <1>1, SameFlash DEF NodeInv
<1>10. tickAge' \in 0 .. ReflexInterval
  BY <1>1, TimeFacts
<1> QED
  BY <1>1, <1>4, <1>6, <1>8, <1>9, <1>10 DEF NodeInv

\* A step that leaves the ticks' clock, or drives nothing.
LEMMA NoTickNoFire ==
  ASSUME NodeInv, tickAge' = tickAge \/ tickAge' > 0
  PROVE  FiresInTime
BY DEF FiresInTime, Fires

\* What drives nothing drives nothing too soon.
LEMMA SilentDrivesApart ==
  ASSUME Silent
  PROVE  DrivesApart
<1>1. DOMAIN drove' = {}
  BY DEF Silent
<1> QED
  BY <1>1 DEF DrivesApart

\* A contact is now.
LEMMA ContactIsAge == Contact => silence' \in Ages
<1>1. 0 \in Ages
  BY TimeFacts
<1> QED
  BY <1>1 DEF Contact

\* A write asked for over a link, or on the bench.
LEMMA CommandKeeps ==
  ASSUME NodeInv, NEW acts \in Seq(Acts), NEW faulty, Actuate(acts, faulty), Contact,
         UNCHANGED <<rules, engine, levels, tickAge, nvs, firmware, history, kept>>
  PROVE  NodeInv' /\ FiresInTime /\ DrivesApart
<1>1. GateInv' /\ DrivesApart
  BY ActuateKeeps DEF NodeInv, DrivesApart
<1>2. HistoryInv'
  BY SameHistory DEF NodeInv
<1>3. FlashAgrees'
  BY SameFlash DEF NodeInv
<1>4. FiresInTime
  BY NoTickNoFire
<1>5. silence' \in Ages
  BY ContactIsAge
<1> QED
  BY <1>1, <1>2, <1>3, <1>4, <1>5 DEF NodeInv

\* A bench tick asks for the actions of the rules that hold.
LEMMA BenchActions ==
  ASSUME EngineOk, NEW snap
  PROVE  EvaluateScratch(snap) \in Seq(Acts)
<1>1. PICK n \in Nat : DOMAIN rules = 1 .. n
  BY DEF EngineOk, RulesOk
<1>2. \A i \in 1 .. n : (IF Holds(rules[i].when, snap, levels) THEN rules[i].then ELSE Nothing) \in Acts
  <2>1. \A i \in 1 .. n : rules[i].then \in Acts
    BY <1>1, RuleFacts
  <2>2. Nothing \in Acts
    BY DEF Acts
  <2> QED
    BY <2>1, <2>2
<1>3. EvaluateScratch(snap) =
        [i \in 1 .. n |-> IF Holds(rules[i].when, snap, levels) THEN rules[i].then ELSE Nothing]
  BY <1>1 DEF EvaluateScratch
<1> QED
  BY <1>2, <1>3

\* A new policy arms every rule again, and the gate starts with it.
LEMMA SetLimitsKeeps ==
  ASSUME NodeInv, NEW p \in Policies, SetLimits(p)
  PROVE  NodeInv' /\ FiresInTime /\ DrivesApart
<1>1. /\ policy' = p /\ told' = TRUE
      /\ gateAge' = [q \in Pins |-> AgeCap] /\ driveAge' = [q \in Pins |-> AgeCap]
      /\ Fresh(rules) /\ Silent /\ Contact
      /\ rules' = rules /\ levels' = levels /\ pinLevel' = pinLevel /\ tickAge' = tickAge
      /\ nvs' = nvs /\ firmware' = firmware /\ kept' = kept
  BY DEF SetLimits
<1>2. GateInv'
  BY <1>1, NewPolicyKeepsGate DEF NodeInv, Policy
<1>3. HistoryInv'
  <2>1. HostPart \in HostSets /\ rules' = WithDefaults(HostPart) /\ Fresh(rules')
        /\ tickAge' \in 0 .. ReflexInterval
    BY <1>1 DEF NodeInv, HistoryInv, RulesAre
  <2>2. PICK h \in HostSets : h = HostPart
    BY <2>1
  <2> QED
    BY <2>1, <2>2, FreshIsOk DEF HistoryInv
<1>4. FlashAgrees'
  BY <1>1, SameFlash DEF NodeInv
<1> QED
  BY <1>1, <1>2, <1>3, <1>4, ContactIsAge, NoTickNoFire, SilentDrivesApart DEF NodeInv

\* New rules are refused whole, or are in force and recorded or not.
LEMMA SetReflexRulesKeeps ==
  ASSUME NodeInv, NEW host \in HostRules, NEW stored \in BOOLEAN, SetReflexRules(host, stored)
  PROVE  NodeInv' /\ FiresInTime /\ DrivesApart
<1>1. /\ Silent /\ Contact /\ UNCHANGED gate
      /\ levels' = levels /\ tickAge' = tickAge /\ firmware' = firmware
  BY DEF SetReflexRules
<1>2. GateInv'
  BY <1>1, SilentKeepsGate DEF NodeInv
<1>3. CASE Valid(host)
  <2>1. /\ rules' = WithDefaults(host) /\ Fresh(rules') /\ kept' = stored
        /\ nvs' = IF stored THEN Record(host) ELSE nvs
    BY <1>3 DEF SetReflexRules
  <2>2. HistoryInv' /\ HostPart' = host
    <3>1. host \in HostSets /\ tickAge' \in 0 .. ReflexInterval
      BY <1>1 DEF HostSets, NodeInv
    <3> QED
      BY <2>1, <3>1, FreshIsOk DEF HistoryInv
  <2>3. Record(host) \in [firmware : Firmwares, rules : HostRules]
        /\ Record(host).firmware = firmware /\ Record(host).rules = host
    BY DEF Record, NodeInv
  <2>4. nvs' \in {NoRecord} \cup [firmware : Firmwares, rules : HostRules]
    BY <2>1, <2>3 DEF NodeInv
  <2>5. FlashAgrees'
    BY <1>1, <1>3, <2>1, <2>2, <2>3 DEF FlashAgrees
  <2> QED
    BY <1>1, <1>2, <2>1, <2>2, <2>4, <2>5, ContactIsAge, NoTickNoFire, SilentDrivesApart DEF NodeInv
<1>4. CASE ~Valid(host)
  <2>1. UNCHANGED <<rules, engine, history, nvs, kept>>
    BY <1>4 DEF SetReflexRules
  <2>2. HistoryInv' /\ FlashAgrees'
    BY <1>1, <2>1, SameHistory, SameFlash DEF NodeInv
  <2> QED
    BY <1>1, <1>2, <2>1, <2>2, ContactIsAge, NoTickNoFire, SilentDrivesApart DEF NodeInv
<1> QED
  BY <1>3, <1>4

\* Pushed levels leave the rules and what is noted of them.
LEMMA DescendKeeps ==
  ASSUME NodeInv, NEW clear, NEW pairs, Descend(clear, pairs)
  PROVE  NodeInv' /\ FiresInTime /\ DrivesApart
<1>1. /\ Silent /\ Contact
      /\ UNCHANGED <<rules, engine, gate, tickAge, nvs, firmware, history, kept>>
  BY DEF Descend
<1>2. levels' \in [Slots -> {Unset, 0, 1}]
  <2> DEFINE before == IF clear THEN [s \in Slots |-> Unset] ELSE levels
             good == \A p \in pairs : p[1] \in Slots /\ p[2] \in {0, 1}
  <2>1. before \in [Slots -> {Unset, 0, 1}]
    BY DEF NodeInv
  <2>2. levels' = [s \in Slots |-> IF good /\ \E p \in pairs : p[1] = s
                                   THEN (CHOOSE p \in pairs : p[1] = s)[2] ELSE before[s]]
    BY DEF Descend
  <2>3. ASSUME NEW s \in Slots, good, \E p \in pairs : p[1] = s
        PROVE  (CHOOSE p \in pairs : p[1] = s)[2] \in {0, 1}
    <3>1. PICK q : q = CHOOSE p \in pairs : p[1] = s
      OBVIOUS
    <3>2. q \in pairs
      BY <2>3, <3>1
    <3> QED
      BY <2>3, <3>1, <3>2
  <2> HIDE DEF before, good
  <2> QED
    BY <2>1, <2>2, <2>3
<1>3. GateInv' /\ HistoryInv' /\ FlashAgrees'
  BY <1>1, SilentKeepsGate, SameHistory, SameFlash DEF NodeInv
<1> QED
  BY <1>1, <1>2, <1>3, ContactIsAge, NoTickNoFire, SilentDrivesApart DEF NodeInv

\* A reset brings back what the flash holds, and nothing else.
LEMMA RebootIs ==
  ASSUME NodeInv, NEW fw \in Firmwares, NEW readable \in BOOLEAN, Reboot(fw, readable)
  PROVE  /\ HistoryInv'
         /\ HostPart' = IF readable /\ nvs.firmware = fw /\ Valid(nvs.rules) THEN nvs.rules ELSE << >>
<1>1. PICK h : h = IF readable /\ nvs.firmware = fw /\ Valid(nvs.rules) THEN nvs.rules ELSE << >>
  OBVIOUS
<1>2. rules' = WithDefaults(h) /\ Fresh(rules') /\ tickAge' = ReflexInterval
  BY <1>1 DEF Reboot
<1>3. h \in HostSets
  <2>1. nvs = NoRecord \/ nvs.rules \in HostRules
    BY DEF NodeInv
  <2>2. NoRecord.rules = << >>
    BY DEF NoRecord
  <2> QED
    BY <1>1, <2>1, <2>2 DEF HostSets
<1>4. tickAge' \in 0 .. ReflexInterval
  BY <1>2, TimeFacts
<1> QED
  BY <1>1, <1>2, <1>3, <1>4, FreshIsOk DEF HistoryInv

\* A reset starts from the flash, and with a gate that admits nothing.
LEMMA RebootKeeps ==
  ASSUME NodeInv, NEW fw \in Firmwares, NEW readable \in BOOLEAN, Reboot(fw, readable)
  PROVE  NodeInv' /\ FiresInTime /\ DrivesApart
<1> DEFINE usable == nvs.firmware = fw /\ Valid(nvs.rules)
<1>1. /\ firmware' = fw
      /\ nvs' = IF readable /\ ~usable THEN NoRecord ELSE nvs
      /\ levels' = [s \in Slots |-> Unset]
      /\ policy' = DenyUntilTold /\ told' = FALSE
      /\ gateAge' = [p \in Pins |-> AgeCap] /\ driveAge' = [p \in Pins |-> AgeCap]
      /\ pinLevel' = [p \in Pins |-> 0]
      /\ tickAge' = ReflexInterval
      /\ Silent /\ Contact /\ kept' = readable
  BY DEF Reboot
<1>2. HistoryInv' /\ HostPart' = IF readable /\ usable THEN nvs.rules ELSE << >>
  BY RebootIs
<1>3. GateInv'
  BY <1>1, NewPolicyKeepsGate DEF NodeInv, Policy
<1>4. FlashAgrees'
  <2> SUFFICES ASSUME readable
               PROVE  HostPart' = IF nvs'.firmware = firmware' /\ Valid(nvs'.rules) THEN nvs'.rules ELSE << >>
    BY <1>1 DEF FlashAgrees
  <2>1. CASE usable
    BY <1>1, <1>2, <2>1
  <2>2. CASE ~usable
    <3>1. nvs'.rules = << >>
      BY <1>1, <2>2 DEF NoRecord
    <3> QED
      BY <1>2, <2>2, <3>1
  <2> QED
    BY <2>1, <2>2
<1>5. nvs' \in {NoRecord} \cup [firmware : Firmwares, rules : HostRules]
  BY <1>1 DEF NodeInv
<1>6. tickAge' \in 0 .. ReflexInterval /\ tickAge' > 0 /\ levels' \in [Slots -> {Unset, 0, 1}]
  BY <1>1, TimeFacts
<1> QED
  BY <1>1, <1>2, <1>3, <1>4, <1>5, <1>6, ContactIsAge, NoTickNoFire, SilentDrivesApart DEF NodeInv

\* The first boot.
LEMMA NodeStarts == NodeInit => NodeInv
<1> SUFFICES ASSUME NodeInit PROVE NodeInv
  OBVIOUS
<1>1. RulesOk(WithDefaults(<< >>)) /\ HostOf(WithDefaults(<< >>)) = << >>
  BY WithDefaultsAre DEF HostSets
<1>2. HostPart = << >> /\ rules = WithDefaults(<< >>) /\ RulesOk(rules)
  BY <1>1 DEF NodeInit, HostPart, HostOf
<1>3. RulesAre
  BY <1>2 DEF RulesAre, HostSets
<1>4. /\ AgeCap \in Ages /\ 0 \in Ages /\ ReflexInterval \in 0 .. ReflexInterval
      /\ ReflexInterval <= AgeCap /\ AgeCap \in Nat /\ ReflexInterval \in Nat
  BY TimeFacts
<1>5. /\ lastFire = [id \in Ids |-> AgeCap] /\ firedRun = [id \in Ids |-> FALSE]
      /\ heldFor = [id \in Ids |-> NotHeld]
      /\ stood = [i \in DOMAIN rules |-> NotHeld] /\ quiet = [i \in DOMAIN rules |-> AgeCap]
      /\ spoke = [i \in DOMAIN rules |-> FALSE]
      /\ silence = 0 /\ tickAge = ReflexInterval
  BY DEF NodeInit
<1>6. EngineOk /\ HistoryTypes
  BY <1>2, <1>4, <1>5 DEF EngineOk, HistoryTypes
<1>7. ASSUME NEW i \in DOMAIN rules
      PROVE  Agrees(i) /\ FiredInTime(i)
  <2>1. rules[i].id \in Ids
    BY <1>6, RuleFacts
  <2> QED
    BY <1>4, <1>5, <2>1 DEF Agrees, FiredInTime
<1>8. HistoryInv
  BY <1>3, <1>6, <1>7 DEF HistoryInv, StandingFires
<1>9. GateInv
  <2>1. /\ policy = DenyUntilTold /\ told = FALSE /\ drove = << >>
        /\ gateAge = [p \in Pins |-> AgeCap] /\ driveAge = [p \in Pins |-> AgeCap]
        /\ pinLevel = [p \in Pins |-> 0]
    BY DEF NodeInit
  <2>2. ToSet(drove) = {} /\ drove \in Seq(Writes)
    BY <2>1 DEF ToSet
  <2>3. PolicyOk(policy) /\ policy \in Policy
    BY <2>1, PolicyIsOk DEF Policy
  <2>4. GateOk
    BY <1>4, <2>1, <2>3 DEF GateOk
  <2> QED
    BY <2>1, <2>2, <2>3, <2>4 DEF GateInv
<1>10. FlashAgrees
  <2>1. nvs.rules = << >>
    BY DEF NodeInit, NoRecord
  <2> QED
    BY <1>2, <2>1 DEF FlashAgrees
<1> QED
  BY <1>4, <1>5, <1>8, <1>9, <1>10 DEF NodeInv, NodeInit

\* Any other contact: nothing of the node moves but the host's silence.
LEMMA OtherContactKeeps ==
  ASSUME NodeInv, OtherContact
  PROVE  NodeInv' /\ FiresInTime /\ DrivesApart
<1>1. /\ Silent /\ Contact
      /\ UNCHANGED <<rules, engine, levels, gate, tickAge, nvs, firmware, history, kept>>
  BY DEF OtherContact
<1>2. GateInv' /\ HistoryInv' /\ FlashAgrees'
  BY <1>1, SilentKeepsGate, SameHistory, SameFlash DEF NodeInv
<1> QED
  BY <1>1, <1>2, ContactIsAge, NoTickNoFire, SilentDrivesApart DEF NodeInv

\* Every step of the node keeps the invariant, fires only the rules that may
\* and drives only what the gate admits.
LEMMA NodeStep == NodeInv /\ NodeNext => NodeInv' /\ FiresInTime /\ DrivesApart
<1> SUFFICES ASSUME NodeInv, NodeNext PROVE NodeInv' /\ FiresInTime /\ DrivesApart
  OBVIOUS
<1>1. CASE Elapse
  <2>1. Silent /\ tickAge' > 0
    BY <1>1 DEF Elapse, NodeInv
  <2> QED
    BY <1>1, <2>1, ElapseKeeps, NoTickNoFire, SilentDrivesApart
<1>2. CASE \E snap \in Snapshots, faulty \in {{}, {SafePin}} : Tick(snap, faulty)
  BY <1>2, TickKeeps
<1>3. CASE \E p \in Pins, v \in 0 .. 1, faulty \in {{}, {SafePin}} : WriteCommand(Write(p, v), faulty)
  <2>1. PICK p \in Pins, v \in 0 .. 1, faulty \in {{}, {SafePin}} : WriteCommand(Write(p, v), faulty)
    BY <1>3
  <2>2. Write(p, v) \in Acts
    BY DEF Write, Acts
  <2>3. <<Write(p, v)>> \in Seq(Acts)
    BY <2>2
  <2> QED
    BY <2>1, <2>3, CommandKeeps DEF WriteCommand
<1>4. CASE \E snap \in Snapshots, faulty \in {{}, {SafePin}} : BenchTick(snap, faulty)
  <2>1. PICK snap \in Snapshots, faulty \in {{}, {SafePin}} : BenchTick(snap, faulty)
    BY <1>4
  <2>2. EvaluateScratch(snap) \in Seq(Acts)
    BY BenchActions DEF NodeInv, HistoryInv
  <2> QED
    BY <2>1, <2>2, CommandKeeps DEF BenchTick
<1>5. CASE \E p \in Policies : SetLimits(p)
  BY <1>5, SetLimitsKeeps
<1>6. CASE \E host \in HostRules, stored \in BOOLEAN : SetReflexRules(host, stored)
  BY <1>6, SetReflexRulesKeeps
<1>7. CASE \E clear \in BOOLEAN, pairs \in Messages : Descend(clear, pairs)
  BY <1>7, DescendKeeps
<1>8. CASE OtherContact
  BY <1>8, OtherContactKeeps
<1>9. CASE \E fw \in Firmwares, readable \in BOOLEAN : Reboot(fw, readable)
  BY <1>9, RebootKeeps
<1> QED
  BY <1>1, <1>2, <1>3, <1>4, <1>5, <1>6, <1>7, <1>8, <1>9 DEF NodeNext

\* A step of something else.
LEMMA NodeStutter == NodeInv /\ UNCHANGED nodeVars => NodeInv'
<1> SUFFICES ASSUME NodeInv, UNCHANGED nodeVars PROVE NodeInv'
  OBVIOUS
<1>1. GateInv'
  BY DEF nodeVars, gate, NodeInv, GateInv, GateOk, PolicyOk
<1>2. HistoryInv' /\ FlashAgrees'
  BY SameHistory, SameFlash DEF nodeVars, NodeInv
<1> QED
  BY <1>1, <1>2 DEF nodeVars, NodeInv

\* The invariant holds in every reachable state.
LEMMA NodeInvHolds == NodeSpec => []NodeInv
<1>1. NodeInv /\ [NodeNext]_nodeVars => NodeInv'
  BY NodeStep, NodeStutter
<1> QED
  BY <1>1, NodeStarts, PTL DEF NodeSpec

\* A boot whose host has not spoken drives no pin, from a command, a bench
\* tick, a built-in or a restored rule, and what is driven lies in the limits
\* last pushed: gpio_write and the policy a boot starts with (main.rs).
THEOREM AuthorityIsToldHolds == NodeSpec => []AuthorityIsTold
BY NodeInvHolds, NodeInvIsTold, PTL

\* A condition that stands is acted on, through pushes of levels, rules and
\* limits and through late ticks: evaluate of the node's engine.
THEOREM StandingFiresHolds == NodeSpec => []StandingFires
BY NodeInvHolds, NodeInvIsTold, PTL

\* A rule fires only when its hold has passed unbroken, only its interval
\* after its last fire, once per run if it is an edge rule; and two drives of
\* a pin are its interval apart, whoever asked for them.
THEOREM ActsInTimeHolds == NodeSpec => ActsInTime
<1>1. NodeInv /\ [NodeNext]_nodeVars => [FiresInTime /\ DrivesApart]_nodeVars
  BY NodeStep
<1>2. [FiresInTime /\ DrivesApart]_nodeVars =>
        [\A i \in DOMAIN rules : Fires(i) =>
           /\ rules[i].hold > 0 => stood[i] # NotHeld /\ stood[i] >= rules[i].hold
           /\ quiet[i] >= rules[i].gap
           /\ rules[i].edge => ~spoke[i]]_nodeVars
  BY DEF FiresInTime
<1>3. [FiresInTime /\ DrivesApart]_nodeVars =>
        [\A k \in DOMAIN drove' : policy.gap > 0 =>
           /\ driveAge[drove'[k].pin] >= policy.gap
           /\ \A j \in DOMAIN drove' : drove'[j].pin = drove'[k].pin => j = k]_nodeVars
  BY DEF DrivesApart
<1> QED
  BY <1>1, <1>2, <1>3, NodeInvHolds, PTL DEF NodeSpec, ActsInTime, FiringDiscipline, DrivesSpaced

\* Rules acknowledged as persisted are in force again after a reset into the
\* same firmware, and only they: set_reflex_rules against restore_rules.
THEOREM RulesRememberedHolds == NodeSpec => RulesRemembered
<1>1. ASSUME NodeInv, NEW fw \in Firmwares, fw = firmware, kept, Reboot(fw, TRUE)
      PROVE  HostPart' = HostPart
  <2>1. HostPart' = IF nvs.firmware = fw /\ Valid(nvs.rules) THEN nvs.rules ELSE << >>
    BY <1>1, RebootIs
  <2> QED
    BY <1>1, <2>1 DEF NodeInv, FlashAgrees
<1>2. NodeInv =>
        [\A fw \in Firmwares : fw = firmware /\ kept /\ ~told' /\ Reboot(fw, TRUE)
           => HostPart' = HostPart]_nodeVars
  BY <1>1
<1> QED
  BY <1>2, NodeInvHolds, PTL DEF RulesRemembered
=============================================================================
