-------------------------- MODULE Surroundings_proofs --------------------------
(* What a host believes of the nodes, peers and cameras around it: the mesh  *)
(* supervisor, discovery among peers, a camera's picture and what is noticed *)
(* of it, and what a camera gateway saw. Proved for any nodes, peers, cameras,*)
(* bounds and clocks.                                                        *)
EXTENDS MeshSupervisor, P2pMesh, CameraHealth, Percepts, Sightings, InOrder_proofs,
        FiniteSetTheorems, SequenceTheorems, TLAPS

-----------------------------------------------------------------------------
(* The mesh supervisor *)

\* A node whose health fact says offline has been deaf as long as that fact is
\* old or the link open, or was heard since it was last judged.
DeafSince(n) ==
  link /\ health[n] = "offline" =>
    \/ deaf[n] >= linkAge
    \/ deaf[n] >= healthAge[n]
    \/ n \in Views /\ seen[n] <= (IF judged THEN 0 ELSE 1)

MeshInv == TypeOK /\ \A n \in Nodes : DeafSince(n)

\* An age grows to its cap.
LEMMA OlderFacts ==
  ASSUME NEW cap \in Nat, NEW age \in 0 .. cap
  PROVE  Older(age, cap) \in 0 .. cap /\ (age < cap => Older(age, cap) = age + 1)
         /\ (age = cap => Older(age, cap) = cap)
BY DEF Older

LEMMA CapFacts ==
  /\ StaleAfter \in Nat /\ EscalateAfter \in Nat /\ ProbeEvery \in Nat /\ LostProbeEvery \in Nat
  /\ ProbeCap \in Nat /\ StaleAfter + 1 \in Nat
BY IntervalsAssumption DEF ProbeCap

\* A tick presumes lost only nodes that were deaf for long enough, and keeps as
\* lost only nodes that are offline.
LEMMA TickFacts ==
  ASSUME MeshInv, NEW sent \in SUBSET Nodes, Tick(sent)
  PROVE  /\ \A n \in Nodes : ~Lost(n) /\ Lost(n)' => deaf[n] >= EscalateAfter
         /\ link => \A n \in Views : Lost(n)' => health'[n] = "offline"
         /\ Views # {} => count' = Cardinality(Views \cap escalated')
<1>1. /\ ~judged /\ escalated' = EscalatedAfter /\ count' = CountAfter
      /\ health' = [n \in Nodes |-> HealthAfter(n)]
  BY DEF Tick
<1>2. ASSUME NEW n \in Nodes, ~Lost(n), Lost(n)'
      PROVE  deaf[n] >= EscalateAfter
  <2>1. link /\ n \in Views /\ Escalates(n)
    BY <1>1, <1>2 DEF EscalatedAfter, Lost
  <2>2. Status(n) = "offline" /\ EscalateAfter > 0 /\ OfflineFor(n) >= EscalateAfter
    BY <2>1 DEF Escalates
  <2>3. /\ seen[n] > StaleAfter /\ seen[n] \in Int
        /\ linkAge \in 0 .. EscalateAfter /\ healthAge[n] \in 0 .. EscalateAfter
        /\ deaf[n] \in 0 .. EscalateAfter
    <3>1. seen[n] > StaleAfter
      BY <2>2 DEF Status
    <3>2. NoFact \in Int
      BY DEF NoFact
    <3> QED
      BY <3>1, <3>2, CapFacts DEF MeshInv, TypeOK
  <2>4. health[n] = "offline" /\ healthAge[n] >= EscalateAfter /\ linkAge >= EscalateAfter
    BY <2>2, <2>3, CapFacts DEF OfflineFor
  <2>5. ~(seen[n] <= 1)
    BY <2>3, CapFacts, StaleAssumption
  <2>6. deaf[n] >= linkAge \/ deaf[n] >= healthAge[n]
    BY <1>1, <2>1, <2>4, <2>5 DEF MeshInv, DeafSince
  <2> QED
    BY <2>3, <2>4, <2>6, CapFacts
<1>3. ASSUME link, NEW n \in Views, Lost(n)'
      PROVE  health'[n] = "offline"
  <2>1. Status(n) = "offline"
    BY <1>1, <1>3 DEF EscalatedAfter, Lost, Escalates, Clears
  <2>2. n \in Nodes
    BY DEF Views
  <2> QED
    BY <1>1, <1>3, <2>1, <2>2 DEF HealthAfter
<1>4. Views # {} => count' = Cardinality(Views \cap escalated')
  BY <1>1 DEF CountAfter
<1> QED
  BY <1>2, <1>3, <1>4

\* Every step keeps every variable's type.
LEMMA MeshTypes ==
  ASSUME TypeOK, [Next]_vars
  PROVE  TypeOK'
<1>1. CASE \E sent \in SUBSET Nodes : Tick(sent)
  <2>1. PICK sent \in SUBSET Nodes : Tick(sent)
    BY <1>1
  <2>2. /\ sent \subseteq Views /\ judged' = TRUE
        /\ health' = [n \in Nodes |-> HealthAfter(n)]
        /\ healthAge' = [n \in Nodes |-> HealthAgeAfter(n)]
        /\ escalated' = EscalatedAfter
        /\ probeAge' = [n \in Nodes |-> IF n \in sent THEN 0 ELSE probeAge[n]]
        /\ asked' = asked \cup sent
        /\ count' = CountAfter
        /\ UNCHANGED <<seen, failed, link, linkAge, own, deaf>>
    BY <2>1 DEF Tick
  <2>3. health' \in [Nodes -> {"none", "online", "degraded", "offline", "unobservable"}]
    <3>1. \A n \in Nodes : HealthAfter(n) \in {"none", "online", "degraded", "offline", "unobservable"}
      BY DEF TypeOK, HealthAfter, Status
    <3> QED
      BY <2>2, <3>1
  <2>4. healthAge' \in [Nodes -> 0 .. EscalateAfter]
    <3>1. \A n \in Nodes : HealthAgeAfter(n) \in 0 .. EscalateAfter
      BY CapFacts DEF TypeOK, HealthAgeAfter
    <3> QED
      BY <2>2, <3>1
  <2>5. escalated' \subseteq Nodes
    BY <2>2 DEF TypeOK, EscalatedAfter, Views
  <2>6. probeAge' \in [Nodes -> 0 .. ProbeCap]
    BY <2>2, CapFacts DEF TypeOK
  <2>7. asked' \subseteq {n \in Nodes : seen'[n] # NoFact}
    BY <2>2 DEF TypeOK, Views
  <2>8. count' \in {NoFact} \cup 0 .. Cardinality(Nodes)
    <3>1. PICK c : c = Views \cap EscalatedAfter
      OBVIOUS
    <3>2. c \subseteq Nodes
      BY <3>1 DEF Views
    <3>3. Cardinality(c) \in Nat /\ Cardinality(Nodes) \in Nat /\ Cardinality(c) <= Cardinality(Nodes)
      BY <3>2, StationsAssumption, FS_Subset, FS_CardinalityType
    <3> QED
      BY <2>2, <3>1, <3>3 DEF TypeOK, CountAfter
  <2> QED
    BY <2>2, <2>3, <2>4, <2>5, <2>6, <2>7, <2>8 DEF TypeOK
<1>2. CASE Elapse
  <2>1. seen' \in [Nodes -> {NoFact} \cup 0 .. StaleAfter + 1]
        /\ \A n \in Nodes : seen[n] # NoFact => seen'[n] # NoFact
    <3>1. seen' = [n \in Nodes |-> IF seen[n] = NoFact THEN NoFact ELSE Older(seen[n], StaleAfter + 1)]
      BY <1>2 DEF Elapse
    <3>2. \A n \in Nodes : seen[n] # NoFact =>
            /\ Older(seen[n], StaleAfter + 1) \in 0 .. StaleAfter + 1
            /\ Older(seen[n], StaleAfter + 1) # NoFact
      BY CapFacts, OlderFacts DEF TypeOK, NoFact
    <3> QED
      BY <3>1, <3>2
  <2>2. healthAge' \in [Nodes -> 0 .. EscalateAfter]
    <3>1. \A n \in Nodes : Older(healthAge[n], EscalateAfter) \in 0 .. EscalateAfter /\ 0 \in 0 .. EscalateAfter
      BY CapFacts, OlderFacts DEF TypeOK
    <3> QED
      BY <1>2, <3>1 DEF Elapse
  <2>3. probeAge' \in [Nodes -> 0 .. ProbeCap]
    <3>1. \A n \in Nodes : Older(probeAge[n], ProbeCap) \in 0 .. ProbeCap
      BY CapFacts, OlderFacts DEF TypeOK
    <3> QED
      BY <1>2, <3>1 DEF Elapse
  <2>4. linkAge' \in 0 .. EscalateAfter
    BY <1>2, CapFacts, OlderFacts DEF Elapse, TypeOK
  <2>5. deaf' \in [Nodes -> 0 .. EscalateAfter]
    <3>1. \A n \in Nodes : Older(deaf[n], EscalateAfter) \in 0 .. EscalateAfter /\ 0 \in 0 .. EscalateAfter
      BY CapFacts, OlderFacts DEF TypeOK
    <3> QED
      BY <1>2, <3>1 DEF Elapse
  <2>6. judged' = FALSE /\ UNCHANGED <<failed, health, escalated, count, link, own, asked>>
    BY <1>2 DEF Elapse
  <2> QED
    BY <2>1, <2>2, <2>3, <2>4, <2>5, <2>6 DEF TypeOK
<1>3. ASSUME NEW n \in Nodes, Hear(n), asked' \subseteq asked, failed' \subseteq failed \cup {n}
      PROVE  TypeOK'
  <2>1. /\ seen' = [seen EXCEPT ![n] = 0] /\ deaf' = [deaf EXCEPT ![n] = 0]
        /\ UNCHANGED <<health, healthAge, escalated, probeAge, count, link, linkAge, own, judged>>
    BY <1>3 DEF Hear
  <2>2. seen' \in [Nodes -> {NoFact} \cup 0 .. StaleAfter + 1] /\ deaf' \in [Nodes -> 0 .. EscalateAfter]
    BY <2>1, CapFacts DEF TypeOK
  <2>3. asked' \subseteq {m \in Nodes : seen'[m] # NoFact}
    BY <1>3, <2>1 DEF TypeOK, NoFact
  <2> QED
    BY <1>3, <2>1, <2>2, <2>3 DEF TypeOK
<1>4. CASE \E n \in Nodes : Beacon(n) \/ \E ok \in BOOLEAN : Answer(n, ok)
  BY <1>3, <1>4 DEF Beacon, Answer
<1>5. CASE \E n \in Nodes : LoseCommand(n)
  BY <1>5 DEF LoseCommand, facts, TypeOK
<1>6. CASE LinkLost \/ LinkReopens
  <2>1. /\ UNCHANGED <<facts, own, judged, asked>> /\ link' \in BOOLEAN /\ linkAge' = 0
        /\ deaf' = deaf \/ deaf' = [n \in Nodes |-> 0]
    BY <1>6 DEF LinkLost, LinkReopens
  <2>2. deaf' \in [Nodes -> 0 .. EscalateAfter] /\ linkAge' \in 0 .. EscalateAfter
    BY <2>1, CapFacts DEF TypeOK
  <2> QED
    BY <2>1, <2>2 DEF facts, TypeOK
<1>7. CASE \E n \in Nodes : DeclareOwn(n)
  BY <1>7, CapFacts DEF DeclareOwn, facts, TypeOK
<1>8. CASE UNCHANGED vars
  BY <1>8 DEF vars, facts, TypeOK
<1> QED
  BY <1>1, <1>2, <1>4, <1>5, <1>6, <1>7, <1>8 DEF Next

\* Every step keeps what is known of the silence of a node.
LEMMA MeshStep ==
  ASSUME MeshInv, [Next]_vars
  PROVE  MeshInv'
<1>1. TypeOK /\ TypeOK'
  BY MeshTypes DEF MeshInv
<1> SUFFICES ASSUME NEW n \in Nodes, link', health'[n] = "offline"
             PROVE  \/ deaf'[n] >= linkAge' \/ deaf'[n] >= healthAge'[n]
                    \/ n \in Views' /\ seen'[n] <= (IF judged' THEN 0 ELSE 1)
  BY <1>1 DEF MeshInv, DeafSince
<1>2. DeafSince(n)
  BY DEF MeshInv
<1>3. /\ deaf[n] \in 0 .. EscalateAfter /\ deaf'[n] \in 0 .. EscalateAfter
      /\ healthAge[n] \in 0 .. EscalateAfter /\ healthAge'[n] \in 0 .. EscalateAfter
      /\ linkAge \in 0 .. EscalateAfter /\ linkAge' \in 0 .. EscalateAfter /\ EscalateAfter \in Nat
  BY <1>1, CapFacts DEF TypeOK
<1>4. CASE \E sent \in SUBSET Nodes : Tick(sent)
  <2>1. /\ ~judged /\ health'[n] = HealthAfter(n) /\ healthAge'[n] = HealthAgeAfter(n)
        /\ UNCHANGED <<seen, link, linkAge, own, deaf>>
    BY <1>4 DEF Tick
  <2>2. CASE health[n] # "offline"
    BY <1>3, <2>1, <2>2 DEF HealthAgeAfter
  <2>3. CASE health[n] = "offline"
    <3>1. healthAge'[n] = healthAge[n]
      BY <2>1, <2>3 DEF HealthAgeAfter
    <3>2. n \in Views => ~(seen[n] <= 1)
      <4>1. n \in Views => seen[n] > StaleAfter
        BY <2>1 DEF HealthAfter, Status
      <4>2. seen[n] \in Int /\ StaleAfter \in Nat
        BY <1>1, CapFacts DEF TypeOK, NoFact
      <4> QED
        BY <4>1, <4>2, StaleAssumption
    <3> QED
      BY <1>2, <2>1, <2>3, <3>1, <3>2 DEF DeafSince
  <2> QED
    BY <2>2, <2>3
<1>5. CASE Elapse
  <2>1. /\ judged /\ ~judged' /\ UNCHANGED <<link, health, own>>
        /\ seen' = [m \in Nodes |-> IF seen[m] = NoFact THEN NoFact ELSE Older(seen[m], StaleAfter + 1)]
    BY <1>5 DEF Elapse
  <2>2. /\ healthAge'[n] = Older(healthAge[n], EscalateAfter)
        /\ deaf'[n] = Older(deaf[n], EscalateAfter) /\ linkAge' = Older(linkAge, EscalateAfter)
    BY <1>5, <2>1 DEF Elapse
  <2>3. CASE deaf[n] >= linkAge \/ deaf[n] >= healthAge[n]
    BY <1>3, <2>2, <2>3 DEF Older
  <2>4. CASE n \in Views /\ seen[n] <= 0
    <3>1. seen[n] \in 0 .. StaleAfter + 1 /\ seen[n] # NoFact /\ seen[n] = 0
      BY <1>1, <2>4, CapFacts DEF TypeOK, Views
    <3>2. seen'[n] = 1
      BY <2>1, <3>1, CapFacts DEF Older
    <3> QED
      BY <2>1, <2>4, <3>2 DEF Views, NoFact
  <2> QED
    BY <1>2, <2>1, <2>3, <2>4 DEF DeafSince
<1>6. ASSUME NEW m \in Nodes, Hear(m)
      PROVE  \/ deaf'[n] >= linkAge' \/ deaf'[n] >= healthAge'[n]
             \/ n \in Views' /\ seen'[n] <= (IF judged' THEN 0 ELSE 1)
  <2>1. /\ m # own /\ seen' = [seen EXCEPT ![m] = 0] /\ deaf' = [deaf EXCEPT ![m] = 0]
        /\ UNCHANGED <<health, healthAge, link, linkAge, own, judged>>
    BY <1>6 DEF Hear
  <2>2. CASE n = m
    BY <1>1, <2>1, <2>2 DEF TypeOK, Views, NoFact
  <2>3. CASE n # m
    <3>1. seen'[n] = seen[n] /\ deaf'[n] = deaf[n]
      BY <1>1, <2>1, <2>3 DEF TypeOK
    <3> QED
      BY <1>2, <2>1, <3>1 DEF DeafSince, Views
  <2> QED
    BY <2>2, <2>3
<1>7. CASE \E m \in Nodes : Beacon(m) \/ \E ok \in BOOLEAN : Answer(m, ok)
  BY <1>6, <1>7 DEF Beacon, Answer
<1>8. CASE (\E m \in Nodes : LoseCommand(m)) \/ UNCHANGED vars
  <2>1. UNCHANGED <<seen, health, healthAge, link, linkAge, own, judged, deaf>>
    BY <1>8 DEF LoseCommand, vars, facts
  <2> QED
    BY <1>2, <2>1 DEF DeafSince, Views
<1>9. CASE LinkLost \/ LinkReopens \/ \E m \in Nodes : DeclareOwn(m)
  BY <1>3, <1>9 DEF LinkLost, LinkReopens, DeclareOwn
<1> QED
  BY <1>4, <1>5, <1>7, <1>8, <1>9 DEF Next

\* The state is well formed; no node is presumed lost on silence the host could
\* not have heard broken; after a tick on an open link the nodes presumed lost
\* are offline, and the published count is their number (run_tick and decide).
THEOREM ConclusionsFitHolds == Spec => ConclusionsFit
<1>1. Init => MeshInv
  <2> SUFFICES ASSUME Init
               PROVE  MeshInv
    OBVIOUS
  <2>1. TypeOK
    <3>1. /\ 0 \in 0 .. EscalateAfter /\ ProbeCap \in 0 .. ProbeCap
      BY CapFacts
    <3>2. /\ seen \in [Nodes -> {NoFact} \cup 0 .. StaleAfter + 1]
          /\ healthAge \in [Nodes -> 0 .. EscalateAfter] /\ deaf \in [Nodes -> 0 .. EscalateAfter]
          /\ probeAge \in [Nodes -> 0 .. ProbeCap]
      BY <3>1 DEF Init
    <3>3. /\ health \in [Nodes -> {"none", "online", "degraded", "offline", "unobservable"}]
          /\ failed \subseteq Nodes /\ escalated \subseteq Nodes /\ asked \subseteq {n \in Nodes : seen[n] # NoFact}
          /\ count = NoFact /\ link \in BOOLEAN /\ linkAge = 0 /\ own = NoFact /\ judged \in BOOLEAN
      BY DEF Init
    <3> QED
      BY <3>1, <3>2, <3>3 DEF TypeOK
  <2> QED
    BY <2>1 DEF Init, MeshInv, DeafSince
<1>2. MeshInv /\ [Next]_vars => MeshInv'
  BY MeshStep
<1>3. MeshInv => TypeOK
  BY DEF MeshInv
<1>4. MeshInv /\ [Next]_vars =>
        [\A n \in Nodes : ~Lost(n) /\ Lost(n)' => deaf[n] >= EscalateAfter]_vars
  <2> SUFFICES ASSUME MeshInv, Next, NEW n \in Nodes, ~Lost(n), Lost(n)'
               PROVE  deaf[n] >= EscalateAfter
    OBVIOUS
  <2>1. escalated' # escalated
    BY DEF Lost
  <2>2. PICK sent \in SUBSET Nodes : Tick(sent)
    BY <2>1 DEF Next, Elapse, Beacon, Answer, Hear, LoseCommand, LinkLost, LinkReopens, DeclareOwn, facts
  <2> QED
    BY <2>2, TickFacts
<1>5. MeshInv /\ [Next]_vars =>
        [judged' /\ ~judged /\ link => \A n \in Views : Lost(n)' => health'[n] = "offline"]_vars
  <2> SUFFICES ASSUME MeshInv, Next, judged', ~judged, link, NEW n \in Views, Lost(n)'
               PROVE  health'[n] = "offline"
    OBVIOUS
  <2>1. PICK sent \in SUBSET Nodes : Tick(sent)
    BY DEF Next, Elapse, Beacon, Answer, Hear, LoseCommand, LinkLost, LinkReopens, DeclareOwn, facts
  <2> QED
    BY <2>1, TickFacts
<1>6. MeshInv /\ [Next]_vars =>
        [judged' /\ ~judged /\ Views # {} => count' = Cardinality(Views \cap escalated')]_vars
  <2> SUFFICES ASSUME MeshInv, Next, judged', ~judged, Views # {}
               PROVE  count' = Cardinality(Views \cap escalated')
    OBVIOUS
  <2>1. PICK sent \in SUBSET Nodes : Tick(sent)
    BY DEF Next, Elapse, Beacon, Answer, Hear, LoseCommand, LinkLost, LinkReopens, DeclareOwn, facts
  <2> QED
    BY <2>1, TickFacts
<1> QED
  BY <1>1, <1>2, <1>3, <1>4, <1>5, <1>6, PTL
     DEF Spec, ConclusionsFit, SilenceWasHeard, LostAreOffline, CountAgrees

-----------------------------------------------------------------------------
(* Peers and their announcements *)

\* The boards, the brain and its listener, and nothing beside them.
P2pSpec == P2pInit /\ [][P2pNext]_p2pVars

Datagram == [id : Peers, key : Nat \ {0}, tools : Toolsets, seq : Nat]
MaybeTools == Toolsets \cup {None}
Event == [kind : {"joined"}, id : Peers, tools : Toolsets] \cup [kind : {"left"}, id : Peers, tools : {None}]
Snapshot == [kind : {"snapshot"}, peers : [Peers -> MaybeTools]]
Message == Event \cup Snapshot
Board == [key : Nat \ {0}, file : Nat \cup {None}, epoch : Nat, count : 0 .. MaxPerBoot, torn : BOOLEAN]
Mark == [key : Nat, seq : Nat]

TodoTypes ==
  /\ todo = [persist |-> todo.persist, events |-> todo.events, settles |-> todo.settles]
  /\ todo.persist \in BOOLEAN
  /\ todo.events \in Seq(Event)
  /\ todo.settles \in SUBSET Peers

PeerTypes ==
  /\ board \in [Peers -> Board]
  /\ air \in SUBSET Datagram
  /\ registry \in [Peers -> [tools : MaybeTools, silent : BOOLEAN]]
  /\ marks \in [Peers -> Mark] /\ markFile \in [Peers -> Mark]
  /\ pins \in [Peers -> Nat] /\ pinFile = pins
  /\ TodoTypes
  /\ channel \in Seq(Message)
  /\ resync \in BOOLEAN
  /\ view \in [Peers -> MaybeTools]
  /\ brainStops \in Nat
  /\ unsettled \in [Peers -> SUBSET Datagram]
  /\ taken \in SUBSET air

\* A mark and a pin keep out what is no longer to be taken.
KeptOut(d, m, pin) ==
  \/ d.key = m.key /\ d.seq <= m.seq
  \/ d.key # m.key /\ pin \notin {0, d.key}

\* What was taken is kept out, by what the brain remembers and by what it would
\* start from, but for what may be replayed.
TakenKeptOut ==
  /\ \A d \in taken \ replayable : KeptOut(d, marks[d.id], pins[d.id])
  /\ \A d \in taken \ replayable : d \notin unsettled[d.id] => KeptOut(d, markFile[d.id], pins[d.id])
  /\ ~todo.persist => \A n \in todo.settles : markFile[n] = marks[n]

\* What is in the air of a board is behind it.
Ahead(b, d) == d.key = b.key /\ ~b.torn => b.epoch > 0 /\ d.seq <= SeqNo(b.epoch, b.count)
OnFile(b) == ~b.torn => b.file = b.epoch \/ (b.file = None /\ b.epoch = 0)
MarkHeard(n, m) == m = NoMark \/ \E d \in air : d.id = n /\ d.key = m.key /\ d.seq = m.seq

BoardsAhead ==
  /\ \A d \in air : d.key <= board[d.id].key /\ Ahead(board[d.id], d)
  /\ \A n \in Peers : OnFile(board[n]) /\ MarkHeard(n, marks[n]) /\ MarkHeard(n, markFile[n])

\* What the task is about to tell is the registry.
TellsRegistry == \A i \in DOMAIN todo.events : todo.events[i].tools = registry[todo.events[i].id].tools

P2pInv ==
  /\ PeerTypes
  /\ TakenKeptOut
  /\ ReplaysRefused
  /\ BoardsAhead
  /\ TellsRegistry
  /\ ViewFollows

-----------------------------------------------------------------------------
(* Events *)

\* Where the events about a peer agree from some place on, they agree on the
\* last of them.
LEMMA LastAgrees ==
  ASSUME NEW S, NEW es \in Seq(S), NEW n, NEW t, NEW v, NEW k \in DOMAIN es, IsAbout(es[k], n),
         \A j \in DOMAIN es : j >= k /\ IsAbout(es[j], n) => Says(es[j], n) = t
  PROVE  WillHave(v, es, n, t)
<1>1. PICK len \in Nat : DOMAIN es = 1 .. len
  <2>1. Len(es) \in Nat /\ DOMAIN es = 1 .. Len(es)
    OBVIOUS
  <2> QED
    BY <2>1
<1> DEFINE fromEnd == {i \in Nat : len - i \in DOMAIN es /\ len - i >= k /\ IsAbout(es[len - i], n)}
<1>2. fromEnd # {}
  <2>1. len - k \in Nat /\ len - (len - k) = k /\ k >= k
    BY <1>1
  <2> QED
    BY <2>1
<1>3. PICK i \in fromEnd : \A m \in fromEnd : ~(<<m, i>> \in OpToRel(<, Nat))
  BY <1>2, NatLessThanWellFounded, WFMin
<1>4. \A m \in fromEnd : ~(m \in Nat /\ i \in Nat /\ m < i)
  BY <1>3, Zenon DEF OpToRel
<1>5. i \in Nat /\ len - i \in DOMAIN es /\ len - i >= k /\ IsAbout(es[len - i], n)
  BY <1>3
<1>6. ASSUME NEW j \in DOMAIN es, j > len - i
      PROVE  ~IsAbout(es[j], n)
  <2> SUFFICES ASSUME IsAbout(es[j], n)
               PROVE  FALSE
    OBVIOUS
  <2>1. len - j \in Nat /\ len - (len - j) = j /\ j >= k /\ len - j < i
    BY <1>1, <1>5, <1>6
  <2>2. len - j \in fromEnd
    BY <2>1
  <2> QED
    BY <1>4, <1>5, <2>1, <2>2
<1> QED
  BY <1>5, <1>6 DEF WillHave

\* What comes after and is not about a peer tells nothing of it.
LEMMA OthersPass ==
  ASSUME NEW S, NEW c \in Seq(S), NEW w \in Seq(S), NEW n, NEW t, NEW v,
         WillHave(v, c, n, t), \A i \in DOMAIN w : ~IsAbout(w[i], n)
  PROVE  WillHave(v, c \o w, n, t)
<1>1. PICK a \in Nat, b \in Nat : a = Len(c) /\ b = Len(w) /\ DOMAIN c = 1 .. a /\ DOMAIN w = 1 .. b
  OBVIOUS
<1>2. /\ DOMAIN (c \o w) = 1 .. a + b
      /\ \A i \in 1 .. a : (c \o w)[i] = c[i]
      /\ \A i \in a + 1 .. a + b : (c \o w)[i] = w[i - a] /\ i - a \in 1 .. b
  BY <1>1
<1>3. \A i \in a + 1 .. a + b : ~IsAbout((c \o w)[i], n)
  BY <1>1, <1>2
<1>4. \A i \in 1 .. a + b : i \in 1 .. a \/ i \in a + 1 .. a + b
  OBVIOUS
<1>5. CASE v = t /\ \A i \in DOMAIN c : ~IsAbout(c[i], n)
  <2>1. \A i \in 1 .. a + b : ~IsAbout((c \o w)[i], n)
    BY <1>1, <1>2, <1>3, <1>4, <1>5
  <2> QED
    BY <1>2, <1>5, <2>1 DEF WillHave
<1>6. CASE \E i \in DOMAIN c : /\ IsAbout(c[i], n) /\ Says(c[i], n) = t
                               /\ \A j \in DOMAIN c : j > i => ~IsAbout(c[j], n)
  <2>1. PICK i \in 1 .. a : /\ IsAbout(c[i], n) /\ Says(c[i], n) = t
                            /\ \A j \in 1 .. a : j > i => ~IsAbout(c[j], n)
    BY <1>1, <1>6
  <2>2. i \in 1 .. a + b /\ IsAbout((c \o w)[i], n) /\ Says((c \o w)[i], n) = t
    BY <1>2, <2>1
  <2>3. \A j \in 1 .. a + b : j > i => ~IsAbout((c \o w)[j], n)
    BY <1>2, <1>3, <1>4, <2>1
  <2> QED
    BY <1>2, <2>2, <2>3 DEF WillHave
<1> QED
  BY <1>5, <1>6 DEF WillHave

\* The first event, once told, is behind.
LEMMA FirstTold ==
  ASSUME NEW S, NEW es \in Seq(S), es # << >>, NEW n, NEW t, NEW v, NEW u, WillHave(v, es, n, t),
         u = IF IsAbout(es[1], n) THEN Says(es[1], n) ELSE v
  PROVE  WillHave(u, Tail(es), n, t)
<1>1. PICK a \in Nat : a = Len(es) /\ DOMAIN es = 1 .. a /\ a > 0
  OBVIOUS
<1>2. DOMAIN Tail(es) = 1 .. a - 1 /\ \A i \in 1 .. a - 1 : Tail(es)[i] = es[i + 1]
  BY <1>1
<1>3. CASE v = t /\ \A i \in DOMAIN es : ~IsAbout(es[i], n)
  <2>1. u = t
    BY <1>1, <1>3
  <2>2. \A i \in 1 .. a - 1 : ~IsAbout(Tail(es)[i], n)
    BY <1>1, <1>2, <1>3
  <2> QED
    BY <1>2, <2>1, <2>2 DEF WillHave
<1>4. CASE \E i \in DOMAIN es : /\ IsAbout(es[i], n) /\ Says(es[i], n) = t
                                /\ \A j \in DOMAIN es : j > i => ~IsAbout(es[j], n)
  <2>1. PICK i \in 1 .. a : /\ IsAbout(es[i], n) /\ Says(es[i], n) = t
                            /\ \A j \in 1 .. a : j > i => ~IsAbout(es[j], n)
    BY <1>1, <1>4
  <2>2. CASE i = 1
    <3>1. u = t
      BY <2>1, <2>2
    <3>2. \A j \in 1 .. a - 1 : j + 1 \in 1 .. a /\ j + 1 > i
      BY <2>2
    <3>3. \A j \in 1 .. a - 1 : ~IsAbout(Tail(es)[j], n)
      BY <1>2, <2>1, <3>2
    <3> QED
      BY <1>2, <3>1, <3>3 DEF WillHave
  <2>3. CASE i # 1
    <3>1. i - 1 \in 1 .. a - 1 /\ (i - 1) + 1 = i
      BY <2>3
    <3>2. IsAbout(Tail(es)[i - 1], n) /\ Says(Tail(es)[i - 1], n) = t
      BY <1>2, <2>1, <3>1
    <3>3. \A j \in 1 .. a - 1 : j > i - 1 => j + 1 \in 1 .. a /\ j + 1 > i
      OBVIOUS
    <3>4. \A j \in 1 .. a - 1 : j > i - 1 => ~IsAbout(Tail(es)[j], n)
      BY <1>2, <2>1, <3>3
    <3> QED
      BY <1>2, <3>1, <3>2, <3>4 DEF WillHave
  <2> QED
    BY <2>2, <2>3
<1> QED
  BY <1>3, <1>4 DEF WillHave

-----------------------------------------------------------------------------
(* The first state, and the steps of the boards *)

LEMMA MeshStarts ==
  ASSUME P2pInit
  PROVE  P2pInv
<1> USE P2pAssumption
<1>1. Offline \in [tools : MaybeTools, silent : BOOLEAN] /\ NoMark \in Mark
  BY DEF Offline, MaybeTools, NoMark, Mark
<1>2. [key |-> 1, file |-> None, epoch |-> 0, count |-> 0, torn |-> FALSE] \in Board
  BY DEF Board
<1>3. todo.persist = FALSE /\ todo.events = << >> /\ todo.settles = {}
  BY DEF P2pInit, NoWork
<1>4. TodoTypes
  BY <1>3 DEF P2pInit, NoWork, TodoTypes
<1>5. PeerTypes
  <2>1. board \in [Peers -> Board] /\ registry \in [Peers -> [tools : MaybeTools, silent : BOOLEAN]]
    BY <1>1, <1>2 DEF P2pInit
  <2>2. marks \in [Peers -> Mark] /\ markFile \in [Peers -> Mark] /\ pins \in [Peers -> Nat] /\ pinFile = pins
    BY <1>1 DEF P2pInit
  <2>3. channel \in Seq(Message) /\ resync \in BOOLEAN /\ brainStops \in Nat
    <3>1. channel = << >> /\ resync = FALSE /\ brainStops = 0
      BY DEF P2pInit
    <3>2. << >> \in Seq(Message)
      OBVIOUS
    <3> QED
      BY <3>1, <3>2
  <2>4. view \in [Peers -> MaybeTools] /\ unsettled \in [Peers -> SUBSET Datagram]
    BY DEF P2pInit, MaybeTools
  <2>5. air \in SUBSET Datagram /\ taken \in SUBSET air
    BY DEF P2pInit
  <2> QED
    BY <1>4, <2>1, <2>2, <2>3, <2>4, <2>5 DEF PeerTypes
<1>6. TakenKeptOut /\ ReplaysRefused /\ TellsRegistry
  BY <1>3 DEF P2pInit, TakenKeptOut, ReplaysRefused, TellsRegistry
<1>7. BoardsAhead
  BY DEF P2pInit, BoardsAhead, OnFile, MarkHeard, NoMark
<1>8. ViewFollows
  <2>1. channel \o todo.events = << >>
    BY <1>3 DEF P2pInit
  <2>2. \A n \in Peers : view[n] = None /\ registry[n].tools = None
    BY DEF P2pInit, Offline
  <2> QED
    BY <2>1, <2>2 DEF ViewFollows, WillHave
<1> QED
  BY <1>5, <1>6, <1>7, <1>8 DEF P2pInv

\* What the brain holds is as before, and so is what depends on it alone.
LEMMA BrainHeld ==
  ASSUME P2pInv, UNCHANGED brainVars, board' \in [Peers -> Board], air' \in SUBSET Datagram,
         air \subseteq air', BoardsAhead'
  PROVE  P2pInv'
<1>1. PeerTypes'
  BY DEF P2pInv, PeerTypes, TodoTypes, brainVars
<1>2. TakenKeptOut' /\ ReplaysRefused' /\ TellsRegistry' /\ ViewFollows'
  BY DEF P2pInv, TakenKeptOut, ReplaysRefused, TellsRegistry, ViewFollows, brainVars
<1> QED
  BY <1>1, <1>2 DEF P2pInv

\* Counting on under one epoch, and the next epoch, are both ahead.
LEMMA SeqNoGrows ==
  ASSUME NEW e \in Nat, NEW f \in Nat, NEW c \in 0 .. MaxPerBoot
  PROVE  /\ SeqNo(e, c) \in Nat
         /\ SeqNo(e, c) < SeqNo(e, c + 1)
         /\ f > e => SeqNo(e, c) < SeqNo(f, 0)
<1> PICK m \in Nat : m = MaxPerBoot
  BY P2pAssumption
<1>1. e * (m + 1) \in Nat /\ f * (m + 1) \in Nat
  OBVIOUS
<1>2. SeqNo(e, c) = e * (m + 1) + c /\ SeqNo(e, c + 1) = e * (m + 1) + c + 1
  BY <1>1 DEF SeqNo
<1>3. SeqNo(f, 0) = f * (m + 1)
  BY <1>1 DEF SeqNo
<1>4. ASSUME f > e
      PROVE  SeqNo(e, c) < SeqNo(f, 0)
  <2>1. PICK g \in Nat : f = e + 1 + g
    <3>1. f - e - 1 \in Nat /\ f = e + 1 + (f - e - 1)
      BY <1>4
    <3> QED
      BY <3>1
  <2>2. f * (m + 1) = e * (m + 1) + (m + 1) + g * (m + 1) /\ g * (m + 1) \in Nat
    BY <2>1
  <2> QED
    BY <1>1, <1>2, <1>3, <2>2
<1> QED
  BY <1>1, <1>2, <1>4

LEMMA BoardBootsKeeps ==
  ASSUME P2pInv, NEW n \in Peers, NEW clock \in Clocks, NEW written \in BOOLEAN,
         BoardBoots(n, clock, written)
  PROVE  P2pInv'
<1> USE P2pAssumption
<1> DEFINE epoch == NextBootEpoch(board[n].file, clock)
<1>1. PICK b \in Board : b = board[n]
  BY DEF P2pInv, PeerTypes
<1>2. epoch \in Nat
  BY <1>1 DEF NextBootEpoch, Higher, Board
<1>3. PICK q : q = [key |-> b.key, epoch |-> epoch, count |-> 0,
                    file |-> IF written THEN epoch ELSE b.file, torn |-> b.torn \/ ~written]
  OBVIOUS
<1>4. board' = [board EXCEPT ![n] = q]
  BY <1>1, <1>3 DEF BoardBoots
<1>5. q \in Board
  BY <1>1, <1>2, <1>3 DEF Board
<1>6. board' \in [Peers -> Board] /\ board'[n] = q /\ \A m \in Peers \ {n} : board'[m] = board[m]
  BY <1>4, <1>5 DEF P2pInv, PeerTypes
<1>7. UNCHANGED <<air, brainVars>>
  BY DEF BoardBoots
<1>8. ASSUME NEW d \in air
      PROVE  d.key <= board'[d.id].key /\ Ahead(board'[d.id], d)
  <2>1. d \in Datagram /\ d.key <= board[d.id].key /\ Ahead(board[d.id], d)
    BY DEF P2pInv, PeerTypes, BoardsAhead
  <2>2. CASE d.id # n
    BY <1>6, <2>1, <2>2 DEF Datagram
  <2>3. CASE d.id = n
    <3>1. d.key <= q.key
      BY <1>1, <1>3, <2>1, <2>3
    <3>2. ASSUME d.key = q.key, ~q.torn
          PROVE  q.epoch > 0 /\ d.seq <= SeqNo(q.epoch, q.count)
      <4>1. ~b.torn /\ written /\ q.epoch = epoch /\ q.count = 0 /\ d.key = b.key
        BY <1>1, <1>3, <3>2 DEF Board
      <4>2. b.epoch > 0 /\ d.seq <= SeqNo(b.epoch, b.count)
        BY <1>1, <2>1, <2>3, <4>1 DEF Ahead
      <4>3. b.file = b.epoch
        BY <1>1, <4>1, <4>2 DEF P2pInv, BoardsAhead, OnFile
      <4>4. b.epoch \in Nat /\ b.count \in 0 .. MaxPerBoot /\ d.seq \in Nat /\ clock \in Nat
        BY <2>1 DEF Board, Datagram
      <4>5. epoch > b.epoch
        <5>1. epoch = Higher(clock, b.epoch + 1)
          BY <1>1, <4>3, <4>4 DEF NextBootEpoch
        <5> QED
          BY <4>4, <5>1 DEF Higher
      <4>6. SeqNo(b.epoch, b.count) < SeqNo(epoch, 0) /\ SeqNo(b.epoch, b.count) \in Nat
        BY <1>2, <4>4, <4>5, SeqNoGrows
      <4>7. SeqNo(epoch, 0) \in Nat
        BY <1>2, SeqNoGrows
      <4> HIDE DEF epoch
      <4> QED
        BY <1>2, <4>1, <4>2, <4>4, <4>5, <4>6, <4>7
    <3> QED
      BY <1>6, <2>3, <3>1, <3>2 DEF Ahead
  <2> QED
    BY <2>2, <2>3
<1>9. OnFile(q)
  BY <1>1, <1>3 DEF OnFile, Board
<1>10. BoardsAhead'
  BY <1>6, <1>7, <1>8, <1>9 DEF P2pInv, BoardsAhead, MarkHeard, OnFile, brainVars
<1> QED
  BY <1>6, <1>7, <1>10, BrainHeld DEF P2pInv, PeerTypes

LEMMA ReflashKeeps ==
  ASSUME P2pInv, NEW n \in Peers, Reflash(n)
  PROVE  P2pInv'
<1> USE P2pAssumption
<1>1. PICK b \in Board : b = board[n]
  BY DEF P2pInv, PeerTypes
<1>2. PICK q : q = [key |-> b.key + 1, file |-> None, epoch |-> 0, count |-> 0, torn |-> FALSE]
  OBVIOUS
<1>3. board' = [board EXCEPT ![n] = q] /\ q \in Board
  BY <1>1, <1>2 DEF Reflash, Board
<1>4. board' \in [Peers -> Board] /\ board'[n] = q /\ \A m \in Peers \ {n} : board'[m] = board[m]
  BY <1>3 DEF P2pInv, PeerTypes
<1>5. UNCHANGED <<air, brainVars>>
  BY DEF Reflash
<1>6. ASSUME NEW d \in air
      PROVE  d.key <= board'[d.id].key /\ Ahead(board'[d.id], d)
  <2>1. d \in Datagram /\ d.key <= board[d.id].key /\ Ahead(board[d.id], d)
    BY DEF P2pInv, PeerTypes, BoardsAhead
  <2>2. CASE d.id # n
    BY <1>4, <2>1, <2>2 DEF Datagram
  <2>3. CASE d.id = n
    <3>1. d.key < q.key
      BY <1>1, <1>2, <2>1, <2>3 DEF Board, Datagram
    <3> QED
      BY <1>3, <1>4, <2>1, <2>3, <3>1 DEF Ahead, Board, Datagram
  <2> QED
    BY <2>2, <2>3
<1>7. OnFile(q)
  BY <1>2 DEF OnFile
<1>8. BoardsAhead'
  BY <1>4, <1>5, <1>6, <1>7 DEF P2pInv, BoardsAhead, MarkHeard, OnFile, brainVars
<1> QED
  BY <1>4, <1>5, <1>8, BrainHeld DEF P2pInv, PeerTypes

LEMMA AnnounceKeeps ==
  ASSUME P2pInv, NEW n \in Peers, NEW tools \in Toolsets, Announce(n, tools)
  PROVE  P2pInv'
<1> USE P2pAssumption
<1>1. PICK b \in Board : b = board[n]
  BY DEF P2pInv, PeerTypes
<1>2. PICK e \in Nat, c \in Nat : e = b.epoch /\ c = b.count /\ e > 0 /\ c < MaxPerBoot
  BY <1>1 DEF Board, Announce
<1>3. PICK q : q = [b EXCEPT !.count = c + 1]
  OBVIOUS
<1>4. board' = [board EXCEPT ![n] = q]
  BY <1>1, <1>2, <1>3 DEF Announce
<1>5. q \in Board /\ q.key = b.key /\ q.file = b.file /\ q.epoch = e /\ q.torn = b.torn /\ q.count = c + 1
  BY <1>1, <1>2, <1>3 DEF Board
<1>6. board' \in [Peers -> Board] /\ board'[n] = q /\ \A m \in Peers \ {n} : board'[m] = board[m]
  BY <1>4, <1>5 DEF P2pInv, PeerTypes
<1>7. SeqNo(e, c) \in Nat /\ SeqNo(e, c + 1) \in Nat /\ SeqNo(e, c) < SeqNo(e, c + 1)
  <2>1. c \in 0 .. MaxPerBoot /\ c + 1 \in 0 .. MaxPerBoot
    BY <1>2
  <2>2. SeqNo(e, c) \in Nat /\ SeqNo(e, c) < SeqNo(e, c + 1)
    BY <2>1, SeqNoGrows
  <2>3. SeqNo(e, c + 1) \in Nat
    BY <2>1, SeqNoGrows
  <2> QED
    BY <2>2, <2>3
<1>8. PICK a : a = [id |-> n, key |-> b.key, tools |-> tools, seq |-> SeqNo(e, c + 1)]
  OBVIOUS
<1>9. a \in Datagram /\ a.id = n /\ a.key = b.key /\ a.seq = SeqNo(e, c + 1)
  BY <1>1, <1>7, <1>8 DEF Datagram, Board
<1>10. air' = air \cup {a} /\ UNCHANGED brainVars
  BY <1>1, <1>2, <1>8 DEF Announce
<1>11. air' \in SUBSET Datagram
  BY <1>9, <1>10 DEF P2pInv, PeerTypes
<1>12. ASSUME NEW d \in air'
       PROVE  d.key <= board'[d.id].key /\ Ahead(board'[d.id], d)
  <2>1. CASE d \in air
    <3>1. d \in Datagram /\ d.key <= board[d.id].key /\ Ahead(board[d.id], d)
      BY <2>1 DEF P2pInv, PeerTypes, BoardsAhead
    <3>2. CASE d.id # n
      BY <1>6, <3>1, <3>2 DEF Datagram
    <3>3. CASE d.id = n
      <4>1. Ahead(b, d) => Ahead(q, d)
        BY <1>2, <1>5, <1>7, <3>1 DEF Ahead, Datagram
      <4> QED
        BY <1>1, <1>5, <1>6, <3>1, <3>3, <4>1
    <3> QED
      BY <3>2, <3>3
  <2>2. CASE d = a
    BY <1>1, <1>2, <1>5, <1>6, <1>7, <1>9, <2>2 DEF Ahead, Board
  <2> QED
    BY <1>10, <2>1, <2>2
<1>13. OnFile(q)
  BY <1>1, <1>2, <1>5 DEF OnFile, P2pInv, BoardsAhead
<1>14. \A m \in Peers : OnFile(board'[m])
  BY <1>6, <1>13 DEF P2pInv, BoardsAhead
<1>15. \A m \in Peers : MarkHeard(m, marks[m])' /\ MarkHeard(m, markFile[m])'
  BY <1>10 DEF P2pInv, BoardsAhead, MarkHeard, brainVars
<1>16. BoardsAhead'
  BY <1>12, <1>14, <1>15 DEF BoardsAhead, Ahead, OnFile
<1> QED
  BY <1>6, <1>10, <1>11, <1>16, BrainHeld

-----------------------------------------------------------------------------
(* What the brain takes *)

LEMMA PinKeeps ==
  ASSUME P2pInv, NEW d \in air, Pin(d)
  PROVE  P2pInv'
<1>1. d \in Datagram
  BY DEF P2pInv, PeerTypes
<1>2. pins' \in [Peers -> Nat] /\ pins'[d.id] = d.key /\ \A n \in Peers \ {d.id} : pins'[n] = pins[n]
  BY <1>1 DEF Pin, P2pInv, PeerTypes, Datagram
<1>3. PeerTypes'
  BY <1>2 DEF Pin, P2pInv, PeerTypes, TodoTypes
<1>4. ASSUME NEW e \in Datagram, NEW m, KeptOut(e, m, pins[e.id])
      PROVE  KeptOut(e, m, pins'[e.id])
  <2>1. CASE e.id = d.id
    BY <1>1, <1>2, <1>4, <2>1 DEF Pin, KeptOut
  <2>2. CASE e.id # d.id
    BY <1>1, <1>2, <1>4, <2>2 DEF Datagram
  <2> QED
    BY <2>1, <2>2
<1>5. TakenKeptOut'
  <2>1. taken \subseteq Datagram
    BY DEF P2pInv, PeerTypes
  <2>2. UNCHANGED <<taken, replayable, marks, markFile, unsettled, todo>>
    BY DEF Pin
  <2>3. \A e \in taken \ replayable : KeptOut(e, marks[e.id], pins'[e.id])
    BY <1>4, <2>1 DEF P2pInv, TakenKeptOut
  <2>4. \A e \in taken \ replayable : e \notin unsettled[e.id] => KeptOut(e, markFile[e.id], pins'[e.id])
    BY <1>4, <2>1 DEF P2pInv, TakenKeptOut
  <2> QED
    BY <2>2, <2>3, <2>4 DEF P2pInv, TakenKeptOut
<1>6. ReplaysRefused' /\ BoardsAhead' /\ TellsRegistry' /\ ViewFollows'
  BY DEF Pin, P2pInv, ReplaysRefused, BoardsAhead, OnFile, Ahead, MarkHeard, TellsRegistry, ViewFollows
<1> QED
  BY <1>3, <1>5, <1>6 DEF P2pInv

LEMMA TakeKeeps ==
  ASSUME P2pInv, NEW d \in air, Take(d)
  PROVE  P2pInv'
<1> USE P2pAssumption
<1> DEFINE first == registry[d.id] = Offline
           joined == registry[d.id].tools # d.tools
<1>1. d \in Datagram
  BY DEF P2pInv, PeerTypes
<1>2. PICK m \in Mark : m = [key |-> d.key, seq |-> d.seq]
  BY <1>1 DEF Mark, Datagram
<1>3. /\ marks' \in [Peers -> Mark] /\ marks'[d.id].key = d.key /\ marks'[d.id].seq = d.seq
      /\ \A n \in Peers \ {d.id} : marks'[n] = marks[n]
  <2>1. marks' = [marks EXCEPT ![d.id] = m]
    BY <1>2 DEF Take
  <2>2. marks' \in [Peers -> Mark] /\ marks'[d.id] = m /\ \A n \in Peers \ {d.id} : marks'[n] = marks[n]
    BY <1>1, <2>1 DEF P2pInv, PeerTypes, Datagram
  <2> QED
    BY <1>2, <2>2
<1>4. PICK r \in [tools : MaybeTools, silent : BOOLEAN] : r = [tools |-> d.tools, silent |-> FALSE]
  BY <1>1 DEF MaybeTools, Datagram
<1>5. /\ registry' \in [Peers -> [tools : MaybeTools, silent : BOOLEAN]]
      /\ registry'[d.id].tools = d.tools
      /\ \A n \in Peers \ {d.id} : registry'[n] = registry[n]
  <2>1. registry' = [registry EXCEPT ![d.id] = r]
    BY <1>4 DEF Take
  <2>2. /\ registry' \in [Peers -> [tools : MaybeTools, silent : BOOLEAN]]
        /\ registry'[d.id] = r /\ \A n \in Peers \ {d.id} : registry'[n] = registry[n]
    BY <1>1, <2>1 DEF P2pInv, PeerTypes, Datagram
  <2> QED
    BY <1>4, <2>2
<1>6. PICK ev \in Event : ev = [kind |-> "joined", id |-> d.id, tools |-> d.tools]
  BY <1>1 DEF Event, MaybeTools, Datagram
<1>7. todo = NoWork /\ todo.events = << >>
  BY DEF Take, NoWork
<1>8. /\ todo'.persist = first
      /\ todo'.events = (IF joined THEN <<ev>> ELSE << >>)
      /\ todo'.settles = (IF first THEN {d.id} ELSE {})
      /\ todo' = [persist |-> todo'.persist, events |-> todo'.events, settles |-> todo'.settles]
  BY <1>6 DEF Take
<1>9. TodoTypes'
  <2>1. todo'.events \in Seq(Event)
    BY <1>6, <1>8
  <2>2. todo'.settles \in SUBSET Peers /\ todo'.persist \in BOOLEAN
    BY <1>1, <1>8 DEF Datagram
  <2> QED
    BY <1>8, <2>1, <2>2 DEF TodoTypes
<1>10. /\ unsettled' \in [Peers -> SUBSET Datagram]
       /\ unsettled'[d.id] = unsettled[d.id] \cup {d}
       /\ \A n \in Peers \ {d.id} : unsettled'[n] = unsettled[n]
  BY <1>1 DEF Take, P2pInv, PeerTypes, Datagram
<1>11. UNCHANGED <<board, air, markFile, pins, pinFile, channel, resync, view, brainStops, replayable>>
  BY DEF Take
<1>12. taken' = taken \cup {d}
  BY DEF Take
<1>13. PeerTypes'
  BY <1>3, <1>5, <1>9, <1>10, <1>11, <1>12 DEF P2pInv, PeerTypes
<1>14. ReplaysRefused'
  <2>1. ASSUME d \in taken, d \notin replayable
        PROVE  FALSE
    <3>1. KeptOut(d, marks[d.id], pins[d.id])
      BY <2>1 DEF P2pInv, TakenKeptOut
    <3> QED
      BY <3>1 DEF KeptOut, Take, Newer
  <2> QED
    BY <1>11, <2>1 DEF Take, P2pInv, ReplaysRefused
<1>15. TakenKeptOut'
  <2>1. ASSUME NEW e \in taken' \ replayable'
        PROVE  KeptOut(e, marks'[e.id], pins'[e.id])
    <3>1. CASE e = d
      BY <1>1, <1>3, <3>1 DEF KeptOut, Datagram
    <3>2. CASE e # d
      <4>1. e \in taken \ replayable /\ e \in Datagram
        BY <1>11, <1>12, <3>2 DEF P2pInv, PeerTypes
      <4>2. KeptOut(e, marks[e.id], pins[e.id])
        BY <4>1 DEF P2pInv, TakenKeptOut
      <4>3. CASE e.id # d.id
        BY <1>3, <1>11, <4>1, <4>2, <4>3 DEF Datagram
      <4>4. CASE e.id = d.id
        <5>1. pins[e.id] = d.key /\ d.key # 0
          BY <1>1, <4>4 DEF Take, Datagram
        <5>2. CASE e.key # d.key
          BY <1>3, <1>11, <4>4, <5>1, <5>2 DEF KeptOut
        <5>3. CASE e.key = d.key
          <6>1. e.key = marks[e.id].key /\ e.seq <= marks[e.id].seq
            BY <4>2, <5>1, <5>3 DEF KeptOut
          <6>2. ~(d.seq <= marks[e.id].seq)
            BY <4>4, <5>3, <6>1 DEF Take, Newer
          <6>3. marks[e.id].seq \in Nat
            BY <4>1 DEF P2pInv, PeerTypes, Mark, Datagram
          <6>4. e.seq <= d.seq
            BY <1>1, <4>1, <6>1, <6>2, <6>3 DEF Datagram
          <6> QED
            BY <1>3, <4>4, <5>3, <6>4 DEF KeptOut
        <5> QED
          BY <5>2, <5>3
      <4> QED
        BY <4>3, <4>4
    <3> QED
      BY <3>1, <3>2
  <2>2. ASSUME NEW e \in taken' \ replayable', e \notin unsettled'[e.id]
        PROVE  KeptOut(e, markFile'[e.id], pins'[e.id])
    <3>1. e # d
      BY <1>10, <2>2
    <3>2. e \in taken \ replayable /\ e \in Datagram
      BY <1>11, <1>12, <3>1 DEF P2pInv, PeerTypes
    <3>3. e \notin unsettled[e.id]
      BY <1>10, <2>2, <3>2 DEF Datagram
    <3> QED
      BY <1>11, <3>2, <3>3 DEF P2pInv, TakenKeptOut
  <2>3. ~todo'.persist => todo'.settles = {}
    BY <1>8
  <2> QED
    BY <2>1, <2>2, <2>3 DEF TakenKeptOut
<1>16. BoardsAhead'
  <2>1. ASSUME NEW n \in Peers
        PROVE  MarkHeard(n, marks'[n])
    <3>1. CASE n = d.id
      BY <1>3, <3>1 DEF MarkHeard
    <3>2. CASE n # d.id
      BY <1>3, <3>2 DEF P2pInv, BoardsAhead
    <3> QED
      BY <3>1, <3>2
  <2> QED
    BY <1>11, <2>1 DEF P2pInv, BoardsAhead, MarkHeard, OnFile, Ahead
<1>17. TellsRegistry'
  <2>1. \A i \in DOMAIN todo'.events : todo'.events[i] = ev
    BY <1>8
  <2> QED
    BY <1>5, <1>6, <2>1 DEF TellsRegistry
<1>18. ViewFollows'
  <2> SUFFICES ASSUME ~resync, NEW n \in Peers
               PROVE  WillHave(view[n], channel \o todo'.events, n, registry'[n].tools)
    BY <1>11 DEF ViewFollows
  <2>1. channel \in Seq(Message) /\ todo'.events \in Seq(Message)
    BY <1>9 DEF P2pInv, PeerTypes, TodoTypes, Message
  <2>2. WillHave(view[n], channel, n, registry[n].tools)
    <3>1. channel \o todo.events = channel
      BY <1>7, <2>1
    <3> QED
      BY <3>1 DEF P2pInv, ViewFollows
  <2>3. CASE n # d.id
    <3>1. \A i \in DOMAIN todo'.events : ~IsAbout(todo'.events[i], n)
      BY <1>6, <1>8, <2>3 DEF IsAbout
    <3>2. WillHave(view[n], channel \o todo'.events, n, registry[n].tools)
      BY <2>1, <2>2, <3>1, OthersPass
    <3> QED
      BY <1>5, <2>3, <3>2
  <2>4. CASE n = d.id /\ ~joined
    <3>1. channel \o todo'.events = channel
      BY <1>8, <2>1, <2>4
    <3> QED
      BY <1>5, <2>2, <2>4, <3>1
  <2>5. CASE n = d.id /\ joined
    <3>1. PICK a \in Nat : a = Len(channel)
      <4>1. Len(channel) \in Nat
        BY <2>1
      <4> QED
        BY <4>1
    <3>2. PICK es \in Seq(Message) : es = channel \o todo'.events
      <4>1. channel \o todo'.events \in Seq(Message)
        BY <2>1
      <4> QED
        BY <4>1
    <3>3. es = Append(channel, ev)
      BY <1>6, <1>8, <2>1, <2>5, <3>2 DEF Message
    <3>4. DOMAIN es = 1 .. a + 1 /\ es[a + 1] = ev
      BY <1>6, <2>1, <3>1, <3>3 DEF Message
    <3>5. a + 1 \in DOMAIN es /\ IsAbout(es[a + 1], n) /\ Says(es[a + 1], n) = registry'[n].tools
      BY <1>5, <1>6, <2>5, <3>4 DEF IsAbout, Says
    <3>6. \A j \in DOMAIN es : j >= a + 1 => j = a + 1
      BY <3>4
    <3>7. WillHave(view[n], es, n, registry'[n].tools)
      BY <3>5, <3>6, LastAgrees
    <3> QED
      BY <3>2, <3>7
  <2> QED
    BY <2>3, <2>4, <2>5
<1> QED
  BY <1>13, <1>14, <1>15, <1>16, <1>17, <1>18 DEF P2pInv

LEMMA FallsSilentKeeps ==
  ASSUME P2pInv, NEW n \in Peers, FallsSilent(n)
  PROVE  P2pInv'
<1>1. PICK r \in [tools : MaybeTools, silent : BOOLEAN] : r = registry[n]
  BY DEF P2pInv, PeerTypes
<1>2. PICK q : q = [r EXCEPT !.silent = TRUE]
  OBVIOUS
<1>3. q \in [tools : MaybeTools, silent : BOOLEAN] /\ q.tools = registry[n].tools
  BY <1>1, <1>2
<1>4. registry' = [registry EXCEPT ![n] = q]
  BY <1>1, <1>2 DEF FallsSilent
<1>5. registry' \in [Peers -> [tools : MaybeTools, silent : BOOLEAN]] /\ \A m \in Peers : registry'[m].tools = registry[m].tools
  BY <1>3, <1>4 DEF P2pInv, PeerTypes
<1>6. PeerTypes'
  BY <1>5 DEF FallsSilent, P2pInv, PeerTypes, TodoTypes
<1>7. TakenKeptOut' /\ ReplaysRefused' /\ BoardsAhead'
  BY DEF FallsSilent, P2pInv, TakenKeptOut, ReplaysRefused, BoardsAhead, OnFile, Ahead, MarkHeard
<1>8. TellsRegistry' /\ ViewFollows'
  <2>1. \A i \in DOMAIN todo.events : todo.events[i].id \in Peers
    <3>1. \A i \in DOMAIN todo.events : todo.events[i] \in Event
      BY DEF P2pInv, PeerTypes, TodoTypes
    <3> QED
      BY <3>1 DEF Event
  <2> QED
    BY <1>5, <2>1 DEF FallsSilent, P2pInv, TellsRegistry, ViewFollows
<1> QED
  BY <1>6, <1>7, <1>8 DEF P2pInv

LEMMA PersistMarksKeeps ==
  ASSUME P2pInv, PersistMarks
  PROVE  P2pInv'
<1>1. PICK p, es, ss : p = todo.persist /\ es = todo.events /\ ss = todo.settles
                       /\ todo = [persist |-> p, events |-> es, settles |-> ss]
  BY DEF P2pInv, PeerTypes, TodoTypes
<1>2. PICK q : q = [todo EXCEPT !.persist = FALSE]
  OBVIOUS
<1>3. todo' = q /\ q = [persist |-> FALSE, events |-> es, settles |-> ss]
  BY <1>1, <1>2 DEF PersistMarks
<1>4. todo'.persist = FALSE /\ todo'.events = todo.events /\ todo'.settles = todo.settles
  BY <1>1, <1>3
<1>5. TodoTypes'
  BY <1>1, <1>3, <1>4 DEF P2pInv, PeerTypes, TodoTypes
<1>6. PeerTypes'
  BY <1>5 DEF PersistMarks, P2pInv, PeerTypes
<1>7. TakenKeptOut'
  BY DEF PersistMarks, P2pInv, TakenKeptOut
<1>8. BoardsAhead'
  BY DEF PersistMarks, P2pInv, BoardsAhead, OnFile, Ahead, MarkHeard
<1>9. ReplaysRefused' /\ TellsRegistry' /\ ViewFollows'
  BY <1>4 DEF PersistMarks, P2pInv, ReplaysRefused, TellsRegistry, ViewFollows
<1> QED
  BY <1>6, <1>7, <1>8, <1>9 DEF P2pInv

-----------------------------------------------------------------------------
(* What the brain tells *)

\* A sweep tells of every peer that leaves.
LEMMA EachLeaves ==
  ASSUME NEW gone \in SUBSET Peers, NEW es \in LeftEvents(gone)
  PROVE  /\ es \in Seq(Event)
         /\ \A i \in DOMAIN es : es[i].id \in gone /\ es[i].tools = None
         /\ \A n \in gone : \E i \in DOMAIN es : es[i].id = n
<1>1. IsFiniteSet(gone)
  BY P2pAssumption, FS_Subset
<1>2. PICK k \in Nat : k = Cardinality(gone)
  BY <1>1, FS_CardinalityType
<1>3. es \in [1 .. k -> [kind : {"left"}, id : gone, tools : {None}]]
  BY <1>2 DEF LeftEvents
<1>4. \A i, j \in 1 .. k : i # j => es[i].id # es[j].id
  BY <1>2, <1>3 DEF LeftEvents
<1>5. \A i \in 1 .. k : es[i] \in Event /\ es[i].id \in gone /\ es[i].tools = None
  BY <1>3 DEF Event, MaybeTools
<1>6. es \in Seq(Event)
  <2>1. es \in [1 .. k -> Event]
    BY <1>3, <1>5
  <2> QED
    BY <2>1
<1>7. PICK ids \in [1 .. k -> gone] : \A i \in 1 .. k : ids[i] = es[i].id
  <2>1. [i \in 1 .. k |-> es[i].id] \in [1 .. k -> gone]
    BY <1>5
  <2> QED
    BY <2>1
<1>8. ids \in Injection(1 .. k, gone)
  BY <1>4, <1>7 DEF Injection, IsInjective
<1>9. IsFiniteSet(1 .. k) /\ Cardinality(1 .. k) = k
  BY FS_Interval
<1>10. ids \in Surjection(1 .. k, gone)
  BY <1>1, <1>2, <1>8, <1>9, FS_Injection
<1>11. \A n \in gone : \E i \in 1 .. k : es[i].id = n
  BY <1>7, <1>10 DEF Surjection
<1> QED
  BY <1>3, <1>5, <1>6, <1>11

LEMMA EvictKeeps ==
  ASSUME P2pInv, Evict
  PROVE  P2pInv'
<1> USE P2pAssumption
<1> DEFINE gone == {n \in Peers : registry[n].silent}
<1>1. PICK es \in LeftEvents(gone) : todo' = [persist |-> TRUE, events |-> es, settles |-> gone]
  BY DEF Evict
<1>2. gone \in SUBSET Peers
  OBVIOUS
<1>3. /\ es \in Seq(Event)
      /\ \A i \in DOMAIN es : es[i].id \in gone /\ es[i].tools = None
      /\ \A n \in gone : \E i \in DOMAIN es : es[i].id = n
  BY <1>2, EachLeaves
<1>4. Offline \in [tools : MaybeTools, silent : BOOLEAN] /\ Offline.tools = None
  BY DEF Offline, MaybeTools
<1>5. /\ registry' \in [Peers -> [tools : MaybeTools, silent : BOOLEAN]]
      /\ \A n \in gone : registry'[n].tools = None
      /\ \A n \in Peers \ gone : registry'[n] = registry[n]
  BY <1>4 DEF Evict, P2pInv, PeerTypes
<1>6. todo'.persist = TRUE /\ todo'.events = es /\ todo'.settles = gone
  BY <1>1
<1>7. TodoTypes'
  BY <1>1, <1>2, <1>3, <1>6 DEF TodoTypes
<1>8. UNCHANGED <<board, air, marks, markFile, pins, pinFile, channel, resync, view,
                  brainStops, unsettled, replayable, taken, again>>
  BY DEF Evict
<1>9. PeerTypes'
  BY <1>5, <1>7, <1>8 DEF P2pInv, PeerTypes
<1>10. TakenKeptOut'
  BY <1>6, <1>8 DEF P2pInv, TakenKeptOut
<1>11. ReplaysRefused' /\ BoardsAhead'
  BY <1>8 DEF P2pInv, ReplaysRefused, BoardsAhead, OnFile, Ahead, MarkHeard
<1>12. TellsRegistry'
  BY <1>3, <1>5, <1>6 DEF TellsRegistry
<1>13. ViewFollows'
  <2> SUFFICES ASSUME ~resync, NEW n \in Peers
               PROVE  WillHave(view[n], channel \o es, n, registry'[n].tools)
    BY <1>6, <1>8 DEF ViewFollows
  <2>1. channel \in Seq(Message) /\ es \in Seq(Message)
    BY <1>3 DEF P2pInv, PeerTypes, Message
  <2>2. \A i \in DOMAIN es : es[i].kind # "snapshot"
    <3>1. \A i \in DOMAIN es : es[i] \in Event
      BY <1>3
    <3> QED
      BY <3>1 DEF Event
  <2>3. CASE n \notin gone
    <3>1. channel \o todo.events = channel
      BY <2>1 DEF Evict, NoWork
    <3>2. WillHave(view[n], channel, n, registry[n].tools)
      BY <3>1 DEF P2pInv, ViewFollows
    <3>3. \A i \in DOMAIN es : ~IsAbout(es[i], n)
      BY <1>3, <2>2, <2>3 DEF IsAbout
    <3>4. WillHave(view[n], channel \o es, n, registry[n].tools)
      BY <2>1, <3>2, <3>3, OthersPass
    <3> QED
      BY <1>5, <2>3, <3>4
  <2>4. CASE n \in gone
    <3>1. PICK i \in DOMAIN es : es[i].id = n
      BY <1>3, <2>4
    <3>2. Len(channel) \in Nat /\ Len(es) \in Nat
      BY <2>1
    <3>3. PICK a \in Nat, b \in Nat : a = Len(channel) /\ b = Len(es)
      BY <3>2
    <3>4. DOMAIN es = 1 .. b
      BY <2>1, <3>3
    <3>5. /\ DOMAIN (channel \o es) = 1 .. a + b
          /\ \A j \in a + 1 .. a + b : (channel \o es)[j] = es[j - a] /\ j - a \in 1 .. b
      BY <2>1, <3>3
    <3>6. channel \o es \in Seq(Message)
      BY <2>1
    <3>7. a + i \in a + 1 .. a + b /\ (a + i) - a = i
      BY <3>4
    <3>8. a + i \in DOMAIN (channel \o es) /\ IsAbout((channel \o es)[a + i], n)
      BY <3>1, <3>5, <3>7 DEF IsAbout
    <3>9. ASSUME NEW j \in DOMAIN (channel \o es), j >= a + i, IsAbout((channel \o es)[j], n)
          PROVE  Says((channel \o es)[j], n) = None
      <4>1. j \in a + 1 .. a + b
        BY <3>4, <3>5, <3>9
      <4>2. (channel \o es)[j] = es[j - a] /\ j - a \in DOMAIN es
        BY <3>4, <3>5, <4>1
      <4> QED
        BY <1>3, <2>2, <4>2 DEF Says
    <3>10. registry'[n].tools = None
      BY <1>5, <2>4
    <3>11. WillHave(view[n], channel \o es, n, None)
      BY <3>6, <3>8, <3>9, LastAgrees
    <3> QED
      BY <3>10, <3>11
  <2> QED
    BY <2>3, <2>4
<1> QED
  BY <1>9, <1>10, <1>11, <1>12, <1>13 DEF P2pInv

\* A snapshot puts the listener right, whatever it missed, when what the task
\* still has to tell is the registry.
LEMMA SnapshotTells ==
  ASSUME PeerTypes, NEW w \in Seq(Event),
         \A i \in DOMAIN w : w[i].tools = registry[w[i].id].tools,
         NEW snap, snap = [kind |-> "snapshot", peers |-> ToolsOf(registry)]
  PROVE  /\ Append(channel, snap) \in Seq(Message)
         /\ \A n \in Peers : WillHave(view[n], Append(channel, snap) \o w, n, registry[n].tools)
<1>1. snap \in Message /\ snap.kind = "snapshot" /\ \A n \in Peers : snap.peers[n] = registry[n].tools
  BY DEF PeerTypes, ToolsOf, Message, Snapshot
<1>2. channel \in Seq(Message) /\ w \in Seq(Message)
  BY DEF PeerTypes, Message
<1>3. Append(channel, snap) \in Seq(Message)
  BY <1>1, <1>2
<1>4. PICK c \in Seq(Message) : c = Append(channel, snap)
  BY <1>3
<1>5. Len(channel) \in Nat /\ Len(w) \in Nat
  BY <1>2
<1>6. PICK a \in Nat, b \in Nat : a = Len(channel) /\ b = Len(w)
  BY <1>5
<1>7. Len(c) = a + 1 /\ c[a + 1] = snap
  BY <1>1, <1>2, <1>4, <1>6
<1>8. /\ DOMAIN (c \o w) = 1 .. (a + 1) + b
      /\ \A j \in 1 .. a + 1 : (c \o w)[j] = c[j]
      /\ \A j \in a + 2 .. (a + 1) + b : (c \o w)[j] = w[j - (a + 1)] /\ j - (a + 1) \in DOMAIN w
  <2>1. /\ Len(c \o w) = (a + 1) + b
        /\ \A j \in 1 .. (a + 1) + b : (c \o w)[j] = IF j <= a + 1 THEN c[j] ELSE w[j - (a + 1)]
    <3>1. /\ Len(c \o w) = Len(c) + Len(w)
          /\ \A j \in 1 .. Len(c) + Len(w) : (c \o w)[j] = IF j <= Len(c) THEN c[j] ELSE w[j - Len(c)]
      BY <1>2, ConcatProperties
    <3> QED
      BY <1>6, <1>7, <3>1
  <2>2. c \o w \in Seq(Message) /\ DOMAIN w = 1 .. b
    BY <1>2, <1>6
  <2>3. DOMAIN (c \o w) = 1 .. (a + 1) + b
    BY <2>1, <2>2
  <2>4. \A j \in 1 .. a + 1 : j \in 1 .. (a + 1) + b /\ j <= a + 1
    OBVIOUS
  <2>5. \A j \in a + 2 .. (a + 1) + b : j \in 1 .. (a + 1) + b /\ ~(j <= a + 1) /\ j - (a + 1) \in 1 .. b
    OBVIOUS
  <2> QED
    BY <2>1, <2>2, <2>3, <2>4, <2>5
<1>9. c \o w \in Seq(Message)
  BY <1>2
<1>10. ASSUME NEW n \in Peers
       PROVE  WillHave(view[n], c \o w, n, registry[n].tools)
  <2>1. a + 1 \in DOMAIN (c \o w) /\ (c \o w)[a + 1] = snap
    BY <1>7, <1>8
  <2>2. IsAbout((c \o w)[a + 1], n)
    BY <1>1, <2>1 DEF IsAbout
  <2>3. ASSUME NEW j \in DOMAIN (c \o w), j >= a + 1, IsAbout((c \o w)[j], n)
        PROVE  Says((c \o w)[j], n) = registry[n].tools
    <3>1. CASE j = a + 1
      BY <1>1, <2>1, <3>1 DEF Says
    <3>2. CASE j # a + 1
      <4>1. j \in a + 2 .. (a + 1) + b
        BY <1>8, <2>3, <3>2
      <4>2. (c \o w)[j] = w[j - (a + 1)] /\ j - (a + 1) \in DOMAIN w
        BY <1>8, <4>1
      <4>3. PICK e \in Event : e = (c \o w)[j] /\ e.tools = registry[e.id].tools
        BY <4>2
      <4>4. e.kind # "snapshot"
        BY DEF Event
      <4> QED
        BY <2>3, <4>3, <4>4 DEF IsAbout, Says
    <3> QED
      BY <3>1, <3>2
  <2> QED
    BY <1>9, <2>1, <2>2, <2>3, LastAgrees
<1> QED
  BY <1>3, <1>4, <1>10

LEMMA SweepFlushesKeeps ==
  ASSUME P2pInv, SweepFlushes
  PROVE  P2pInv'
<1>1. PICK snap : snap = [kind |-> "snapshot", peers |-> ToolsOf(registry)]
  OBVIOUS
<1>2. channel' = Append(channel, snap) /\ resync' = FALSE
  BY <1>1 DEF SweepFlushes, FlushResync
<1>3. UNCHANGED <<board, air, registry, marks, markFile, pins, pinFile, todo, view,
                  brainStops, unsettled, replayable, taken, again>>
  BY DEF SweepFlushes
<1>4. todo.events \in Seq(Event) /\ PeerTypes
  BY DEF P2pInv, PeerTypes, TodoTypes
<1>5. \A i \in DOMAIN todo.events : todo.events[i].tools = registry[todo.events[i].id].tools
  BY DEF P2pInv, TellsRegistry
<1>6. /\ channel' \in Seq(Message)
      /\ \A n \in Peers : WillHave(view[n], channel' \o todo.events, n, registry[n].tools)
  BY <1>1, <1>2, <1>4, <1>5, SnapshotTells
<1>7. PeerTypes'
  BY <1>2, <1>3, <1>6 DEF P2pInv, PeerTypes, TodoTypes
<1>8. TakenKeptOut' /\ ReplaysRefused' /\ BoardsAhead' /\ TellsRegistry'
  BY <1>3 DEF P2pInv, TakenKeptOut, ReplaysRefused, BoardsAhead, OnFile, Ahead, MarkHeard, TellsRegistry
<1>9. ViewFollows'
  BY <1>3, <1>6 DEF ViewFollows
<1> QED
  BY <1>7, <1>8, <1>9 DEF P2pInv

LEMMA EmitKeeps ==
  ASSUME P2pInv, Emit
  PROVE  P2pInv'
<1> USE P2pAssumption
<1>1. PICK w \in Seq(Event) : w = todo.events /\ w # << >>
  BY DEF Emit, P2pInv, PeerTypes, TodoTypes
<1>2. UNCHANGED <<board, air, registry, marks, markFile, pins, pinFile, view, brainStops,
                  replayable, taken, again>>
  BY DEF Emit
<1>3. /\ todo'.persist = FALSE /\ todo'.events = Tail(w) /\ todo'.settles = {}
      /\ todo' = [persist |-> todo'.persist, events |-> todo'.events, settles |-> todo'.settles]
  <2>1. CASE Len(w) = 1
    <3>1. Tail(w) \in Seq(Event) /\ Len(Tail(w)) = 0
      BY <1>1, <2>1
    <3>2. Tail(w) = << >>
      BY <3>1, EmptySeq
    <3> QED
      BY <1>1, <2>1, <3>2 DEF Emit, NoWork
  <2>2. CASE Len(w) # 1
    <3>1. PICK p, es, ss : p = todo.persist /\ es = todo.events /\ ss = todo.settles
                           /\ todo = [persist |-> p, events |-> es, settles |-> ss]
      BY DEF P2pInv, PeerTypes, TodoTypes
    <3>2. PICK q : q = [todo EXCEPT !.events = Tail(@), !.settles = {}]
      OBVIOUS
    <3>3. p = FALSE /\ es = w
      BY <1>1, <3>1 DEF Emit, P2pInv, PeerTypes, TodoTypes
    <3>4. q = [persist |-> FALSE, events |-> Tail(w), settles |-> {}]
      BY <3>1, <3>2, <3>3
    <3>5. todo' = q
      BY <1>1, <2>2, <3>2 DEF Emit
    <3> QED
      BY <3>4, <3>5
  <2> QED
    BY <2>1, <2>2
<1>4. TodoTypes'
  <2>1. Tail(w) \in Seq(Event)
    BY <1>1
  <2> QED
    BY <1>3, <2>1 DEF TodoTypes
<1>5. \A i \in DOMAIN Tail(w) : i + 1 \in DOMAIN w /\ Tail(w)[i] = w[i + 1]
  BY <1>1
<1>6. \A i \in DOMAIN w : w[i].tools = registry[w[i].id].tools
  BY <1>1 DEF P2pInv, TellsRegistry
<1>7. TellsRegistry'
  BY <1>2, <1>3, <1>5, <1>6 DEF TellsRegistry
<1>8. unsettled' \in [Peers -> SUBSET Datagram]
      /\ \A n \in Peers : unsettled'[n] = IF n \in todo.settles THEN {} ELSE unsettled[n]
  BY DEF Emit, Settled, P2pInv, PeerTypes
<1>9. TakenKeptOut'
  <2>1. ASSUME NEW e \in taken \ replayable, e \notin unsettled'[e.id]
        PROVE  KeptOut(e, markFile[e.id], pins[e.id])
    <3>1. e.id \in Peers
      BY DEF P2pInv, PeerTypes, Datagram
    <3>2. CASE e.id \in todo.settles
      BY <3>2 DEF Emit, P2pInv, TakenKeptOut
    <3>3. CASE e.id \notin todo.settles
      BY <1>8, <2>1, <3>1, <3>3 DEF P2pInv, TakenKeptOut
    <3> QED
      BY <3>2, <3>3
  <2> QED
    BY <1>2, <1>3, <2>1 DEF P2pInv, TakenKeptOut
<1>10. ReplaysRefused' /\ BoardsAhead'
  BY <1>2 DEF P2pInv, ReplaysRefused, BoardsAhead, OnFile, Ahead, MarkHeard
<1>11. resync' \in BOOLEAN /\ channel' \in Seq(Message) /\ ViewFollows'
  <2>1. CASE resync
    <3>1. CASE HasRoom
      <4>1. PICK snap : snap = [kind |-> "snapshot", peers |-> ToolsOf(registry)]
        OBVIOUS
      <4>2. channel' = Append(channel, snap) /\ resync' = FALSE
        BY <2>1, <3>1, <4>1 DEF Emit, FlushResync
      <4>3. Tail(w) \in Seq(Event) /\ PeerTypes
        BY <1>1 DEF P2pInv
      <4>4. \A i \in DOMAIN Tail(w) : Tail(w)[i].tools = registry[Tail(w)[i].id].tools
        BY <1>5, <1>6
      <4>5. /\ channel' \in Seq(Message)
            /\ \A n \in Peers : WillHave(view[n], channel' \o Tail(w), n, registry[n].tools)
        BY <4>1, <4>2, <4>3, <4>4, SnapshotTells
      <4> QED
        BY <1>2, <1>3, <4>2, <4>5 DEF ViewFollows
    <3>2. CASE ~HasRoom
      BY <2>1, <3>2 DEF Emit, FlushResync, P2pInv, PeerTypes, ViewFollows
    <3> QED
      BY <3>1, <3>2
  <2>2. CASE ~resync /\ HasRoom
    <3>1. channel' = Append(channel, Head(w)) /\ resync' = resync
      BY <1>1, <2>2 DEF Emit
    <3>2. channel \in Seq(Message) /\ w \in Seq(Message)
      BY <1>1 DEF P2pInv, PeerTypes, Message
    <3>3. Head(w) \in Message
      BY <1>1, <3>2
    <3>4. channel' \in Seq(Message)
      BY <3>1, <3>2, <3>3
    <3>5. channel' \o Tail(w) = channel \o w
      <4>1. PICK h \in Message, t \in Seq(Message) : h = Head(w) /\ t = Tail(w)
        <5>1. Tail(w) \in Seq(Message)
          BY <1>1, <3>2
        <5> QED
          BY <3>3, <5>1
      <4>2. w = <<h>> \o t
        BY <1>1, <3>2, <4>1
      <4>3. channel' = channel \o <<h>>
        BY <3>1, <3>2, <4>1, AppendIsConcat
      <4>4. <<h>> \in Seq(Message)
        OBVIOUS
      <4> QED
        BY <3>2, <4>1, <4>2, <4>3, <4>4, ConcatAssociative
    <3>6. \A n \in Peers : WillHave(view[n], channel \o w, n, registry[n].tools)
      BY <1>1, <2>2 DEF P2pInv, ViewFollows
    <3>7. ViewFollows'
      BY <1>2, <1>3, <3>5, <3>6 DEF ViewFollows
    <3> QED
      BY <3>1, <3>4, <3>7 DEF P2pInv, PeerTypes
  <2>3. CASE ~resync /\ ~HasRoom
    BY <2>3 DEF Emit, P2pInv, PeerTypes, ViewFollows
  <2> QED
    BY <2>1, <2>2, <2>3
<1>12. PeerTypes'
  BY <1>2, <1>4, <1>8, <1>11 DEF P2pInv, PeerTypes
<1> QED
  BY <1>7, <1>9, <1>10, <1>11, <1>12 DEF P2pInv

-----------------------------------------------------------------------------
(* What the listener hears, and the end of the process *)

LEMMA ListenKeeps ==
  ASSUME P2pInv, Listen
  PROVE  P2pInv'
<1> USE P2pAssumption
<1>1. PICK c \in Seq(Message), w \in Seq(Message) : c = channel /\ w = todo.events /\ c # << >>
  BY DEF Listen, P2pInv, PeerTypes, TodoTypes, Message
<1>2. PICK h \in Message : h = Head(c) /\ h = c[1]
  BY <1>1
<1>3. UNCHANGED <<board, air, registry, marks, markFile, pins, pinFile, todo, resync,
                  brainStops, unsettled, replayable, taken, again>>
  BY DEF Listen
<1>4. view' = Told(view, h) /\ channel' = Tail(c)
  BY <1>1, <1>2 DEF Listen
<1>5. view' \in [Peers -> MaybeTools]
      /\ \A n \in Peers : view'[n] = IF IsAbout(h, n) THEN Says(h, n) ELSE view[n]
  <2>1. view \in [Peers -> MaybeTools]
    BY DEF P2pInv, PeerTypes
  <2>2. CASE h \in Snapshot
    <3>1. h.kind = "snapshot" /\ h.peers \in [Peers -> MaybeTools]
      BY <2>2 DEF Snapshot
    <3> QED
      BY <1>4, <3>1 DEF Told, IsAbout, Says
  <2>3. CASE h \in Event
    <3>1. h.kind \in {"joined", "left"} /\ h.id \in Peers /\ h.tools \in MaybeTools
      BY <2>3 DEF Event, MaybeTools
    <3>2. CASE h.kind = "joined"
      <4>1. view' = [view EXCEPT ![h.id] = h.tools]
        BY <1>4, <3>2 DEF Told
      <4> QED
        BY <2>1, <3>1, <3>2, <4>1 DEF IsAbout, Says
    <3>3. CASE h.kind = "left"
      <4>1. view' = [view EXCEPT ![h.id] = None]
        BY <1>4, <3>3 DEF Told
      <4> QED
        BY <2>1, <2>3, <3>1, <3>3, <4>1 DEF IsAbout, Says, MaybeTools, Event
    <3> QED
      BY <3>1, <3>2, <3>3
  <2> QED
    BY <2>2, <2>3 DEF Message
<1>6. channel' \in Seq(Message)
  BY <1>1, <1>4
<1>7. PeerTypes'
  BY <1>3, <1>5, <1>6 DEF P2pInv, PeerTypes, TodoTypes
<1>8. TakenKeptOut' /\ ReplaysRefused' /\ BoardsAhead' /\ TellsRegistry'
  BY <1>3 DEF P2pInv, TakenKeptOut, ReplaysRefused, BoardsAhead, OnFile, Ahead, MarkHeard, TellsRegistry
<1>9. ViewFollows'
  <2> SUFFICES ASSUME ~resync, NEW n \in Peers
               PROVE  WillHave(view'[n], channel' \o w, n, registry[n].tools)
    BY <1>1, <1>3 DEF ViewFollows
  <2>1. PICK es \in Seq(Message) : es = c \o w
    <3>1. c \o w \in Seq(Message)
      BY <1>1
    <3> QED
      BY <3>1
  <2>2. WillHave(view[n], es, n, registry[n].tools)
    BY <1>1, <2>1 DEF P2pInv, ViewFollows
  <2>3. es # << >> /\ es[1] = h
    BY <1>1, <1>2, <2>1
  <2>4. Tail(es) = Tail(c) \o w
    BY <1>1, <2>1
  <2>5. WillHave(view'[n], Tail(es), n, registry[n].tools)
    BY <1>5, <2>2, <2>3, FirstTold
  <2> QED
    BY <1>4, <2>4, <2>5
<1> QED
  BY <1>7, <1>8, <1>9 DEF P2pInv

LEMMA BrainRestartsKeeps ==
  ASSUME P2pInv, NEW struck \in SUBSET Peers, BrainRestarts(struck)
  PROVE  P2pInv'
<1> USE P2pAssumption
<1>1. Offline \in [tools : MaybeTools, silent : BOOLEAN] /\ Offline.tools = None
  BY DEF Offline, MaybeTools
<1>2. /\ registry' \in [Peers -> [tools : MaybeTools, silent : BOOLEAN]]
      /\ \A n \in Peers : registry'[n].tools = None
  BY <1>1 DEF BrainRestarts
<1>3. /\ pins' \in [Peers -> Nat] /\ pinFile' = pins'
      /\ \A n \in Peers : pins'[n] = IF n \in struck THEN 0 ELSE pins[n]
  BY DEF BrainRestarts, P2pInv, PeerTypes
<1>4. /\ todo' = NoWork /\ todo'.persist = FALSE /\ todo'.events = << >> /\ todo'.settles = {}
  BY DEF BrainRestarts, NoWork
<1>5. TodoTypes'
  BY <1>4 DEF TodoTypes, NoWork
<1>6. channel' = << >> /\ channel' \in Seq(Message) /\ resync' = FALSE
  BY DEF BrainRestarts
<1>7. view' \in [Peers -> MaybeTools] /\ unsettled' \in [Peers -> SUBSET Datagram] /\ brainStops' \in Nat
  BY DEF BrainRestarts, P2pInv, PeerTypes, MaybeTools
<1>8. UNCHANGED <<board, air, markFile, taken, again>> /\ marks' = markFile
  BY DEF BrainRestarts
<1>9. PeerTypes'
  BY <1>2, <1>3, <1>5, <1>6, <1>7, <1>8 DEF P2pInv, PeerTypes
<1>10. ASSUME NEW e \in taken \ replayable'
       PROVE  KeptOut(e, markFile[e.id], pins'[e.id])
  <2>1. e \in taken \ replayable /\ e \notin unsettled[e.id] /\ ~(e.id \in struck /\ e.key # markFile[e.id].key)
    BY DEF BrainRestarts, Forgotten
  <2>2. e.id \in Peers
    BY DEF P2pInv, PeerTypes, Datagram
  <2>3. KeptOut(e, markFile[e.id], pins[e.id])
    BY <2>1 DEF P2pInv, TakenKeptOut
  <2> QED
    BY <1>3, <2>1, <2>2, <2>3 DEF KeptOut
<1>11. TakenKeptOut'
  BY <1>4, <1>8, <1>10 DEF TakenKeptOut
<1>12. ReplaysRefused' /\ TellsRegistry'
  BY <1>4, <1>8 DEF BrainRestarts, P2pInv, ReplaysRefused, TellsRegistry
<1>13. BoardsAhead'
  BY <1>8 DEF P2pInv, BoardsAhead, OnFile, Ahead, MarkHeard
<1>14. ViewFollows'
  <2>1. channel' \o todo'.events = << >>
    BY <1>4, <1>6
  <2>2. \A n \in Peers : view'[n] = None
    BY DEF BrainRestarts
  <2> QED
    BY <1>2, <2>1, <2>2 DEF ViewFollows, WillHave
<1> QED
  BY <1>9, <1>11, <1>12, <1>13, <1>14 DEF P2pInv

-----------------------------------------------------------------------------
(* Peers are followed *)

\* Boards whose epoch file was written are newer than all the brain remembers.
LEMMA AheadIsHeard ==
  ASSUME P2pInv
  PROVE  RestartedIsHeard
<1> SUFFICES ASSUME NEW n \in Peers, ~board[n].torn, board[n].epoch > 0, marks[n].key = board[n].key
             PROVE  LET next == SeqNo(board[n].epoch, board[n].count + 1)
                    IN /\ marks[n].seq < next
                       /\ markFile[n].key = board[n].key => markFile[n].seq < next
  BY DEF RestartedIsHeard
<1>1. PICK b \in Board : b = board[n]
  BY DEF P2pInv, PeerTypes
<1>2. PICK e \in Nat, k \in 0 .. MaxPerBoot : e = b.epoch /\ k = b.count
  BY <1>1 DEF Board
<1>3. PICK low \in Nat : low = SeqNo(e, k) /\ low < SeqNo(e, k + 1)
  BY SeqNoGrows
<1>4. SeqNo(e, k + 1) \in Int
  <2>1. PICK m \in Nat : m = MaxPerBoot
    BY P2pAssumption
  <2> QED
    BY <2>1 DEF SeqNo
<1>5. ASSUME NEW mark, MarkHeard(n, mark), mark.key = b.key
      PROVE  mark.seq < SeqNo(e, k + 1)
  <2>1. mark # NoMark
    BY <1>5 DEF NoMark, Board
  <2>2. PICK d \in air : d.id = n /\ d.key = mark.key /\ d.seq = mark.seq
    BY <1>5, <2>1 DEF MarkHeard
  <2>3. d.seq <= low /\ d.seq \in Nat
    BY <1>1, <1>2, <1>3, <1>5, <2>2 DEF P2pInv, PeerTypes, BoardsAhead, Ahead, Datagram
  <2> QED
    BY <1>3, <1>4, <2>2, <2>3
<1> QED
  BY <1>1, <1>2, <1>5 DEF P2pInv, BoardsAhead

(* Whatever the datagrams that arrive again, the boards and the process    *)
(* that start again and the events that do not fit: an announcement is     *)
(* taken once unless its mark was lost, a board that starts again is heard *)
(* and the listener has been or will be told what the registry holds.      *)
THEOREM PeersFollowedHolds == P2pSpec => []PeersFollowed
<1>1. P2pInit => P2pInv
  BY MeshStarts
<1>2. P2pInv /\ [P2pNext]_p2pVars => P2pInv'
  <2> SUFFICES ASSUME P2pInv, [P2pNext]_p2pVars
               PROVE  P2pInv'
    OBVIOUS
  <2>1. CASE \E n \in Peers, clock \in Clocks, written \in BOOLEAN : BoardBoots(n, clock, written)
    BY <2>1, BoardBootsKeeps
  <2>2. CASE \E n \in Peers : Reflash(n) \/ FallsSilent(n)
    BY <2>2, ReflashKeeps, FallsSilentKeeps
  <2>3. CASE \E n \in Peers, tools \in Toolsets : Announce(n, tools)
    BY <2>3, AnnounceKeeps
  <2>4. CASE \E d \in air : Pin(d) \/ Take(d)
    BY <2>4, PinKeeps, TakeKeeps
  <2>5. CASE Evict \/ PersistMarks \/ Emit \/ SweepFlushes \/ Listen
    BY <2>5, EvictKeeps, PersistMarksKeeps, EmitKeeps, SweepFlushesKeeps, ListenKeeps
  <2>6. CASE \E struck \in SUBSET Peers : BrainRestarts(struck)
    BY <2>6, BrainRestartsKeeps
  <2>7. CASE UNCHANGED p2pVars
    BY <2>7 DEF p2pVars, P2pInv, PeerTypes, TodoTypes, TakenKeptOut, ReplaysRefused,
      BoardsAhead, OnFile, Ahead, MarkHeard, TellsRegistry, ViewFollows
  <2> QED
    BY <2>1, <2>2, <2>3, <2>4, <2>5, <2>6, <2>7 DEF P2pNext
<1>3. P2pInv => PeersFollowed
  BY AheadIsHeard DEF P2pInv, PeersFollowed, AnnouncementsJudged
<1> QED
  BY <1>1, <1>2, <1>3, PTL DEF P2pSpec

-----------------------------------------------------------------------------
(* A camera's picture: for every length of the warm-up and of the two runs. *)

Inners == [frames : Nat, prev : Sizes \cup {NoSize}, lowRun : Nat, failRun : Nat, failed : BOOLEAN]

\* What the runs add up to: until something is said, every blank frame pays
\* for the failures since the one before it.
RunsInv ==
  /\ inner \in Inners /\ sightless \in Nat /\ said \in BOOLEAN
  /\ inner.failed \/ inner.lowRun >= BlindRun => said
  /\ inner.failRun >= FailedRun => inner.failed
  /\ ~said => sightless <= inner.lowRun * FailedRun + inner.failRun

\* The runs have a length, and one more run is a run more.
LEMMA RunLengths ==
  /\ BlindRun \in Nat /\ FailedRun \in Nat /\ WarmupFrames \in Nat
  /\ BlindRun > 1 /\ FailedRun > 0
  /\ 0 * FailedRun = 0
BY RunsAssumption
LEMMA OneMoreRun ==
  ASSUME NEW a \in Nat, NEW b \in Nat
  PROVE  (a + 1) * b = a * b + b /\ a * b \in Nat
OBVIOUS

\* The fields of a state, one by one.
LEMMA InnerFields ==
  ASSUME NEW r \in Inners
  PROVE  /\ r.frames \in Nat /\ r.prev \in Sizes \cup {NoSize} /\ r.lowRun \in Nat
         /\ r.failRun \in Nat /\ r.failed \in BOOLEAN
BY DEF Inners

\* A state whose runs are over owes nothing.
LEMMA RunsOver ==
  ASSUME inner' \in Inners, inner'.lowRun = 0, inner'.failRun = 0, ~inner'.failed,
         sightless' = 0, said' = FALSE
  PROVE  RunsInv'
<1>1. ~(inner'.lowRun >= BlindRun) /\ ~(inner'.failRun >= FailedRun)
  BY RunLengths
<1>2. inner'.lowRun * FailedRun + inner'.failRun = 0
  BY RunLengths
<1>3. ~said' /\ said' \in BOOLEAN /\ 0 \in Nat
  OBVIOUS
<1>4. sightless' <= inner'.lowRun * FailedRun + inner'.failRun
  BY <1>2
<1> QED
  BY <1>1, <1>3, <1>4 DEF RunsInv

\* What a capture starts from is a state.
LEMMA CountedType ==
  ASSUME RunsInv, NEW size \in Sizes
  PROVE  /\ Counted(size) \in Inners
         /\ Counted(size).failRun = 0
         /\ ~Counted(size).failed
         /\ ~Restarts(size) => Counted(size).lowRun = inner.lowRun
         /\ Restarts(size) => Counted(size).lowRun = 0
<1>1. Started \in Inners
  BY DEF Started, Inners
<1>2. CASE Restarts(size)
  <2>1. Counted(size) = [Started EXCEPT !.failRun = 0, !.frames = @ + 1]
    BY <1>2 DEF Counted
  <2>2. Counted(size) = [frames |-> 0 + 1, prev |-> NoSize, lowRun |-> 0, failRun |-> 0,
                         failed |-> FALSE]
    BY <2>1, Zenon DEF Started
  <2> QED
    BY <1>2, <2>2 DEF Inners
<1>3. CASE ~Restarts(size)
  <2>1. Counted(size) = [inner EXCEPT !.failRun = 0, !.frames = @ + 1]
    BY <1>3 DEF Counted
  <2>2. inner \in Inners /\ ~inner.failed
    BY <1>3 DEF RunsInv, Restarts
  <2>3. inner.frames + 1 \in Nat
    BY <2>2, InnerFields
  <2>4. Counted(size) = [frames |-> inner.frames + 1, prev |-> inner.prev, lowRun |-> inner.lowRun,
                         failRun |-> 0, failed |-> inner.failed]
    BY <2>1, <2>2 DEF Inners
  <2> QED
    BY <1>3, <2>2, <2>3, <2>4, InnerFields DEF Inners
<1> QED
  BY <1>2, <1>3

\* Every capture and every reset keeps the account.
LEMMA RunsStep == RunsInv /\ [CameraNext]_cameraVars => RunsInv'
<1> SUFFICES ASSUME RunsInv, [CameraNext]_cameraVars
             PROVE  RunsInv'
  OBVIOUS
<1> USE RunLengths
<1>1. ASSUME NEW size \in Sizes, NEW class \in Classes, Picture(size, class)
      PROVE  RunsInv'
  <2>1. inner' = [Counted(size) EXCEPT !.lowRun = 0, !.prev = size] /\ sightless' = 0 /\ said' = FALSE
    BY <1>1 DEF Picture
  <2>2. inner' \in Inners /\ inner'.lowRun = 0 /\ inner'.failRun = 0 /\ ~inner'.failed
    BY <2>1, CountedType DEF Inners
  <2> QED
    BY <2>1, <2>2, RunsOver
<1>2. ASSUME NEW size \in Sizes, Blank(size)
      PROVE  RunsInv'
  <2> DEFINE next == [Counted(size) EXCEPT !.lowRun = @ + 1]
  <2>1. /\ inner' = next
        /\ sightless' = IF Restarts(size) THEN 1 ELSE sightless + 1
        /\ said' = ((said /\ ~Restarts(size)) \/ BlankMode(next) \in Unusable)
    BY <1>2 DEF Blank
  <2>2. /\ next \in Inners /\ next.lowRun = Counted(size).lowRun + 1
        /\ next.failRun = 0 /\ ~next.failed
    BY CountedType DEF Inners
  <2>3. next.lowRun >= BlindRun => said'
    BY <2>1 DEF BlankMode, Unusable
  <2>4. sightless' \in Nat /\ said' \in BOOLEAN
    BY <2>1 DEF RunsInv
  <2>5. ASSUME ~said' PROVE sightless' <= next.lowRun * FailedRun + next.failRun
    <3>1. CASE Restarts(size)
      BY <2>1, <2>2, <3>1, CountedType
    <3>2. CASE ~Restarts(size)
      <4>1. ~said
        BY <2>1, <2>5, <3>2 DEF RunsInv
      <4>2. inner.failRun < FailedRun /\ sightless <= inner.lowRun * FailedRun + inner.failRun
        BY <4>1 DEF RunsInv, Inners
      <4>3. inner.lowRun \in Nat /\ inner.failRun \in Nat /\ sightless \in Nat
        BY DEF RunsInv, Inners
      <4>4. next.lowRun = inner.lowRun + 1 /\ sightless' = sightless + 1
        BY <2>1, <2>2, <3>2, CountedType
      <4> HIDE DEF next
      <4>5. /\ (inner.lowRun + 1) * FailedRun = inner.lowRun * FailedRun + FailedRun
            /\ inner.lowRun * FailedRun \in Nat
        BY <4>3, OneMoreRun
      <4> QED
        BY <2>2, <4>2, <4>3, <4>4, <4>5
    <3> QED
      BY <3>1, <3>2
  <2> QED
    BY <2>1, <2>2, <2>3, <2>4, <2>5 DEF RunsInv
<1>3. ASSUME Failure PROVE RunsInv'
  <2>1. /\ inner' = [inner EXCEPT !.failRun = @ + 1,
                                  !.failed = @ \/ inner.failRun + 1 >= FailedRun]
        /\ sightless' = sightless + 1
        /\ said' = (said \/ FailureMode(inner') \in Unusable)
    BY <1>3 DEF Failure, AfterFailure
  <2>2. /\ inner' \in Inners /\ inner'.lowRun = inner.lowRun
        /\ inner'.failRun = inner.failRun + 1
        /\ inner'.failed = (inner.failed \/ inner.failRun + 1 >= FailedRun)
    <3>1. inner \in Inners
      BY DEF RunsInv
    <3>2. inner' = [frames |-> inner.frames, prev |-> inner.prev, lowRun |-> inner.lowRun,
                    failRun |-> inner.failRun + 1,
                    failed |-> inner.failed \/ inner.failRun + 1 >= FailedRun]
      BY <2>1, <3>1 DEF Inners
    <3>3. (inner.failed \/ inner.failRun + 1 >= FailedRun) \in BOOLEAN
      BY <3>1, InnerFields
    <3> QED
      BY <3>1, <3>2, <3>3, InnerFields DEF Inners
  <2>3. inner'.failed => said'
    BY <2>1 DEF FailureMode, Unusable
  <2>4. ~said' => ~said
    BY <2>1 DEF RunsInv
  <2>5. inner.lowRun * FailedRun \in Nat /\ inner.failRun \in Nat /\ sightless \in Nat
    BY OneMoreRun DEF RunsInv, Inners
  <2>6. ~said' => sightless' <= inner'.lowRun * FailedRun + inner'.failRun
    BY <2>1, <2>2, <2>4, <2>5 DEF RunsInv
  <2>7. said' \in BOOLEAN /\ sightless' \in Nat
    BY <2>1 DEF RunsInv
  <2>8. inner'.lowRun >= BlindRun => said'
    BY <2>2, <2>4, <2>7 DEF RunsInv
  <2>9. inner'.failRun >= FailedRun => inner'.failed
    BY <2>2
  <2> QED
    BY <2>2, <2>3, <2>6, <2>7, <2>8, <2>9 DEF RunsInv
<1>4. ASSUME CameraReset PROVE RunsInv'
  <2>1. inner' = Started /\ sightless' = 0 /\ said' = FALSE
    BY <1>4 DEF CameraReset
  <2>2. Started \in Inners /\ Started.lowRun = 0 /\ Started.failRun = 0 /\ ~Started.failed
    BY DEF Started, Inners
  <2> QED
    BY <2>1, <2>2, RunsOver
<1>5. ASSUME UNCHANGED cameraVars PROVE RunsInv'
  BY <1>5 DEF cameraVars, RunsInv
<1> QED
  BY <1>1, <1>2, <1>3, <1>4, <1>5 DEF CameraNext

\* The account settles: at so many attempts, something was said.
LEMMA RunsSettle == RunsInv => SightlessIsTold
<1> SUFFICES ASSUME RunsInv, ~said, sightless >= BlindRun * FailedRun
             PROVE  FALSE
  BY DEF SightlessIsTold
<1> USE RunLengths
<1>1. /\ inner.lowRun \in Nat /\ inner.failRun \in Nat /\ sightless \in Nat
      /\ inner.lowRun + 1 <= BlindRun /\ inner.failRun < FailedRun
      /\ sightless <= inner.lowRun * FailedRun + inner.failRun
  BY DEF RunsInv, Inners
<1>2. PICK k \in Nat : BlindRun = inner.lowRun + 1 + k
  <2>1. BlindRun - (inner.lowRun + 1) \in Nat
    BY <1>1
  <2> QED
    BY <1>1, <2>1
<1>3. BlindRun * FailedRun = inner.lowRun * FailedRun + FailedRun + k * FailedRun
  BY <1>1, <1>2
<1>4. k * FailedRun \in Nat /\ inner.lowRun * FailedRun \in Nat
  BY <1>1, OneMoreRun
<1> QED
  BY <1>1, <1>3, <1>4

\* Motion is told of by a capture that was compared.
LEMMA MotionStep ==
  ASSUME CameraNext, moved' # moved
  PROVE  /\ inner.prev = inner'.prev /\ inner.prev # NoSize
         /\ ~inner.failed /\ inner'.frames > WarmupFrames
<1>1. PICK size \in Sizes, class \in Classes : Picture(size, class)
  BY DEF CameraNext, Blank, Failure, CameraReset, Record
<1> DEFINE s == Counted(size)
<1>2. s.frames > WarmupFrames /\ s.prev # NoSize
  BY <1>1 DEF Picture, Record
<1>3. ~Restarts(size)
  BY <1>2 DEF Counted, Started
<1>4. ~inner.failed /\ inner.prev \in {NoSize, size}
  BY <1>3 DEF Restarts
<1>5. s = [inner EXCEPT !.failRun = 0, !.frames = @ + 1]
  BY <1>3 DEF Counted
<1> QED
  BY <1>1, <1>2, <1>4, <1>5 DEF Picture

\* A camera that shows nothing is called blind or failed within a bounded
\* number of attempts, and every motion was seen between two pictures.
THEOREM CameraIsTold == CameraSpec => CameraTold
<1>1. CameraInit => RunsInv
  <2> SUFFICES ASSUME CameraInit PROVE RunsInv
    OBVIOUS
  <2>1. inner = Started /\ sightless = 0 /\ said = FALSE
    BY DEF CameraInit
  <2>2. inner \in Inners /\ inner.lowRun = 0 /\ inner.failRun = 0 /\ ~inner.failed
    BY <2>1 DEF Started, Inners
  <2>3. ~(inner.lowRun >= BlindRun) /\ ~(inner.failRun >= FailedRun)
    BY <2>2, RunLengths
  <2>4. inner.lowRun * FailedRun + inner.failRun = 0
    BY <2>2, RunLengths
  <2>5. ~said /\ said \in BOOLEAN /\ sightless \in Nat
    BY <2>1
  <2>6. sightless <= inner.lowRun * FailedRun + inner.failRun
    BY <2>1, <2>4
  <2> QED
    BY <2>2, <2>3, <2>5, <2>6 DEF RunsInv
<1>2. CameraSpec => []RunsInv
  BY <1>1, RunsStep, PTL DEF CameraSpec
<1>3. CameraSpec => [][SightlessIsTold']_cameraVars
  BY <1>2, RunsSettle, PTL
<1> DEFINE A == moved' # moved =>
                  /\ inner.prev = inner'.prev /\ inner.prev # NoSize
                  /\ ~inner.failed /\ inner'.frames > WarmupFrames
<1>4. [CameraNext]_cameraVars => [A]_cameraVars
  BY MotionStep
<1> HIDE DEF A
<1>5. CameraSpec => [][A]_cameraVars
  BY <1>4, PTL DEF CameraSpec
<1> QED
  BY <1>3, <1>5 DEF CameraTold, MotionIsCompared, A

-----------------------------------------------------------------------------
(* What the agent notices of a camera *)

\* A camera and the agent, each in its own thread: no step is of both.
NoticeSpec ==
  /\ CameraInit /\ PerceptInit
  /\ [][\/ CameraNext /\ UNCHANGED perceptVars
        \/ PerceptNext /\ UNCHANGED cameraVars]_<<cameraVars, perceptVars>>

Percept == {"health", "motion"} \X Nat
Episode == {"turn", "health", "motion"} \X Nat
EpisodesOf(w) == IF w = "feed" THEN Percept ELSE {"turn"} \X Nat

HandTypes ==
  /\ DOMAIN hand = Writers
  /\ \A w \in Writers :
       /\ hand[w] = [step |-> hand[w].step, id |-> hand[w].id]
       /\ hand[w].step \in {"free", "embed", "body"}
       /\ hand[w].step # "free" => hand[w].id \in EpisodesOf(w)

NoticeTypes ==
  /\ captures \in Nat /\ moved \subseteq 1 .. captures
  /\ reader = [mode |-> reader.mode, motion |-> reader.motion]
  /\ reader.motion \in moved \cup {0}
  /\ half \in BOOLEAN
  /\ news \in Seq(Percept)
  /\ HandTypes
  /\ IsFiniteSet(stored) /\ \A r \in stored : r.id \in Episode
  /\ body \in Seq(Episode)
  /\ noticed \subseteq Percept /\ ToSet(news) \subseteq noticed

\* What a writer has embedded has no row yet; what has a row is not in the body
\* yet. The feed is at the first of its news.
InOneHand ==
  /\ \A w \in Writers : hand[w].step = "embed" => hand[w].id \notin IdsOf(stored)
  /\ \A w \in Writers : hand[w].step = "body" =>
       /\ hand[w].id \in IdsOf({r \in stored : r.vec # "none"})
       /\ hand[w].id \notin ToSet(body)
  /\ hand["feed"].step # "free" => ~half /\ news # << >> /\ hand["feed"].id = Head(news)

\* Motion is noticed up to the mark.
MotionMarked == \A p \in noticed : p[1] = "motion" => p[2] <= reader.motion /\ reader.motion # 0

NoticeInv ==
  /\ NoticeTypes
  /\ InOneHand
  /\ MotionMarked
  /\ BodyHoldsStore
  /\ NewsIsKept
  /\ EpisodesApart

-----------------------------------------------------------------------------
(* The order of the store *)

LEMMA EarlierIsAnOrder ==
  /\ \A p, q \in Episode : p # q => Earlier(p, q) \/ Earlier(q, p)
  /\ \A p \in Episode : ~Earlier(p, p)
  /\ \A p, q, r \in Episode : Earlier(p, q) /\ Earlier(q, r) => Earlier(p, r)
<1>1. \A p \in Episode : p = <<p[1], p[2]>> /\ p[1] \in {"turn", "health", "motion"} /\ Moment(p) = p[2] /\ Moment(p) \in Nat
  BY DEF Episode, Moment
<1>2. \A p \in Episode : Rank(p) \in {0, 1, 2}
  BY <1>1 DEF Rank
<1>3. \A p, q \in Episode : Rank(p) = Rank(q) => p[1] = q[1]
  BY <1>1 DEF Rank
<1>4. \A p, q \in Episode : p # q => Earlier(p, q) \/ Earlier(q, p)
  <2> SUFFICES ASSUME NEW p \in Episode, NEW q \in Episode, p # q
               PROVE  Earlier(p, q) \/ Earlier(q, p)
    OBVIOUS
  <2>1. Moment(p) # Moment(q) \/ Rank(p) # Rank(q)
    BY <1>1, <1>3
  <2> QED
    BY <1>1, <1>2, <2>1 DEF Earlier
<1>5. \A p \in Episode : ~Earlier(p, p)
  BY <1>1, <1>2 DEF Earlier
<1>6. \A p, q, r \in Episode : Earlier(p, q) /\ Earlier(q, r) => Earlier(p, r)
  BY <1>1, <1>2 DEF Earlier
<1> QED
  BY <1>4, <1>5, <1>6

\* A part that is not the whole is smaller.
LEMMA PartIsSmaller ==
  ASSUME NEW S, IsFiniteSet(S), NEW T, T \subseteq S, T # S
  PROVE  Cardinality(T) < Cardinality(S)
<1>1. Cardinality(T) <= Cardinality(S) /\ Cardinality(S) # Cardinality(T) /\ IsFiniteSet(T)
  BY FS_Subset
<1>2. Cardinality(S) \in Nat /\ Cardinality(T) \in Nat
  BY <1>1, FS_CardinalityType
<1> QED
  BY <1>1, <1>2

\* How many of the kept episodes are earlier than p.
Place(kept, p) == Cardinality({q \in kept : Earlier(q, p)})

\* Every place among the kept episodes is taken, and by one of them.
LEMMA PlacesAreTaken ==
  ASSUME NEW kept \in SUBSET Episode, IsFiniteSet(kept), NEW n \in Nat, n = Cardinality(kept)
  PROVE  /\ \A p, q \in kept : Place(kept, p) = Place(kept, q) => p = q
         /\ \A p \in kept : Place(kept, p) \in 0 .. n - 1
         /\ \A i \in 0 .. n - 1 : \E p \in kept : Place(kept, p) = i
<1> DEFINE before(p) == {q \in kept : Earlier(q, p)}
<1>1. \A p \in kept : IsFiniteSet(before(p)) /\ Place(kept, p) \in Nat
  <2> SUFFICES ASSUME NEW p \in kept
               PROVE  IsFiniteSet(before(p)) /\ Place(kept, p) \in Nat
    OBVIOUS
  <2>1. before(p) \subseteq kept
    OBVIOUS
  <2>2. IsFiniteSet(before(p))
    BY <2>1, FS_Subset
  <2> QED
    BY <2>2, FS_CardinalityType DEF Place
<1>2. ASSUME NEW p \in kept, NEW q \in kept, Earlier(p, q)
      PROVE  Place(kept, p) < Place(kept, q)
  <2>1. before(p) \subseteq before(q) /\ p \in before(q) /\ p \notin before(p)
    BY <1>2, EarlierIsAnOrder
  <2>2. before(p) # before(q)
    BY <2>1
  <2>3. Cardinality(before(p)) < Cardinality(before(q))
    BY <1>1, <2>1, <2>2, PartIsSmaller
  <2> QED
    BY <2>3 DEF Place
<1>3. \A p, q \in kept : Place(kept, p) = Place(kept, q) => p = q
  <2> SUFFICES ASSUME NEW p \in kept, NEW q \in kept, Place(kept, p) = Place(kept, q), p # q
               PROVE  FALSE
    OBVIOUS
  <2>1. Earlier(p, q) \/ Earlier(q, p)
    BY EarlierIsAnOrder
  <2>2. Place(kept, p) < Place(kept, q) \/ Place(kept, q) < Place(kept, p)
    BY <1>2, <2>1
  <2>3. Place(kept, p) \in Nat /\ Place(kept, q) \in Nat
    BY <1>1
  <2> HIDE DEF before
  <2> QED
    BY <2>2, <2>3
<1>4. ASSUME NEW p \in kept
      PROVE  Place(kept, p) \in 0 .. n - 1
  <2>1. before(p) \subseteq kept /\ p \notin before(p)
    BY EarlierIsAnOrder
  <2>2. before(p) # kept
    BY <2>1
  <2>3. Cardinality(before(p)) < Cardinality(kept)
    BY <2>1, <2>2, PartIsSmaller
  <2> QED
    BY <1>1, <2>3 DEF Place
<1>5. \A i \in 0 .. n - 1 : \E p \in kept : Place(kept, p) = i
  <2>1. PICK f \in [kept -> 0 .. n - 1] : \A p \in kept : f[p] = Place(kept, p)
    <3>1. [p \in kept |-> Place(kept, p)] \in [kept -> 0 .. n - 1]
      BY <1>4
    <3> QED
      BY <3>1
  <2>2. f \in Injection(kept, 0 .. n - 1)
    BY <1>3, <2>1 DEF Injection, IsInjective
  <2>3. IsFiniteSet(0 .. n - 1) /\ Cardinality(0 .. n - 1) = n
    <3>1. 0 \in Int /\ n - 1 \in Int
      OBVIOUS
    <3>2. IsFiniteSet(0 .. n - 1) /\ Cardinality(0 .. n - 1) = IF 0 > n - 1 THEN 0 ELSE (n - 1) - 0 + 1
      BY <3>1, FS_Interval
    <3> QED
      BY <3>2
  <2>4. f \in Surjection(kept, 0 .. n - 1)
    BY <2>2, <2>3, FS_Injection
  <2> QED
    BY <2>1, <2>4 DEF Surjection
<1> QED
  BY <1>3, <1>4, <1>5

\* A new body has experienced what the store kept, each once.
LEMMA ReplayIsKept ==
  ASSUME NEW S, IsFiniteSet(S), \A r \in S : r.id \in Episode
  PROVE  Replay(S) \in Seq(Episode) /\ IsInjective(Replay(S)) /\ ToSet(Replay(S)) = Kept(S)
<1>1. PICK kept \in SUBSET Episode : kept = Kept(S)
  BY DEF Kept, IdsOf
<1>2. IsFiniteSet(kept)
  <2>1. IsFiniteSet({r \in S : r.vec = "kept"})
    BY FS_Subset
  <2>2. PICK with : with = {r \in S : r.vec = "kept"}
    OBVIOUS
  <2>3. [r \in with |-> r.id] \in Surjection(with, kept)
    BY <1>1, <2>2 DEF Kept, IdsOf, Surjection
  <2> QED
    BY <2>1, <2>2, <2>3, FS_Surjection
<1>3. PICK n \in Nat : n = Cardinality(kept)
  BY <1>2, FS_CardinalityType
<1>4. PICK seq : seq = Replay(S)
  OBVIOUS
<1>5. seq = [i \in 1 .. n |-> CHOOSE p \in kept : Place(kept, p) = i - 1]
  BY <1>1, <1>3, <1>4 DEF Replay, Place
<1>6. \A i \in 1 .. n : seq[i] \in kept /\ Place(kept, seq[i]) = i - 1
  <2> SUFFICES ASSUME NEW i \in 1 .. n
               PROVE  seq[i] \in kept /\ Place(kept, seq[i]) = i - 1
    OBVIOUS
  <2>1. i - 1 \in 0 .. n - 1
    OBVIOUS
  <2>2. \E p \in kept : Place(kept, p) = i - 1
    BY <1>2, <1>3, <2>1, PlacesAreTaken
  <2>3. seq[i] = CHOOSE p \in kept : Place(kept, p) = i - 1
    BY <1>5
  <2> QED
    BY <2>2, <2>3
<1>7. seq \in Seq(Episode) /\ DOMAIN seq = 1 .. n
  <2>1. seq \in [1 .. n -> Episode]
    BY <1>5, <1>6
  <2> QED
    BY <2>1
<1>8. IsInjective(seq)
  <2>1. \A i, j \in 1 .. n : seq[i] = seq[j] => i = j
    <3> SUFFICES ASSUME NEW i \in 1 .. n, NEW j \in 1 .. n, seq[i] = seq[j]
                 PROVE  i = j
      OBVIOUS
    <3>1. i - 1 = j - 1
      BY <1>6
    <3> QED
      BY <3>1
  <2> QED
    BY <1>7, <2>1 DEF IsInjective
<1>9. kept \subseteq ToSet(seq)
  <2> SUFFICES ASSUME NEW p \in kept
               PROVE  p \in ToSet(seq)
    OBVIOUS
  <2>1. PICK i \in 0 .. n - 1 : Place(kept, p) = i
    BY <1>2, <1>3, PlacesAreTaken
  <2>2. i + 1 \in 1 .. n /\ (i + 1) - 1 = i
    OBVIOUS
  <2>3. seq[i + 1] = p
    BY <1>2, <1>3, <1>6, <2>1, <2>2, PlacesAreTaken
  <2> QED
    BY <1>7, <2>2, <2>3 DEF ToSet
<1>10. ToSet(seq) \subseteq kept
  BY <1>6, <1>7 DEF ToSet
<1> QED
  BY <1>1, <1>4, <1>7, <1>8, <1>9, <1>10

-----------------------------------------------------------------------------
(* What is news, in whose hand, and what a step leaves of it *)

LEMMA SetOfSeq ==
  ASSUME NEW S, NEW s \in Seq(S)
  PROVE  /\ \A e \in S : ToSet(Append(s, e)) = ToSet(s) \cup {e}
         /\ \A e \in S : IsInjective(s) /\ e \notin ToSet(s) => IsInjective(Append(s, e))
         /\ s # << >> => Head(s) \in S /\ Tail(s) \in Seq(S) /\ ToSet(s) = {Head(s)} \cup ToSet(Tail(s))
         /\ ToSet(s) \subseteq S
<1>1. PICK n \in Nat : n = Len(s) /\ DOMAIN s = 1 .. n
  <2>1. Len(s) \in Nat /\ DOMAIN s = 1 .. Len(s)
    OBVIOUS
  <2> QED
    BY <2>1
<1>2. ASSUME NEW e \in S
      PROVE  /\ ToSet(Append(s, e)) = ToSet(s) \cup {e}
             /\ IsInjective(s) /\ e \notin ToSet(s) => IsInjective(Append(s, e))
  <2>1. /\ DOMAIN Append(s, e) = 1 .. n + 1 /\ Append(s, e)[n + 1] = e
        /\ \A i \in 1 .. n : Append(s, e)[i] = s[i]
    BY <1>1
  <2>2. \A i \in 1 .. n + 1 : i \in 1 .. n \/ i = n + 1
    OBVIOUS
  <2>3. 1 .. n \subseteq 1 .. n + 1 /\ n + 1 \in 1 .. n + 1
    OBVIOUS
  <2>4. ToSet(Append(s, e)) \subseteq ToSet(s) \cup {e}
    BY <1>1, <2>1, <2>2 DEF ToSet
  <2>5. ToSet(s) \cup {e} \subseteq ToSet(Append(s, e))
    BY <1>1, <2>1, <2>3 DEF ToSet
  <2>6. ASSUME IsInjective(s), e \notin ToSet(s)
        PROVE  IsInjective(Append(s, e))
    <3>1. \A i, j \in 1 .. n : s[i] = s[j] => i = j
      BY <1>1, <2>6 DEF IsInjective
    <3>2. \A i \in 1 .. n : s[i] # e
      BY <1>1, <2>6 DEF ToSet
    <3>3. \A i, j \in 1 .. n + 1 : Append(s, e)[i] = Append(s, e)[j] => i = j
      BY <2>1, <2>2, <3>1, <3>2
    <3> QED
      BY <2>1, <3>3 DEF IsInjective
  <2> QED
    BY <2>4, <2>5, <2>6
<1>3. ASSUME s # << >>
      PROVE  Head(s) \in S /\ Tail(s) \in Seq(S) /\ ToSet(s) = {Head(s)} \cup ToSet(Tail(s))
  <2>1. n > 0 /\ Head(s) = s[1] /\ Tail(s) \in Seq(S) /\ Head(s) \in S
    BY <1>1, <1>3
  <2>2. DOMAIN Tail(s) = 1 .. n - 1 /\ \A i \in 1 .. n - 1 : Tail(s)[i] = s[i + 1]
    BY <1>1, <1>3
  <2>3. \A i \in 1 .. n : i = 1 \/ (i - 1 \in 1 .. n - 1 /\ (i - 1) + 1 = i)
    OBVIOUS
  <2>4. 1 \in 1 .. n /\ \A i \in 1 .. n - 1 : i + 1 \in 1 .. n
    BY <2>1
  <2>5. ToSet(s) \subseteq {Head(s)} \cup ToSet(Tail(s))
    <3> SUFFICES ASSUME NEW i \in 1 .. n
                 PROVE  s[i] \in {Head(s)} \cup ToSet(Tail(s))
      BY <1>1 DEF ToSet
    <3>1. CASE i = 1
      BY <2>1, <3>1
    <3>2. CASE i # 1
      <4>1. i - 1 \in 1 .. n - 1 /\ Tail(s)[i - 1] = s[i]
        BY <2>2, <2>3, <3>2
      <4> QED
        BY <2>2, <4>1 DEF ToSet
    <3> QED
      BY <3>1, <3>2
  <2>6. {Head(s)} \cup ToSet(Tail(s)) \subseteq ToSet(s)
    BY <1>1, <2>1, <2>2, <2>4 DEF ToSet
  <2> QED
    BY <2>1, <2>5, <2>6
<1>4. ToSet(s) \subseteq S
  BY DEF ToSet
<1> QED
  BY <1>2, <1>3, <1>4

\* The last of the motions is one of them.
LEMMA LastMotion ==
  ASSUME NEW n \in Nat, NEW times \in SUBSET (1 .. n), times # {}
  PROVE  Max(times) \in times /\ \A t \in times : t <= Max(times)
<1> DEFINE ago == {i \in Nat : n - i \in times}
<1>1. ago # {}
  <2>1. PICK t \in times : TRUE
    OBVIOUS
  <2>2. n - t \in Nat /\ n - (n - t) = t
    OBVIOUS
  <2> QED
    BY <2>2
<1>2. PICK i \in ago : \A m \in ago : ~(<<m, i>> \in OpToRel(<, Nat))
  BY <1>1, NatLessThanWellFounded, WFMin
<1>3. \A m \in ago : ~(m \in Nat /\ i \in Nat /\ m < i)
  BY <1>2, Zenon DEF OpToRel
<1>4. ASSUME NEW t \in times
      PROVE  n - i >= t
  <2>1. n - t \in Nat /\ n - (n - t) = t
    OBVIOUS
  <2>2. n - t \in ago
    BY <2>1
  <2>3. ~(n - t < i)
    BY <1>3, <2>1, <2>2
  <2> QED
    BY <2>3
<1>5. n - i \in times
  OBVIOUS
<1>6. Max(times) \in times /\ \A t \in times : Max(times) >= t
  BY <1>4, <1>5 DEF Max
<1> QED
  BY <1>6

\* A percept is a pair, never the empty id.
LEMMA PerceptIsNews ==
  ASSUME NEW kind \in {"health", "motion"}, NEW t \in Nat
  PROVE  \E p \in Percept : p = <<kind, t>> /\ p # << >> /\ p[1] = kind /\ p[2] = t
<1>1. <<kind, t>> # << >>
  OBVIOUS
<1>2. <<kind, t>> \in Percept
  BY DEF Percept
<1> QED
  BY <1>1, <1>2

\* The writers' episodes are never the same.
LEMMA TwoHands ==
  ASSUME NEW v \in Writers, NEW w \in Writers, v # w,
         NEW p \in EpisodesOf(v), NEW q \in EpisodesOf(w)
  PROVE  p # q
BY DEF Writers, EpisodesOf, Percept

\* One writer's hand moves, the other's does not.
LEMMA HandMoves ==
  ASSUME HandTypes, NEW w \in Writers, NEW step \in {"free", "embed", "body"}, NEW id,
         step # "free" => id \in EpisodesOf(w),
         hand' = [hand EXCEPT ![w] = [step |-> step, id |-> id]]
  PROVE  /\ HandTypes'
         /\ hand'[w].step = step /\ hand'[w].id = id
         /\ \A v \in Writers : v # w => hand'[v] = hand[v]
<1>1. PICK h : h = [step |-> step, id |-> id]
  OBVIOUS
<1>2. DOMAIN hand' = Writers /\ hand'[w] = h /\ \A v \in Writers : v # w => hand'[v] = hand[v]
  BY <1>1 DEF HandTypes
<1>3. h.step = step /\ h.id = id
  BY <1>1
<1>4. \A v \in Writers : /\ hand'[v] = [step |-> hand'[v].step, id |-> hand'[v].id]
                         /\ hand'[v].step \in {"free", "embed", "body"}
                         /\ hand'[v].step # "free" => hand'[v].id \in EpisodesOf(v)
  <2> SUFFICES ASSUME NEW v \in Writers
               PROVE  /\ hand'[v] = [step |-> hand'[v].step, id |-> hand'[v].id]
                      /\ hand'[v].step \in {"free", "embed", "body"}
                      /\ hand'[v].step # "free" => hand'[v].id \in EpisodesOf(v)
    OBVIOUS
  <2>1. CASE v = w
    BY <1>1, <1>2, <1>3, <2>1
  <2>2. CASE v # w
    BY <1>2, <2>2 DEF HandTypes
  <2> QED
    BY <2>1, <2>2
<1> QED
  BY <1>2, <1>3, <1>4 DEF HandTypes

\* The feed hands over no news while it has none, and none before both facts.
LEMMA FeedIsFree ==
  ASSUME NoticeInv, news = << >> \/ half
  PROVE  hand["feed"].step = "free"
BY DEF NoticeInv, InOneHand

-----------------------------------------------------------------------------
(* Every step *)

LEMMA NoticeStarts ==
  ASSUME CameraInit, PerceptInit
  PROVE  NoticeInv
<1>1. /\ captures = 0 /\ moved = {} /\ stored = {} /\ body = << >> /\ news = << >> /\ noticed = {}
      /\ half = FALSE /\ hand = [w \in Writers |-> Free]
      /\ reader = [mode |-> NoMode, motion |-> 0]
  BY DEF CameraInit, PerceptInit, Fresh
<1>2. reader.mode = NoMode /\ reader.motion = 0
  BY <1>1
<1>3. \A w \in Writers : hand[w].step = "free" /\ hand[w] = [step |-> "free", id |-> << >>] /\ hand[w].id = << >>
  BY <1>1 DEF Free
<1>4. HandTypes
  BY <1>1, <1>3 DEF HandTypes
<1>5. IsFiniteSet(stored) /\ news \in Seq(Percept) /\ body \in Seq(Episode)
  BY <1>1, FS_EmptySet
<1>6. NoticeTypes
  <2>1. ToSet(news) \subseteq noticed
    BY <1>1 DEF ToSet
  <2>2. captures \in Nat /\ moved \subseteq 1 .. captures /\ reader.motion \in moved \cup {0}
    BY <1>1, <1>2
  <2>3. half \in BOOLEAN /\ noticed \subseteq Percept /\ \A r \in stored : r.id \in Episode
    BY <1>1
  <2>4. reader = [mode |-> reader.mode, motion |-> reader.motion]
    BY <1>1
  <2> QED
    BY <1>4, <1>5, <2>1, <2>2, <2>3, <2>4 DEF NoticeTypes
<1>7. InOneHand /\ MotionMarked
  BY <1>1, <1>3 DEF InOneHand, MotionMarked, Writers
<1>8. BodyHoldsStore
  BY <1>1 DEF BodyHoldsStore, IsInjective, Kept, IdsOf, ToSet
<1>9. NewsIsKept /\ EpisodesApart
  BY <1>1 DEF NewsIsKept, EpisodesApart
<1> QED
  BY <1>6, <1>7, <1>8, <1>9 DEF NoticeInv

\* The camera only goes on.
LEMMA CameraGoesOn ==
  ASSUME NoticeInv, CameraNext, UNCHANGED perceptVars
  PROVE  NoticeInv'
<1>1. captures' \in Nat /\ moved' \subseteq 1 .. captures' /\ moved \subseteq moved'
  <2>1. captures \in Nat /\ moved \subseteq 1 .. captures
    BY DEF NoticeInv, NoticeTypes
  <2>2. CASE UNCHANGED <<captures, moved>>
    BY <2>1, <2>2
  <2>3. ASSUME NEW m, NEW motion, Record(m, motion)
        PROVE  captures' \in Nat /\ moved' \subseteq 1 .. captures' /\ moved \subseteq moved'
    BY <2>1, <2>3 DEF Record
  <2>4. CASE \E size \in Sizes, class \in Classes : Picture(size, class)
    BY <2>3, <2>4 DEF Picture
  <2>5. CASE \E size \in Sizes : Blank(size)
    BY <2>3, <2>5 DEF Blank
  <2>6. CASE Failure
    BY <2>3, <2>6 DEF Failure
  <2>7. CASE CameraReset
    BY <2>2, <2>7 DEF CameraReset
  <2> QED
    BY <2>4, <2>5, <2>6, <2>7 DEF CameraNext
<1>2. NoticeTypes'
  BY <1>1 DEF perceptVars, NoticeInv, NoticeTypes, HandTypes
<1>3. InOneHand' /\ MotionMarked' /\ NewsIsKept' /\ EpisodesApart'
  BY DEF perceptVars, NoticeInv, InOneHand, MotionMarked, NewsIsKept, EpisodesApart
<1>4. BodyHoldsStore'
  BY DEF perceptVars, NoticeInv, BodyHoldsStore, InHand
<1> QED
  BY <1>2, <1>3, <1>4 DEF NoticeInv

LEMMA TickHealthKeeps ==
  ASSUME NoticeInv, TickHealth, UNCHANGED cameraVars
  PROVE  NoticeInv'
<1>1. news = << >> /\ half' = TRUE /\ hand["feed"].step = "free"
  BY FeedIsFree DEF TickHealth
<1>2. UNCHANGED <<captures, moved, hand, stored, body, leftBehind>>
  BY DEF TickHealth, cameraVars
<1>3. news' \in Seq(Percept) /\ noticed' = noticed \cup ToSet(news') /\ \A p \in ToSet(news') : p[1] = "health" /\ p \in Percept
  <2>1. captures \in Nat
    BY DEF NoticeInv, NoticeTypes
  <2>2. PICK p \in Percept : p = <<"health", captures>> /\ p # << >> /\ p[1] = "health"
    BY <2>1, PerceptIsNews
  <2>3. news' = <<p>> \/ news' = << >>
    BY <2>2 DEF TickHealth, AsNews
  <2>4. ToSet(<<p>>) = {p} /\ ToSet(<< >>) = {}
    BY DEF ToSet
  <2>5. <<p>> \in Seq(Percept) /\ << >> \in Seq(Percept)
    OBVIOUS
  <2> QED
    BY <2>2, <2>3, <2>4, <2>5 DEF TickHealth
<1>4. reader' = [mode |-> mode, motion |-> reader.motion] /\ reader'.mode = mode /\ reader'.motion = reader.motion
  <2>1. PICK m, t : reader = [mode |-> m, motion |-> t] /\ t = reader.motion
    BY DEF NoticeInv, NoticeTypes
  <2>2. PICK q : q = [reader EXCEPT !.mode = mode]
    OBVIOUS
  <2>3. q = [mode |-> mode, motion |-> t]
    BY <2>1, <2>2
  <2> QED
    BY <2>1, <2>2, <2>3 DEF TickHealth
<1>5. NoticeTypes'
  BY <1>1, <1>2, <1>3, <1>4 DEF NoticeInv, NoticeTypes, HandTypes
<1>6. InOneHand'
  BY <1>1, <1>2 DEF NoticeInv, InOneHand
<1>7. BodyHoldsStore'
  BY <1>2 DEF NoticeInv, BodyHoldsStore, InHand
<1>8. MotionMarked' /\ EpisodesApart'
  BY <1>3, <1>4 DEF NoticeInv, MotionMarked, EpisodesApart
<1>9. NewsIsKept'
  <2>1. ToSet(news) = {}
    BY <1>1 DEF ToSet
  <2> QED
    BY <1>2, <1>3, <2>1 DEF NoticeInv, NewsIsKept
<1> QED
  BY <1>5, <1>6, <1>7, <1>8, <1>9 DEF NoticeInv

LEMMA TickMotionKeeps ==
  ASSUME NoticeInv, TickMotion, UNCHANGED cameraVars
  PROVE  NoticeInv'
<1> USE PerceptAssumption
<1>1. half /\ half' = FALSE /\ hand["feed"].step = "free"
  BY FeedIsFree DEF TickMotion
<1>2. UNCHANGED <<captures, moved, hand, stored, body, leftBehind>>
  BY DEF TickMotion, cameraVars
<1>3. PICK at \in Nat : at = IF moved = {} THEN 0 ELSE Max(moved)
  <2>1. captures \in Nat /\ moved \in SUBSET (1 .. captures)
    BY DEF NoticeInv, NoticeTypes
  <2>2. moved # {} => Max(moved) \in moved
    BY <2>1, LastMotion
  <2>3. moved # {} => Max(moved) \in Nat
    <3>1. \A t \in 1 .. captures : t \in Nat
      OBVIOUS
    <3> QED
      BY <2>1, <2>2, <3>1
  <2> QED
    BY <2>3
<1>4. at \in moved \cup {0} /\ reader.motion <= at /\ reader.motion \in Nat
  <2>1. captures \in Nat /\ moved \in SUBSET (1 .. captures)
    BY DEF NoticeInv, NoticeTypes
  <2>2. moved # {} => Max(moved) \in moved /\ \A t \in moved : t <= Max(moved)
    BY <2>1, LastMotion
  <2>3. reader.motion \in moved \cup {0}
    BY DEF NoticeInv, NoticeTypes
  <2>4. CASE moved = {}
    BY <1>3, <2>3, <2>4
  <2>5. CASE moved # {}
    <3>1. at = Max(moved)
      BY <1>3, <2>5
    <3>2. at \in moved /\ \A t \in moved : t <= at
      BY <2>2, <2>5, <3>1
    <3>3. reader.motion <= at
      <4>1. CASE reader.motion = 0
        BY <4>1
      <4>2. CASE reader.motion \in moved
        BY <3>2, <4>2
      <4> QED
        BY <2>3, <4>1, <4>2
    <3>4. \A t \in 1 .. captures : t \in Nat
      OBVIOUS
    <3>5. moved \subseteq Nat
      BY <2>1, <3>4
    <3>6. reader.motion \in Nat
      <4>1. CASE reader.motion = 0
        BY <4>1
      <4>2. CASE reader.motion \in moved
        BY <3>5, <4>2
      <4> QED
        BY <2>3, <4>1, <4>2
    <3> QED
      BY <3>2, <3>3, <3>6
  <2> QED
    BY <2>4, <2>5
<1>5. reader' = [mode |-> reader.mode, motion |-> at] /\ reader'.mode = reader.mode /\ reader'.motion = at
  <2>1. PICK m, t : reader = [mode |-> m, motion |-> t] /\ m = reader.mode
    BY DEF NoticeInv, NoticeTypes
  <2>2. PICK q : q = [reader EXCEPT !.motion = at]
    OBVIOUS
  <2>3. q = [mode |-> m, motion |-> at]
    BY <2>1, <2>2
  <2>4. reader' = q
    BY <1>3, <2>2 DEF TickMotion
  <2> QED
    BY <2>1, <2>3, <2>4
<1>6. PICK p \in Percept : p = <<"motion", at>> /\ p # << >> /\ p[1] = "motion" /\ p[2] = at
  BY PerceptIsNews
<1>7. news \in Seq(Percept)
  BY DEF NoticeInv, NoticeTypes
<1>8. \/ /\ news' = Append(news, p) /\ ToSet(news') = ToSet(news) \cup {p}
         /\ at # reader.motion
         /\ reader.motion = 0 \/ at - reader.motion >= Gap
      \/ news' = news
  <2>1. CASE at # reader.motion /\ (reader.motion = 0 \/ at - reader.motion >= Gap)
    <3>1. news' = news \o <<p>>
      BY <1>3, <1>6, <2>1 DEF TickMotion, AsNews
    <3>2. news' = Append(news, p)
      BY <1>7, <3>1, AppendIsConcat
    <3> QED
      BY <1>7, <2>1, <3>2, SetOfSeq
  <2>2. CASE ~(at # reader.motion /\ (reader.motion = 0 \/ at - reader.motion >= Gap))
    <3>1. news' = news \o << >>
      BY <1>3, <2>2 DEF TickMotion, AsNews
    <3> QED
      BY <1>7, <3>1
  <2> QED
    BY <2>1, <2>2
<1>9. news' \in Seq(Percept) /\ noticed' = noticed \cup ToSet(news') /\ ToSet(news) \subseteq ToSet(news')
  <2>1. news' \in Seq(Percept)
    <3>1. Append(news, p) \in Seq(Percept)
      BY <1>7
    <3> QED
      BY <1>7, <1>8, <3>1
  <2> QED
    BY <1>8, <2>1 DEF TickMotion
<1>10. noticed' \subseteq Percept
  BY <1>9, SetOfSeq DEF NoticeInv, NoticeTypes
<1>11. NoticeTypes'
  BY <1>1, <1>2, <1>4, <1>5, <1>9, <1>10 DEF NoticeInv, NoticeTypes, HandTypes
<1>12. InOneHand'
  BY <1>1, <1>2 DEF NoticeInv, InOneHand
<1>13. BodyHoldsStore'
  BY <1>2 DEF NoticeInv, BodyHoldsStore, InHand
<1>14. NewsIsKept'
  BY <1>2, <1>9 DEF NoticeInv, NewsIsKept
<1>15. noticed' = noticed \/ (noticed' = noticed \cup {p} /\ at # reader.motion
                               /\ (reader.motion = 0 \/ at - reader.motion >= Gap))
  BY <1>8, <1>9 DEF NoticeInv, NoticeTypes
<1>16. \A q \in noticed : q[1] = "motion" => q[2] \in Nat /\ q[2] <= reader.motion /\ reader.motion # 0
  BY DEF NoticeInv, NoticeTypes, MotionMarked, Percept
<1>17. MotionMarked'
  BY <1>4, <1>5, <1>6, <1>15, <1>16 DEF MotionMarked
<1>18. EpisodesApart'
  <2>1. \A q \in noticed : q[1] = "motion" => ~(p[2] < q[2]) /\ (at - reader.motion >= Gap => at - q[2] >= Gap)
    BY <1>4, <1>6, <1>16
  <2> QED
    BY <1>6, <1>15, <1>16, <2>1 DEF NoticeInv, EpisodesApart, Moment
<1> QED
  BY <1>11, <1>12, <1>13, <1>14, <1>17, <1>18 DEF NoticeInv

LEMMA PerceiveKeeps ==
  ASSUME NoticeInv, Perceive, UNCHANGED cameraVars
  PROVE  NoticeInv'
<1>1. news \in Seq(Percept) /\ news # << >> /\ ~half /\ hand["feed"] = Free /\ HandTypes
  BY DEF Perceive, NoticeInv, NoticeTypes
<1>2. UNCHANGED <<captures, moved, reader, half, stored, body, noticed, leftBehind>>
  BY DEF Perceive, cameraVars
<1>3. PICK p \in Percept, rest \in Seq(Percept) : p = Head(news) /\ rest = Tail(news) /\ ToSet(news) = {p} \cup ToSet(rest)
  <2>1. Head(news) \in Percept /\ Tail(news) \in Seq(Percept) /\ ToSet(news) = {Head(news)} \cup ToSet(Tail(news))
    BY <1>1, SetOfSeq
  <2> QED
    BY <2>1
<1>4. hand["feed"].step = "free"
  BY <1>1 DEF Free
<1>5. CASE Seen(p)
  <2>1. news' = rest /\ hand' = hand
    BY <1>3, <1>5 DEF Perceive
  <2>2. NoticeTypes'
    BY <1>2, <1>3, <2>1 DEF NoticeInv, NoticeTypes, HandTypes
  <2>3. InOneHand' /\ MotionMarked' /\ EpisodesApart' /\ BodyHoldsStore'
    BY <1>2, <1>4, <2>1 DEF NoticeInv, InOneHand, MotionMarked, EpisodesApart, BodyHoldsStore, InHand
  <2>4. NewsIsKept'
    BY <1>2, <1>3, <1>5, <2>1 DEF NoticeInv, NewsIsKept, Seen
  <2> QED
    BY <2>2, <2>3, <2>4 DEF NoticeInv
<1>6. CASE ~Seen(p)
  <2>1. news' = news /\ hand' = [hand EXCEPT !["feed"] = [step |-> "embed", id |-> p]]
    BY <1>3, <1>6 DEF Perceive
  <2>2. "feed" \in Writers /\ p \in EpisodesOf("feed")
    BY DEF Writers, EpisodesOf
  <2>3. /\ HandTypes' /\ hand'["feed"].step = "embed" /\ hand'["feed"].id = p
        /\ \A v \in Writers : v # "feed" => hand'[v] = hand[v]
    BY <1>1, <2>1, <2>2, HandMoves
  <2>4. NoticeTypes'
    BY <1>2, <2>1, <2>3 DEF NoticeInv, NoticeTypes
  <2>5. InOneHand'
    <3>1. p \notin IdsOf(stored)
      BY <1>6 DEF Seen
    <3> QED
      BY <1>1, <1>2, <1>3, <2>1, <2>3, <3>1 DEF NoticeInv, InOneHand
  <2>6. InHand' = InHand
    BY <1>4, <2>3 DEF InHand
  <2>7. MotionMarked' /\ EpisodesApart' /\ BodyHoldsStore' /\ NewsIsKept'
    BY <1>2, <2>1, <2>6 DEF NoticeInv, MotionMarked, EpisodesApart, BodyHoldsStore, NewsIsKept
  <2> QED
    BY <2>4, <2>5, <2>7 DEF NoticeInv
<1> QED
  BY <1>5, <1>6

LEMMA TurnEndsKeeps ==
  ASSUME NoticeInv, TurnEnds, UNCHANGED cameraVars
  PROVE  NoticeInv'
<1>1. hand["turn"] = Free /\ hand["turn"].step = "free" /\ HandTypes
  BY DEF TurnEnds, NoticeInv, NoticeTypes, Free
<1>2. UNCHANGED <<captures, moved, reader, half, news, stored, body, noticed, leftBehind>>
  BY DEF TurnEnds, cameraVars
<1>3. PICK p \in {"turn"} \X Nat : p = <<"turn", captures>>
  BY DEF NoticeInv, NoticeTypes
<1>4. "turn" \in Writers /\ p \in EpisodesOf("turn")
  BY DEF Writers, EpisodesOf
<1>5. hand' = [hand EXCEPT !["turn"] = [step |-> "embed", id |-> p]] /\ p \notin IdsOf(stored)
  BY <1>3 DEF TurnEnds
<1>6. /\ HandTypes' /\ hand'["turn"].step = "embed" /\ hand'["turn"].id = p
      /\ \A v \in Writers : v # "turn" => hand'[v] = hand[v]
  BY <1>1, <1>4, <1>5, HandMoves
<1>7. NoticeTypes'
  BY <1>2, <1>6 DEF NoticeInv, NoticeTypes
<1>8. InOneHand'
  BY <1>2, <1>5, <1>6 DEF NoticeInv, InOneHand, Writers
<1>9. InHand' = InHand
  BY <1>1, <1>6 DEF InHand
<1>10. MotionMarked' /\ EpisodesApart' /\ BodyHoldsStore' /\ NewsIsKept'
  BY <1>2, <1>9 DEF NoticeInv, MotionMarked, EpisodesApart, BodyHoldsStore, NewsIsKept
<1> QED
  BY <1>7, <1>8, <1>10 DEF NoticeInv

\* A writer that returns leaves its hand free, and feed the rest of its news.
LEMMA ReturnedLeaves ==
  ASSUME NoticeInv, NEW w \in Writers, Returned(w), hand[w].step # "free"
  PROVE  /\ HandTypes' /\ hand'[w].step = "free"
         /\ \A v \in Writers : v # w => hand'[v] = hand[v]
         /\ news' \in Seq(Percept) /\ ToSet(news') \subseteq ToSet(news)
         /\ ToSet(news) \subseteq ToSet(news') \cup {hand[w].id}
         /\ hand'["feed"].step # "free" => news' = news
<1>1. HandTypes /\ news \in Seq(Percept)
  BY DEF NoticeInv, NoticeTypes
<1>2. hand' = [hand EXCEPT ![w] = [step |-> "free", id |-> << >>]]
  BY DEF Returned, Free
<1>3. HandTypes' /\ hand'[w].step = "free" /\ \A v \in Writers : v # w => hand'[v] = hand[v]
  BY <1>1, <1>2, HandMoves
<1>4. CASE w = "feed"
  <2>1. news # << >> /\ hand[w].id = Head(news) /\ news' = Tail(news)
    BY <1>4 DEF NoticeInv, InOneHand, Returned
  <2>2. Tail(news) \in Seq(Percept) /\ ToSet(news) = {Head(news)} \cup ToSet(Tail(news))
    BY <1>1, <2>1, SetOfSeq
  <2> QED
    BY <1>3, <1>4, <2>1, <2>2
<1>5. CASE w # "feed"
  BY <1>1, <1>3, <1>5 DEF Returned
<1> QED
  BY <1>4, <1>5

LEMMA ExperienceKeeps ==
  ASSUME NoticeInv, NEW w \in Writers, Experience(w), UNCHANGED cameraVars
  PROVE  NoticeInv'
<1>1. hand[w].step = "body" /\ hand[w].step # "free" /\ Returned(w) /\ HandTypes
  BY DEF Experience, NoticeInv, NoticeTypes
<1>2. UNCHANGED <<captures, moved, reader, half, stored, noticed, leftBehind>>
  BY DEF Experience, cameraVars
<1>3. /\ HandTypes' /\ hand'[w].step = "free"
      /\ \A v \in Writers : v # w => hand'[v] = hand[v]
      /\ news' \in Seq(Percept) /\ ToSet(news') \subseteq ToSet(news)
      /\ ToSet(news) \subseteq ToSet(news') \cup {hand[w].id}
      /\ hand'["feed"].step # "free" => news' = news
  BY <1>1, ReturnedLeaves
<1>4. PICK p \in Episode : p = hand[w].id
  BY <1>1 DEF HandTypes, EpisodesOf, Episode, Percept
<1>5. body' = Append(body, p) /\ body \in Seq(Episode)
  BY <1>4 DEF Experience, NoticeInv, NoticeTypes
<1>6. p \in IdsOf({r \in stored : r.vec # "none"}) /\ p \notin ToSet(body)
  BY <1>1, <1>4 DEF NoticeInv, InOneHand
<1>7. body' \in Seq(Episode) /\ ToSet(body') = ToSet(body) \cup {p} /\ IsInjective(body')
  <2>1. IsInjective(body)
    BY DEF NoticeInv, BodyHoldsStore
  <2> QED
    BY <1>5, <1>6, <2>1, SetOfSeq
<1>8. NoticeTypes'
  BY <1>2, <1>3, <1>7 DEF NoticeInv, NoticeTypes
<1>9. InOneHand'
  <2>1. ASSUME NEW v \in Writers, hand'[v].step = "body"
        PROVE  hand'[v].id \in IdsOf({r \in stored : r.vec # "none"}) /\ hand'[v].id \notin ToSet(body')
    <3>1. v # w /\ hand'[v] = hand[v]
      BY <1>3, <2>1
    <3>2. hand[v].id \in EpisodesOf(v) /\ hand[w].id \in EpisodesOf(w)
      BY <1>1, <2>1, <3>1 DEF HandTypes
    <3>3. hand[v].id # p
      BY <1>4, <3>1, <3>2, TwoHands
    <3> QED
      BY <1>7, <2>1, <3>1, <3>3 DEF NoticeInv, InOneHand
  <2>2. \A v \in Writers : hand'[v].step = "embed" => hand'[v].id \notin IdsOf(stored)
    BY <1>3 DEF NoticeInv, InOneHand
  <2>3. hand'["feed"].step # "free" => hand'["feed"] = hand["feed"] /\ news' = news
    BY <1>3 DEF Writers
  <2> QED
    BY <1>2, <2>1, <2>2, <2>3 DEF NoticeInv, InOneHand
<1>10. BodyHoldsStore'
  <2>1. InHand \subseteq InHand' \cup {p}
    BY <1>3, <1>4 DEF InHand
  <2> QED
    BY <1>2, <1>6, <1>7, <2>1 DEF NoticeInv, BodyHoldsStore
<1>11. NewsIsKept'
  <2>1. p \in IdsOf(stored)
    BY <1>6 DEF IdsOf
  <2> QED
    BY <1>2, <1>3, <1>4, <2>1 DEF NoticeInv, NewsIsKept
<1>12. MotionMarked' /\ EpisodesApart'
  BY <1>2 DEF NoticeInv, MotionMarked, EpisodesApart
<1> QED
  BY <1>8, <1>9, <1>10, <1>11, <1>12 DEF NoticeInv

LEMMA RowFailsKeeps ==
  ASSUME NoticeInv, NEW w \in Writers, RowFails(w), UNCHANGED cameraVars
  PROVE  NoticeInv'
<1>1. hand[w].step = "embed" /\ HandTypes
  BY DEF RowFails, NoticeInv, NoticeTypes
<1>2. UNCHANGED <<captures, moved, reader, half, stored, body, noticed>>
  BY DEF RowFails, cameraVars
<1>3. hand' = [hand EXCEPT ![w] = [step |-> "free", id |-> << >>]]
  BY DEF RowFails, Free
<1>4. HandTypes' /\ hand'[w].step = "free" /\ \A v \in Writers : v # w => hand'[v] = hand[v]
  BY <1>1, <1>3, HandMoves
<1>5. \/ news' = news /\ leftBehind' = leftBehind /\ w # "feed"
      \/ news' = << >> /\ leftBehind' = leftBehind \cup ToSet(news) /\ w = "feed"
  BY DEF RowFails
<1>6. news' \in Seq(Percept) /\ ToSet(news') \subseteq ToSet(news)
  <2>1. news \in Seq(Percept) /\ << >> \in Seq(Percept) /\ ToSet(<< >>) = {}
    BY DEF NoticeInv, NoticeTypes, ToSet
  <2> QED
    BY <1>5, <2>1
<1>7. NoticeTypes'
  BY <1>2, <1>4, <1>6 DEF NoticeInv, NoticeTypes
<1>8. InOneHand'
  <2>1. hand'["feed"].step # "free" => hand'["feed"] = hand["feed"] /\ news' = news
    BY <1>4, <1>5 DEF Writers
  <2>2. \A v \in Writers : hand'[v].step # "free" => hand'[v] = hand[v]
    BY <1>4
  <2> QED
    BY <1>2, <2>1, <2>2 DEF NoticeInv, InOneHand
<1>9. InHand' = InHand
  BY <1>1, <1>4 DEF InHand
<1>10. MotionMarked' /\ EpisodesApart' /\ BodyHoldsStore'
  BY <1>2, <1>9 DEF NoticeInv, MotionMarked, EpisodesApart, BodyHoldsStore
<1>11. NewsIsKept'
  BY <1>2, <1>5 DEF NoticeInv, NewsIsKept
<1> QED
  BY <1>7, <1>8, <1>10, <1>11 DEF NoticeInv

LEMMA WriteRowKeeps ==
  ASSUME NoticeInv, NEW w \in Writers, NEW vec \in Fates, WriteRow(w, vec), UNCHANGED cameraVars
  PROVE  NoticeInv'
<1>1. hand[w].step = "embed" /\ hand[w].step # "free" /\ HandTypes
  BY DEF WriteRow, NoticeInv, NoticeTypes
<1>2. UNCHANGED <<captures, moved, reader, half, body, noticed, leftBehind>>
  BY DEF WriteRow, cameraVars
<1>3. PICK p \in Episode : p = hand[w].id
  BY <1>1 DEF HandTypes, EpisodesOf, Episode, Percept
<1>4. p \notin IdsOf(stored)
  BY <1>1, <1>3 DEF NoticeInv, InOneHand
<1>5. PICK row : row = [id |-> p, vec |-> vec]
  OBVIOUS
<1>6. row.id = p /\ row.vec = vec
  BY <1>5
<1>7. stored' = stored \cup {row}
  <2>1. {r \in stored : r.id # p} = stored
    BY <1>4 DEF IdsOf
  <2> QED
    BY <1>3, <1>5, <2>1 DEF WriteRow
<1>8. IdsOf(stored') = IdsOf(stored) \cup {p}
  BY <1>6, <1>7 DEF IdsOf
<1>9. IdsOf({r \in stored' : r.vec # "none"}) =
        IdsOf({r \in stored : r.vec # "none"}) \cup (IF vec = "none" THEN {} ELSE {p})
  BY <1>6, <1>7 DEF IdsOf
<1>10. Kept(stored') \subseteq Kept(stored) \cup (IF vec = "none" THEN {} ELSE {p})
  BY <1>6, <1>7 DEF Kept, IdsOf
<1>11. IsFiniteSet(stored') /\ \A r \in stored' : r.id \in Episode
  <2>1. IsFiniteSet(stored) /\ \A r \in stored : r.id \in Episode
    BY DEF NoticeInv, NoticeTypes
  <2>2. IsFiniteSet({row})
    BY FS_Singleton
  <2> QED
    BY <1>6, <1>7, <2>1, <2>2, FS_Union
<1>12. p \notin ToSet(body)
  <2>1. ToSet(body) \subseteq IdsOf(stored)
    BY DEF NoticeInv, BodyHoldsStore, IdsOf
  <2> QED
    BY <1>4, <2>1
<1>13. \A v \in Writers : v # w /\ hand[v].step # "free" => hand[v].id # p
  <2>1. \A v \in Writers : hand[v].step # "free" => hand[v].id \in EpisodesOf(v)
    BY <1>1 DEF HandTypes
  <2> QED
    BY <1>1, <1>3, <2>1, TwoHands
<1>14. /\ HandTypes'
       /\ hand'[w].step = (IF vec = "none" THEN "free" ELSE "body")
       /\ hand'[w].step # "free" => hand'[w].id = p
       /\ \A v \in Writers : v # w => hand'[v] = hand[v]
       /\ news' \in Seq(Percept) /\ ToSet(news') \subseteq ToSet(news)
       /\ ToSet(news) \subseteq ToSet(news') \cup {p}
       /\ hand'["feed"].step # "free" => news' = news
  <2>1. CASE vec = "none"
    <3>1. Returned(w)
      BY <2>1 DEF WriteRow
    <3> QED
      BY <1>1, <1>3, <2>1, <3>1, ReturnedLeaves
  <2>2. CASE vec # "none"
    <3>1. news' = news /\ hand' = [hand EXCEPT ![w].step = "body"]
      BY <2>2 DEF WriteRow
    <3>2. PICK h, step : h = hand[w] /\ h = [step |-> step, id |-> p]
      BY <1>1, <1>3 DEF HandTypes
    <3>3. PICK q : q = [h EXCEPT !.step = "body"]
      OBVIOUS
    <3>4. q = [step |-> "body", id |-> p]
      BY <3>2, <3>3
    <3>5. hand' = [hand EXCEPT ![w] = [step |-> "body", id |-> p]]
      BY <3>1, <3>2, <3>3, <3>4
    <3>6. p \in EpisodesOf(w)
      BY <1>1, <1>3 DEF HandTypes
    <3>7. /\ HandTypes' /\ hand'[w].step = "body" /\ hand'[w].id = p
          /\ \A v \in Writers : v # w => hand'[v] = hand[v]
      BY <1>1, <3>5, <3>6, HandMoves
    <3> QED
      BY <2>2, <3>1, <3>7 DEF NoticeInv, NoticeTypes
  <2> QED
    BY <2>1, <2>2
<1>15. NoticeTypes'
  BY <1>2, <1>11, <1>14 DEF NoticeInv, NoticeTypes
<1>16. InOneHand'
  <2>1. ASSUME NEW v \in Writers, hand'[v].step = "embed"
        PROVE  hand'[v].id \notin IdsOf(stored')
    <3>1. v # w /\ hand'[v] = hand[v]
      BY <1>14, <2>1
    <3> QED
      BY <1>8, <1>13, <2>1, <3>1 DEF NoticeInv, InOneHand
  <2>2. ASSUME NEW v \in Writers, hand'[v].step = "body"
        PROVE  /\ hand'[v].id \in IdsOf({r \in stored' : r.vec # "none"})
               /\ hand'[v].id \notin ToSet(body)
    <3>1. CASE v = w
      BY <1>9, <1>12, <1>14, <2>2, <3>1
    <3>2. CASE v # w
      <4>1. hand'[v] = hand[v]
        BY <1>14, <3>2
      <4> QED
        BY <1>9, <2>2, <4>1 DEF NoticeInv, InOneHand
    <3> QED
      BY <3>1, <3>2
  <2>3. hand'["feed"].step # "free" => /\ hand["feed"].step # "free" /\ hand'["feed"].id = hand["feed"].id
                                       /\ news' = news
    <3>1. CASE w = "feed"
      BY <1>1, <1>3, <1>14, <3>1
    <3>2. CASE w # "feed"
      BY <1>14, <3>2 DEF Writers
    <3> QED
      BY <3>1, <3>2
  <2> QED
    BY <1>2, <2>1, <2>2, <2>3 DEF NoticeInv, InOneHand
<1>17. BodyHoldsStore'
  <2>1. InHand \cup (IF vec = "none" THEN {} ELSE {p}) \subseteq InHand'
    BY <1>1, <1>14 DEF InHand
  <2> QED
    BY <1>2, <1>9, <1>10, <2>1 DEF NoticeInv, BodyHoldsStore
<1>18. NewsIsKept'
  BY <1>2, <1>8, <1>14 DEF NoticeInv, NewsIsKept
<1>19. MotionMarked' /\ EpisodesApart'
  BY <1>2 DEF NoticeInv, MotionMarked, EpisodesApart
<1> QED
  BY <1>15, <1>16, <1>17, <1>18, <1>19 DEF NoticeInv

LEMMA AgentRestartsKeeps ==
  ASSUME NoticeInv, NEW torn \in {{}, {"feed"}, {"turn"}}, AgentRestarts(torn), UNCHANGED cameraVars
  PROVE  NoticeInv'
<1>1. UNCHANGED <<captures, moved>>
  BY DEF cameraVars
<1>2. /\ news' = << >> /\ noticed' = {} /\ half' = FALSE /\ body' = Replay(stored')
      /\ hand' = [w \in Writers |-> Free] /\ reader' = [mode |-> NoMode, motion |-> 0]
  BY DEF AgentRestarts, Fresh
<1>3. reader'.mode = NoMode /\ reader'.motion = 0
  BY <1>2
<1>4. \A w \in Writers : /\ hand'[w].step = "free" /\ hand'[w] = [step |-> "free", id |-> << >>]
                         /\ hand'[w].id = << >>
  BY <1>2 DEF Free
<1>5. HandTypes'
  BY <1>2, <1>4 DEF HandTypes
<1>6. \A w \in torn : w \in Writers /\ hand[w].id \in Episode
  <2>1. \A w \in torn : w \in Writers /\ hand[w].step = "embed"
    BY DEF AgentRestarts, Writers
  <2>2. \A w \in Writers : hand[w].step # "free" => hand[w].id \in EpisodesOf(w)
    BY DEF NoticeInv, NoticeTypes, HandTypes
  <2>3. \A w \in torn : hand[w].id \in EpisodesOf(w)
    BY <2>1, <2>2
  <2> QED
    BY <2>1, <2>3 DEF EpisodesOf, Episode, Percept
<1>7. IsFiniteSet(stored') /\ \A r \in stored' : r.id \in Episode
  <2>1. IsFiniteSet(stored) /\ \A r \in stored : r.id \in Episode
    BY DEF NoticeInv, NoticeTypes
  <2>2. PICK left : left = {r \in stored : \A w \in torn : r.id # hand[w].id}
    OBVIOUS
  <2>3. IsFiniteSet(left) /\ \A r \in left : r.id \in Episode
    BY <2>1, <2>2, FS_Subset
  <2>4. CASE torn = {}
    BY <2>2, <2>3, <2>4 DEF AgentRestarts
  <2>5. CASE torn # {}
    <3>1. PICK w : torn = {w}
      BY <2>5
    <3>2. PICK row : row = [id |-> hand[w].id, vec |-> "none"]
      OBVIOUS
    <3>3. {[id |-> hand[v].id, vec |-> "none"] : v \in torn} = {row}
      BY <3>1, <3>2
    <3>4. stored' = left \cup {row}
      BY <2>2, <3>3 DEF AgentRestarts
    <3>5. IsFiniteSet({row})
      BY FS_Singleton
    <3>6. row.id \in Episode
      BY <1>6, <3>1, <3>2
    <3> QED
      BY <2>3, <3>4, <3>5, <3>6, FS_Union
  <2> QED
    BY <2>4, <2>5
<1>8. PICK S : S = stored'
  OBVIOUS
<1>9. Replay(S) \in Seq(Episode) /\ IsInjective(Replay(S)) /\ ToSet(Replay(S)) = Kept(S)
  BY <1>7, <1>8, ReplayIsKept
<1>10. body' \in Seq(Episode) /\ IsInjective(body') /\ ToSet(body') = Kept(stored')
  BY <1>2, <1>8, <1>9
<1>11. NoticeTypes'
  <2>1. ToSet(news') \subseteq noticed' /\ news' \in Seq(Percept)
    <3>1. ToSet(<< >>) = {} /\ << >> \in Seq(Percept)
      BY DEF ToSet
    <3> QED
      BY <1>2, <3>1
  <2>2. reader'.motion \in moved' \cup {0} /\ reader' = [mode |-> reader'.mode, motion |-> reader'.motion]
    BY <1>2, <1>3
  <2>3. captures' \in Nat /\ moved' \subseteq 1 .. captures'
    BY <1>1 DEF NoticeInv, NoticeTypes
  <2>4. half' \in BOOLEAN /\ noticed' \subseteq Percept
    BY <1>2
  <2> QED
    BY <1>5, <1>7, <1>10, <2>1, <2>2, <2>3, <2>4 DEF NoticeTypes
<1>12. InOneHand'
  <2>1. "feed" \in Writers
    BY DEF Writers
  <2> QED
    BY <1>4, <2>1 DEF InOneHand
<1>13. MotionMarked' /\ NewsIsKept' /\ EpisodesApart'
  BY <1>2 DEF MotionMarked, NewsIsKept, EpisodesApart
<1>14. BodyHoldsStore'
  <2>1. Kept(S) \subseteq IdsOf({r \in S : r.vec # "none"})
    BY DEF Kept, IdsOf
  <2> QED
    BY <1>8, <1>10, <2>1 DEF BodyHoldsStore
<1> QED
  BY <1>11, <1>12, <1>13, <1>14 DEF NoticeInv

(* However the reader, the feed and the agent's turns interleave, whatever    *)
(* write fails and whenever the process ends: the mushroom body felt what the *)
(* store keeps, each episode once, nothing noticed is lost but by a feed that *)
(* failed, and two motions noticed are a quiet stretch apart.                 *)
THEOREM PerceptsFollowHolds == NoticeSpec => []PerceptsFollow
<1>1. CameraInit /\ PerceptInit => NoticeInv
  BY NoticeStarts
<1>2. NoticeInv /\ [\/ CameraNext /\ UNCHANGED perceptVars
                    \/ PerceptNext /\ UNCHANGED cameraVars]_<<cameraVars, perceptVars>> => NoticeInv'
  <2> SUFFICES ASSUME NoticeInv, [\/ CameraNext /\ UNCHANGED perceptVars
                                  \/ PerceptNext /\ UNCHANGED cameraVars]_<<cameraVars, perceptVars>>
               PROVE  NoticeInv'
    OBVIOUS
  <2>1. CASE CameraNext /\ UNCHANGED perceptVars
    BY <2>1, CameraGoesOn
  <2>2. CASE PerceptNext /\ UNCHANGED cameraVars
    <3>1. CASE TickHealth
      BY <2>2, <3>1, TickHealthKeeps
    <3>2. CASE TickMotion
      BY <2>2, <3>2, TickMotionKeeps
    <3>3. CASE Perceive
      BY <2>2, <3>3, PerceiveKeeps
    <3>4. CASE TurnEnds
      BY <2>2, <3>4, TurnEndsKeeps
    <3>5. CASE \E w \in Writers, vec \in Fates : WriteRow(w, vec)
      BY <2>2, <3>5, WriteRowKeeps
    <3>6. CASE \E w \in Writers : RowFails(w) \/ Experience(w)
      BY <2>2, <3>6, RowFailsKeeps, ExperienceKeeps
    <3>7. CASE \E torn \in {{}, {"feed"}, {"turn"}} : AgentRestarts(torn)
      BY <2>2, <3>7, AgentRestartsKeeps
    <3> QED
      BY <2>2, <3>1, <3>2, <3>3, <3>4, <3>5, <3>6, <3>7 DEF PerceptNext
  <2>3. CASE UNCHANGED <<cameraVars, perceptVars>>
    <3>1. NoticeTypes' /\ InOneHand'
      BY <2>3 DEF cameraVars, perceptVars, NoticeInv, NoticeTypes, HandTypes, InOneHand
    <3>2. MotionMarked' /\ BodyHoldsStore' /\ NewsIsKept' /\ EpisodesApart'
      BY <2>3 DEF cameraVars, perceptVars, NoticeInv, MotionMarked, BodyHoldsStore, InHand,
        NewsIsKept, EpisodesApart
    <3> QED
      BY <3>1, <3>2 DEF NoticeInv
  <2> QED
    BY <2>1, <2>2, <2>3
<1>3. NoticeInv => PerceptsFollow
  BY DEF NoticeInv, PerceptsFollow
<1> QED
  BY <1>1, <1>2, <1>3, PTL DEF NoticeSpec

-----------------------------------------------------------------------------
(* What a camera gateway saw *)

\* The poller and the recount by hand, and nothing beside them.
SightingsSpec == SightingsInit /\ [][SightingsNext]_sightingVars

Row == ToSet(Feed)
Stored == [subject : Subjects, event : {d.event : d \in Row}, at : 0 .. polled]

\* What the poll has stored of a subject and not counted.
OwedIn(w, s) == Cardinality({i \in DOMAIN w : w[i] = s})
Owed(s) == OwedIn(wrote, s)

SightingTypes ==
  /\ polled \in Nat
  /\ permitted \in Seq(Row)
  /\ wrote \in Seq(Subjects)
  /\ sightings \in SUBSET Stored
  /\ IsFiniteSet(sightings)
  /\ tally \in [Subjects -> Nat]
  /\ brokeOff \in Nat
  /\ hurt \in BOOLEAN

\* What a poll has yet to store it holds once, and has not stored.
PermittedOnce ==
  /\ \A i, j \in DOMAIN permitted :
       permitted[i].event = permitted[j].event /\ permitted[i].subject = permitted[j].subject => i = j
  /\ \A i \in DOMAIN permitted, r \in sightings :
       permitted[i].event = NoEvent /\ r.event = NoEvent /\ r.subject = permitted[i].subject => r.at # polled

\* Nobody without consent shares the event of d at the time of a poll.
ConsentedTo(d, at) ==
  \A e \in Row :
    /\ e.class = Restricted /\ e.event = d.event /\ e.event # NoEvent
    /\ e.sure /\ (WholeFrame \/ e.subject = d.subject)
    => IsConsented(e, at)

\* What is stored is counted, or owed to the tally by the poll under way.
TallyOwes ==
  \A s \in Subjects :
    /\ tally[s] + Owed(s) <= Cardinality(RowsOf(s))
    /\ ~hurt => tally[s] + Owed(s) = Cardinality(RowsOf(s))

SightingsInv ==
  /\ SightingTypes
  /\ StoredOnce
  /\ PermittedOnce
  /\ \A i \in DOMAIN permitted : ConsentedTo(permitted[i], polled)
  /\ StoredWithConsent
  /\ TallyOwes

\* What is owed is a number; nothing is, of an empty sequence.
LEMMA OwedIsNat ==
  ASSUME NEW w \in Seq(Subjects), NEW s
  PROVE  LET of == {i \in DOMAIN w : w[i] = s}
         IN IsFiniteSet(of) /\ Cardinality(of) \in Nat
<1>1. PICK n \in Nat : n = Len(w) /\ DOMAIN w = 1 .. n
  OBVIOUS
<1>2. IsFiniteSet(1 .. n)
  BY FS_Interval
<1> QED
  BY <1>1, <1>2, FS_Subset, FS_CardinalityType

\* One more sighting stored is one more owed, to its subject.
LEMMA OwedGrows ==
  ASSUME NEW w \in Seq(Subjects), NEW x \in Subjects, NEW s
  PROVE  OwedIn(Append(w, x), s) = OwedIn(w, s) + (IF x = s THEN 1 ELSE 0)
<1> DEFINE of == {i \in DOMAIN w : w[i] = s}
           more == {i \in DOMAIN Append(w, x) : Append(w, x)[i] = s}
<1>1. PICK n \in Nat : n = Len(w) /\ DOMAIN w = 1 .. n
  OBVIOUS
<1>2. DOMAIN Append(w, x) = 1 .. n + 1 /\ Append(w, x)[n + 1] = x /\ \A i \in 1 .. n : Append(w, x)[i] = w[i]
  BY <1>1
<1>3. IsFiniteSet(of) /\ Cardinality(of) \in Nat
  BY OwedIsNat
<1>4. CASE x = s
  <2>1. more = of \cup {n + 1} /\ n + 1 \notin of
    BY <1>1, <1>2, <1>4
  <2>2. Cardinality(of \cup {n + 1}) = Cardinality(of) + 1
    BY <1>3, <2>1, FS_AddElement
  <2> QED
    BY <1>4, <2>1, <2>2 DEF OwedIn
<1>5. CASE x # s
  <2>1. more = of
    BY <1>1, <1>2, <1>5
  <2> HIDE DEF of, more
  <2>2. Cardinality(more) = Cardinality(of) + (IF x = s THEN 1 ELSE 0)
    BY <1>3, <1>5, <2>1
  <2> QED
    BY <2>2 DEF of, more, OwedIn
<1> QED
  BY <1>4, <1>5

\* One counted is one owed less, to its subject.
LEMMA OwedShrinks ==
  ASSUME NEW w \in Seq(Subjects), w # << >>, NEW s
  PROVE  OwedIn(w, s) = OwedIn(Tail(w), s) + (IF Head(w) = s THEN 1 ELSE 0)
<1> DEFINE of == {i \in DOMAIN w : w[i] = s}
           less == {i \in DOMAIN Tail(w) : Tail(w)[i] = s}
           f == [i \in less |-> i + 1]
<1>1. PICK n \in Nat : n = Len(w) /\ DOMAIN w = 1 .. n /\ n > 0
  OBVIOUS
<1>2. /\ Tail(w) \in Seq(Subjects) /\ DOMAIN Tail(w) = 1 .. n - 1 /\ Head(w) = w[1]
      /\ \A i \in 1 .. n - 1 : Tail(w)[i] = w[i + 1]
  BY <1>1
<1>3. IsFiniteSet(of) /\ IsFiniteSet(less) /\ Cardinality(of) \in Nat /\ Cardinality(less) \in Nat
  BY <1>2, OwedIsNat
<1>4. f \in Bijection(less, of \ {1})
  <2>1. \A i \in less : f[i] \in of \ {1}
    BY <1>1, <1>2
  <2>2. \A i, j \in less : f[i] = f[j] => i = j
    BY <1>2
  <2>3. \A k \in of \ {1} : k - 1 \in less /\ f[k - 1] = k
    BY <1>1, <1>2
  <2> QED
    BY <2>1, <2>2, <2>3 DEF Bijection, Injection, Surjection, IsInjective
<1>5. IsFiniteSet(of \ {1}) /\ Cardinality(of \ {1}) = Cardinality(less)
  BY <1>3, <1>4, FS_Bijection DEF ExistsBijection
<1>6. 1 \in of <=> Head(w) = s
  BY <1>1, <1>2
<1>7. Cardinality(of \ {1}) = IF 1 \in of THEN Cardinality(of) - 1 ELSE Cardinality(of)
  BY <1>3, FS_RemoveElement
<1> HIDE DEF of, less, f
<1>8. Cardinality(of) = Cardinality(less) + (IF Head(w) = s THEN 1 ELSE 0)
  BY <1>3, <1>5, <1>6, <1>7
<1> QED
  BY <1>8 DEF of, less, OwedIn

\* The events and the rows without one are as many as the rows, where an event
\* is stored once.
LEMMA RecountIsExact ==
  ASSUME StoredOnce, IsFiniteSet(sightings), NEW s
  PROVE  /\ IsFiniteSet(RowsOf(s)) /\ Cardinality(RowsOf(s)) \in Nat
         /\ Cardinality({r.event : r \in RowsOf(s)} \ {NoEvent})
              + Cardinality({r \in RowsOf(s) : r.event = NoEvent}) = Cardinality(RowsOf(s))
<1> DEFINE named == {r \in RowsOf(s) : r.event # NoEvent}
           bare == {r \in RowsOf(s) : r.event = NoEvent}
           events == {r.event : r \in RowsOf(s)} \ {NoEvent}
           f == [r \in named |-> r.event]
<1>1. IsFiniteSet(RowsOf(s)) /\ Cardinality(RowsOf(s)) \in Nat
  BY FS_Subset, FS_CardinalityType DEF RowsOf
<1>2. IsFiniteSet(named) /\ IsFiniteSet(bare) /\ Cardinality(named) \in Nat /\ Cardinality(bare) \in Nat
  BY <1>1, FS_Subset, FS_CardinalityType
<1>3. f \in Bijection(named, events)
  <2>1. \A r \in named : f[r] \in events
    OBVIOUS
  <2>2. \A r, q \in named : f[r] = f[q] => r = q
    BY DEF StoredOnce, RowsOf
  <2>3. \A e \in events : \E r \in named : f[r] = e
    OBVIOUS
  <2> QED
    BY <2>1, <2>2, <2>3 DEF Bijection, Injection, Surjection, IsInjective
<1>4. Cardinality(events) = Cardinality(named)
  BY <1>2, <1>3, FS_Bijection DEF ExistsBijection
<1>5. named \cup bare = RowsOf(s) /\ named \cap bare = {}
  OBVIOUS
<1>6. Cardinality(named \cup bare) = Cardinality(named) + Cardinality(bare) - Cardinality(named \cap bare)
  BY <1>2, FS_Union
<1>7. Cardinality({}) = 0
  BY FS_EmptySet
<1>8. Cardinality(named \cup bare) = Cardinality(RowsOf(s)) /\ Cardinality(named \cap bare) = 0
  BY <1>5, <1>7
<1> HIDE DEF named, bare, events
<1>9. Cardinality(events) + Cardinality(bare) = Cardinality(RowsOf(s))
  BY <1>2, <1>4, <1>6, <1>8
<1> QED
  BY <1>1, <1>9 DEF named, bare, events

LEMMA SightingsStart == SightingsInit => SightingsInv
<1> SUFFICES ASSUME SightingsInit
             PROVE  SightingsInv
  OBVIOUS
<1>1. /\ polled = 0 /\ permitted = << >> /\ wrote = << >> /\ sightings = {}
      /\ tally = [s \in Subjects |-> 0] /\ brokeOff = 0 /\ hurt = FALSE
  BY DEF SightingsInit
<1>2. SightingTypes
  <2>1. << >> \in Seq(Row) /\ << >> \in Seq(Subjects) /\ tally \in [Subjects -> Nat]
    BY <1>1
  <2> QED
    BY <1>1, <2>1, FS_EmptySet DEF SightingTypes
<1>3. StoredOnce /\ PermittedOnce /\ (\A i \in DOMAIN permitted : ConsentedTo(permitted[i], polled))
      /\ StoredWithConsent
  BY <1>1 DEF StoredOnce, PermittedOnce, StoredWithConsent
<1>4. TallyOwes
  <2>1. \A s : {i \in DOMAIN wrote : wrote[i] = s} = {} /\ RowsOf(s) = {}
    BY <1>1 DEF RowsOf
  <2>2. \A s : Owed(s) = 0 /\ Cardinality(RowsOf(s)) = 0
    BY <2>1, FS_EmptySet DEF Owed, OwedIn
  <2> QED
    BY <1>1, <2>2 DEF TallyOwes
<1> QED
  BY <1>2, <1>3, <1>4 DEF SightingsInv

\* What a poll lets through is in the feed, once, and nobody in its event is
\* there without consent.
LEMMA PollKeeps ==
  ASSUME SightingsInv, NEW upTo \in DOMAIN Feed, NEW unsure \in BOOLEAN, Poll(upTo, unsure)
  PROVE  SightingsInv'
<1> DEFINE listed == {i \in 1 .. upTo : unsure \/ Feed[i].sure}
           reply == {Feed[i] : i \in listed}
           ok == {i \in listed : Permitted(Feed[i], reply, polled + 1)}
<1>1. /\ SightingTypes /\ StoredOnce /\ StoredWithConsent /\ TallyOwes
      /\ UNCHANGED <<wrote, sightings, tally, brokeOff, hurt>>
      /\ polled' = polled + 1 /\ FrameEnds(upTo)
  BY DEF SightingsInv, Poll
<1>2. PICK kept \in Ascending(ok) : permitted' = [k \in DOMAIN kept |-> Feed[kept[k]]]
  BY DEF Poll
<1>3. Feed \in Seq(Row) /\ DOMAIN Feed = 1 .. Len(Feed) /\ Len(Feed) \in Nat
  BY FeedAssumption DEF Row
<1>4. ok \subseteq DOMAIN Feed
  BY <1>3
<1>5. /\ permitted' \in Seq(Row)
      /\ \A k \in DOMAIN kept : kept[k] \in ok
      /\ \A k, l \in DOMAIN kept : kept[k] = kept[l] => k = l
  <2> HIDE DEF ok
  <2> QED
    BY <1>2, <1>3, <1>4, AscendingCovers
<1>6. DOMAIN permitted' = DOMAIN kept /\ \A k \in DOMAIN kept : permitted'[k] = Feed[kept[k]]
  BY <1>2
<1>7. SightingTypes'
  <2>1. 0 .. polled \subseteq 0 .. polled'
    BY <1>1 DEF SightingTypes
  <2>2. \A r \in sightings : r \in Stored'
    BY <1>1, <2>1 DEF SightingTypes, Stored
  <2> QED
    BY <1>1, <1>5, <2>2 DEF SightingTypes
<1>8. PermittedOnce'
  <2>1. \A i, j \in DOMAIN permitted' :
          permitted'[i].event = permitted'[j].event /\ permitted'[i].subject = permitted'[j].subject => i = j
    <3> SUFFICES ASSUME NEW k \in DOMAIN kept, NEW l \in DOMAIN kept,
                        Feed[kept[k]].event = Feed[kept[l]].event,
                        Feed[kept[k]].subject = Feed[kept[l]].subject
                 PROVE  k = l
      BY <1>6
    <3>1. kept[k] \in DOMAIN Feed /\ kept[l] \in DOMAIN Feed
      BY <1>4, <1>5
    <3>2. kept[k] = kept[l]
      BY <3>1, FeedAssumption
    <3> QED
      BY <1>5, <3>2
  <2>2. \A r \in sightings' : r.at # polled'
    BY <1>1 DEF SightingTypes, Stored
  <2> QED
    BY <2>1, <2>2 DEF PermittedOnce
<1>9. ASSUME NEW i \in ok
      PROVE  ConsentedTo(Feed[i], polled + 1)
  <2> SUFFICES ASSUME NEW j \in DOMAIN Feed, Feed[j].class = Restricted,
                      Feed[j].event = Feed[i].event, Feed[j].event # NoEvent, Feed[j].sure,
                      WholeFrame \/ Feed[j].subject = Feed[i].subject
               PROVE  IsConsented(Feed[j], polled + 1)
    BY DEF ConsentedTo, Row, ToSet
  <2>1. j \in 1 .. upTo
    BY <1>1, <1>3 DEF FrameEnds
  <2>2. Feed[j] \in Frame(Feed[i], reply)
    BY <2>1 DEF Frame
  <2>3. Feed[j] \in Unconsented(Frame(Feed[i], reply), polled + 1) \/ IsConsented(Feed[j], polled + 1)
    BY <2>2 DEF Unconsented
  <2>4. FrameAllows(Feed[i], reply, polled + 1)
    BY DEF Permitted
  <2>5. CASE WholeFrame
    BY <2>3, <2>4, <2>5 DEF FrameAllows
  <2>6. CASE ~WholeFrame
    <3>1. j = i
      BY <1>4, <2>6, FeedAssumption
    <3> QED
      BY <2>3, <2>4, <2>6, <3>1 DEF FrameAllows
  <2> QED
    BY <2>5, <2>6
<1>10. (\A i \in DOMAIN permitted : ConsentedTo(permitted[i], polled))'
  <2>1. \A k \in DOMAIN kept : ConsentedTo(permitted'[k], polled')
    BY <1>1, <1>5, <1>6, <1>9
  <2> QED
    BY <1>6, <2>1
<1>11. StoredOnce' /\ StoredWithConsent' /\ TallyOwes'
  BY <1>1 DEF StoredOnce, StoredWithConsent, TallyOwes, Owed, RowsOf
<1> QED
  BY <1>7, <1>8, <1>10, <1>11 DEF SightingsInv

\* Storing a sighting adds a row and what is owed for it.
LEMMA IngestKeeps ==
  ASSUME SightingsInv, Ingest
  PROVE  SightingsInv'
<1> DEFINE d == Head(permitted)
           new == [subject |-> d.subject, event |-> d.event, at |-> polled]
<1>1. /\ SightingTypes /\ StoredOnce /\ PermittedOnce /\ StoredWithConsent /\ TallyOwes
      /\ \A i \in DOMAIN permitted : ConsentedTo(permitted[i], polled)
      /\ permitted # << >> /\ permitted' = Tail(permitted)
      /\ UNCHANGED <<polled, tally, brokeOff, hurt>>
      /\ polled \in Nat /\ permitted \in Seq(Row) /\ wrote \in Seq(Subjects)
      /\ sightings \in SUBSET Stored /\ IsFiniteSet(sightings) /\ tally \in [Subjects -> Nat]
  BY DEF SightingsInv, Ingest, SightingTypes
<1>2. PICK n \in Nat : n = Len(permitted) /\ DOMAIN permitted = 1 .. n /\ n > 0
  BY <1>1
<1>3. /\ d = permitted[1] /\ d \in Row /\ 1 \in DOMAIN permitted
      /\ Tail(permitted) \in Seq(Row) /\ DOMAIN Tail(permitted) = 1 .. n - 1
      /\ \A i \in 1 .. n - 1 : Tail(permitted)[i] = permitted[i + 1] /\ i + 1 \in DOMAIN permitted
  BY <1>1, <1>2
<1>4. d.subject \in Subjects /\ new \in Stored
  BY <1>1, <1>3 DEF Row, ToSet, Subjects, Stored
<1>5. (\A i \in DOMAIN permitted : ConsentedTo(permitted[i], polled))'
  <2>1. \A i \in 1 .. n - 1 : ConsentedTo(Tail(permitted)[i], polled)
    BY <1>1, <1>3
  <2> QED
    BY <1>1, <1>3, <2>1
<1>6. \A i, j \in DOMAIN permitted' :
        permitted'[i].event = permitted'[j].event /\ permitted'[i].subject = permitted'[j].subject => i = j
  <2> SUFFICES ASSUME NEW i \in 1 .. n - 1, NEW j \in 1 .. n - 1,
                      permitted[i + 1].event = permitted[j + 1].event,
                      permitted[i + 1].subject = permitted[j + 1].subject
               PROVE  i = j
    <3>1. /\ DOMAIN permitted' = 1 .. n - 1
          /\ \A i \in 1 .. n - 1 : permitted'[i] = permitted[i + 1]
      BY <1>1, <1>3
    <3> QED
      BY <3>1, Zenon
  <2>1. i + 1 = j + 1
    BY <1>1, <1>3 DEF PermittedOnce
  <2> QED
    BY <2>1
<1>7. \A i \in DOMAIN permitted' : /\ i + 1 \in DOMAIN permitted /\ permitted'[i] = permitted[i + 1]
                                   /\ ~(permitted'[i].event = d.event /\ permitted'[i].subject = d.subject)
  <2>1. \A i \in DOMAIN permitted' : i + 1 # 1 /\ i + 1 \in DOMAIN permitted /\ permitted'[i] = permitted[i + 1]
    <3>1. \A i \in 1 .. n - 1 : i + 1 # 1
      OBVIOUS
    <3>2. DOMAIN permitted' = 1 .. n - 1
      BY <1>1, <1>3
    <3>3. \A i \in 1 .. n - 1 : permitted'[i] = permitted[i + 1] /\ i + 1 \in DOMAIN permitted
      BY <1>1, <1>3
    <3> QED
      BY <3>1, <3>2, <3>3
  <2>2. \A j \in DOMAIN permitted : j # 1 => ~(permitted[j].event = d.event /\ permitted[j].subject = d.subject)
    BY <1>1, <1>3 DEF PermittedOnce
  <2> QED
    BY <2>1, <2>2
<1>8. CASE Known(d)
  <2>1. UNCHANGED <<sightings, wrote>>
    BY <1>8 DEF Ingest
  <2>2. SightingTypes' /\ StoredOnce' /\ StoredWithConsent' /\ TallyOwes'
    BY <1>1, <1>3, <2>1 DEF SightingTypes, StoredOnce, StoredWithConsent, TallyOwes, Owed, RowsOf, Stored
  <2>3. PermittedOnce'
    BY <1>1, <1>6, <1>7, <2>1 DEF PermittedOnce
  <2> QED
    BY <1>5, <2>2, <2>3 DEF SightingsInv
<1>9. CASE ~Known(d)
  <2>1. sightings' = sightings \cup {new} /\ wrote' = Append(wrote, d.subject)
    BY <1>9 DEF Ingest
  <2>2. new \notin sightings
    <3> SUFFICES ASSUME new \in sightings
                 PROVE  FALSE
      OBVIOUS
    <3>1. new.subject = d.subject /\ new.event = d.event /\ new.at = polled
      OBVIOUS
    <3>2. CASE d.event # NoEvent
      BY <1>9, <3>1, <3>2 DEF Known, RowsOf
    <3>3. CASE d.event = NoEvent
      BY <1>1, <1>3, <3>1, <3>3 DEF PermittedOnce
    <3> QED
      BY <3>2, <3>3
  <2>3. SightingTypes'
    <3>1. sightings' \in SUBSET Stored' /\ IsFiniteSet(sightings')
      BY <1>1, <1>4, <2>1, FS_AddElement DEF Stored
    <3>2. wrote' \in Seq(Subjects)
      BY <1>1, <1>4, <2>1
    <3> QED
      BY <1>1, <1>3, <3>1, <3>2 DEF SightingTypes
  <2>4. StoredOnce'
    <3>1. \A r \in sightings : r.subject = new.subject /\ r.event = new.event => r.event = NoEvent
      BY <1>9 DEF Known, RowsOf
    <3> QED
      BY <1>1, <2>1, <3>1 DEF StoredOnce
  <2>5. PermittedOnce'
    BY <1>1, <1>6, <1>7, <2>1 DEF PermittedOnce
  <2>6. StoredWithConsent'
    <3>1. ConsentedTo(d, polled)
      BY <1>1, <1>3
    <3>2. \A e \in ToSet(Feed) :
            /\ e.class = Restricted /\ e.event = new.event /\ e.event # NoEvent
            /\ e.sure /\ (WholeFrame \/ e.subject = new.subject)
            => IsConsented(e, new.at)
      BY <3>1 DEF ConsentedTo, Row
    <3> QED
      BY <1>1, <2>1, <3>2 DEF StoredWithConsent
  <2>7. TallyOwes'
    <3> SUFFICES ASSUME NEW s \in Subjects
                 PROVE  /\ tally[s] + Owed(s)' <= Cardinality(RowsOf(s)')
                        /\ ~hurt => tally[s] + Owed(s)' = Cardinality(RowsOf(s)')
      BY <1>1 DEF TallyOwes
    <3>1. Owed(s)' = Owed(s) + (IF d.subject = s THEN 1 ELSE 0)
      <4>1. PICK x \in Subjects : x = d.subject
        BY <1>4
      <4>2. OwedIn(Append(wrote, x), s) = OwedIn(wrote, s) + (IF x = s THEN 1 ELSE 0)
        BY <1>1, OwedGrows
      <4> QED
        BY <2>1, <4>1, <4>2 DEF Owed
    <3>2. IsFiniteSet(RowsOf(s)) /\ Cardinality(RowsOf(s)) \in Nat
      BY <1>1, FS_Subset, FS_CardinalityType DEF RowsOf
    <3>3. Cardinality(RowsOf(s)') = Cardinality(RowsOf(s)) + (IF d.subject = s THEN 1 ELSE 0)
      <4>1. CASE d.subject = s
        <5>1. RowsOf(s)' = RowsOf(s) \cup {new} /\ new \notin RowsOf(s)
          BY <2>1, <2>2, <4>1 DEF RowsOf
        <5>2. Cardinality(RowsOf(s) \cup {new}) = Cardinality(RowsOf(s)) + 1
          BY <3>2, <5>1, FS_AddElement
        <5> QED
          BY <4>1, <5>1, <5>2
      <4>2. CASE d.subject # s
        <5>1. RowsOf(s)' = RowsOf(s)
          BY <2>1, <4>2 DEF RowsOf
        <5> QED
          BY <3>2, <4>2, <5>1
      <4> QED
        BY <4>1, <4>2
    <3>4. Owed(s) \in Nat /\ tally[s] \in Nat
      BY <1>1, OwedIsNat DEF Owed, OwedIn
    <3>5. /\ tally[s] + Owed(s) <= Cardinality(RowsOf(s))
          /\ ~hurt => tally[s] + Owed(s) = Cardinality(RowsOf(s))
      BY <1>1 DEF TallyOwes
    <3> HIDE DEF d
    <3> QED
      BY <3>1, <3>2, <3>3, <3>4, <3>5
  <2> QED
    BY <1>5, <2>3, <2>4, <2>5, <2>6, <2>7 DEF SightingsInv
<1> QED
  BY <1>8, <1>9

LEMMA CountKeeps ==
  ASSUME SightingsInv, Count
  PROVE  SightingsInv'
<1>1. /\ SightingTypes /\ TallyOwes
      /\ UNCHANGED <<polled, permitted, sightings, brokeOff, hurt>>
      /\ wrote # << >> /\ wrote' = Tail(wrote) /\ tally' = [tally EXCEPT ![Head(wrote)] = @ + 1]
      /\ wrote \in Seq(Subjects) /\ tally \in [Subjects -> Nat]
  BY DEF SightingsInv, Count, SightingTypes
<1>2. Head(wrote) \in Subjects /\ Tail(wrote) \in Seq(Subjects)
  BY <1>1
<1>3. tally' \in [Subjects -> Nat]
      /\ \A s \in Subjects : tally'[s] = tally[s] + (IF Head(wrote) = s THEN 1 ELSE 0)
  BY <1>1, <1>2
<1>4. SightingTypes'
  BY <1>1, <1>2, <1>3 DEF SightingTypes, Stored
<1>5. TallyOwes'
  <2> SUFFICES ASSUME NEW s \in Subjects
               PROVE  /\ tally'[s] + Owed(s)' <= Cardinality(RowsOf(s))
                      /\ ~hurt => tally'[s] + Owed(s)' = Cardinality(RowsOf(s))
    BY <1>1 DEF TallyOwes, RowsOf
  <2>1. OwedIn(wrote, s) = OwedIn(Tail(wrote), s) + (IF Head(wrote) = s THEN 1 ELSE 0)
    BY <1>1, OwedShrinks
  <2>2. Owed(s) = Owed(s)' + (IF Head(wrote) = s THEN 1 ELSE 0)
    BY <1>1, <2>1 DEF Owed
  <2>3. Owed(s)' \in Nat /\ tally[s] \in Nat
    BY <1>1, <1>2, OwedIsNat DEF Owed, OwedIn
  <2>4. tally'[s] + Owed(s)' = tally[s] + Owed(s)
    BY <1>3, <2>2, <2>3
  <2> QED
    BY <1>1, <2>4 DEF TallyOwes
<1> QED
  BY <1>1, <1>4, <1>5 DEF SightingsInv, StoredOnce, PermittedOnce, StoredWithConsent, ConsentedTo

\* What a poll that breaks off leaves uncounted is remembered as hurt.
LEMMA BreakKeeps ==
  ASSUME SightingsInv, BreaksOff \/ EndsInCount
  PROVE  SightingsInv'
<1>1. /\ SightingTypes /\ TallyOwes /\ StoredOnce /\ StoredWithConsent
      /\ UNCHANGED <<polled, sightings>>
      /\ permitted' = << >> /\ wrote' = << >> /\ brokeOff' = brokeOff + 1
      /\ wrote \in Seq(Subjects) /\ tally \in [Subjects -> Nat] /\ brokeOff \in Nat /\ hurt \in BOOLEAN
      /\ IsFiniteSet(sightings)
  BY DEF SightingsInv, BreaksOff, EndsInCount, SightingTypes
<1>2. \A s : Owed(s)' = 0 /\ Owed(s) \in Nat /\ Cardinality(RowsOf(s)) \in Nat
  <2>1. \A s : {i \in DOMAIN wrote' : wrote'[i] = s} = {}
    BY <1>1
  <2>2. \A s : Owed(s)' = 0
    BY <2>1, FS_EmptySet DEF Owed, OwedIn
  <2>3. \A s : Owed(s) \in Nat
    BY <1>1, OwedIsNat DEF Owed, OwedIn
  <2>4. \A s : Cardinality(RowsOf(s)) \in Nat
    BY <1>1, FS_Subset, FS_CardinalityType DEF RowsOf
  <2> QED
    BY <2>2, <2>3, <2>4
<1>3. /\ tally' \in [Subjects -> Nat] /\ hurt' \in BOOLEAN
      /\ \A s \in Subjects : /\ tally'[s] <= tally[s]
                             /\ ~hurt' => ~hurt /\ tally'[s] = tally[s] /\ wrote = << >>
  <2>1. CASE BreaksOff
    <3>1. tally' = tally /\ (hurt' <=> (hurt \/ wrote # << >>)) /\ hurt' \in BOOLEAN
      BY <2>1 DEF BreaksOff
    <3> QED
      BY <1>1, <3>1
  <2>2. CASE EndsInCount
    BY <1>1, <2>2 DEF EndsInCount
  <2> QED
    BY <2>1, <2>2
<1>4. SightingTypes'
  <2>1. << >> \in Seq(Row) /\ << >> \in Seq(Subjects) /\ brokeOff' \in Nat
    BY <1>1
  <2> QED
    BY <1>1, <1>3, <2>1 DEF SightingTypes, Stored
<1>5. TallyOwes'
  <2> SUFFICES ASSUME NEW s \in Subjects
               PROVE  /\ tally'[s] + 0 <= Cardinality(RowsOf(s))
                      /\ ~hurt' => tally'[s] + 0 = Cardinality(RowsOf(s))
    BY <1>1, <1>2 DEF TallyOwes, RowsOf
  <2>1. /\ tally[s] + Owed(s) <= Cardinality(RowsOf(s))
        /\ ~hurt => tally[s] + Owed(s) = Cardinality(RowsOf(s))
    BY <1>1 DEF TallyOwes
  <2>2. wrote = << >> => Owed(s) = 0
    BY <1>1, <1>2 DEF Owed
  <2>3. tally[s] \in Nat /\ tally'[s] \in Nat
    BY <1>1, <1>3
  <2> QED
    BY <1>2, <1>3, <2>1, <2>2, <2>3
<1> QED
  BY <1>1, <1>4, <1>5 DEF SightingsInv, StoredOnce, PermittedOnce, StoredWithConsent

LEMMA RecountKeeps ==
  ASSUME SightingsInv, Recount
  PROVE  SightingsInv'
<1>1. /\ SightingTypes /\ StoredOnce
      /\ UNCHANGED <<polled, permitted, wrote, sightings, brokeOff>>
      /\ wrote = << >> /\ hurt' = FALSE /\ IsFiniteSet(sightings)
      /\ tally' = [s \in Subjects |->
           Cardinality({r.event : r \in RowsOf(s)} \ {NoEvent})
             + Cardinality({r \in RowsOf(s) : r.event = NoEvent})]
  BY DEF SightingsInv, Recount, AtRest, SightingTypes
<1>2. \A s \in Subjects : /\ tally'[s] = Cardinality(RowsOf(s)) /\ Cardinality(RowsOf(s)) \in Nat
  BY <1>1, RecountIsExact
<1>3. \A s : Owed(s)' = 0
  <2>1. \A s : {i \in DOMAIN wrote' : wrote'[i] = s} = {}
    BY <1>1
  <2> QED
    BY <2>1, FS_EmptySet DEF Owed, OwedIn
<1>4. TallyOwes'
  <2>1. \A s : RowsOf(s)' = RowsOf(s)
    BY <1>1 DEF RowsOf
  <2> QED
    BY <1>2, <1>3, <2>1 DEF TallyOwes
<1>5. SightingTypes'
  <2>1. tally' \in [Subjects -> Nat]
    BY <1>1, <1>2
  <2> QED
    BY <1>1, <2>1 DEF SightingTypes, Stored
<1> QED
  BY <1>1, <1>4, <1>5 DEF SightingsInv, StoredOnce, PermittedOnce, StoredWithConsent, ConsentedTo

LEMMA SightingsInvStep == SightingsInv /\ [SightingsNext]_sightingVars => SightingsInv'
<1> SUFFICES ASSUME SightingsInv, [SightingsNext]_sightingVars
             PROVE  SightingsInv'
  OBVIOUS
<1>1. CASE UNCHANGED sightingVars
  BY <1>1 DEF sightingVars, SightingsInv, SightingTypes, Stored, StoredOnce, PermittedOnce, StoredWithConsent,
              ConsentedTo, TallyOwes, Owed, RowsOf
<1>2. CASE SightingsNext
  BY <1>2, PollKeeps, IngestKeeps, CountKeeps, BreakKeeps, RecountKeeps DEF SightingsNext
<1> QED
  BY <1>1, <1>2

\* Each event is stored once under each of its subjects, the counters follow
\* what is stored, and nobody without consent is stored or stands in the event
\* of one who is, wherever polls break off (poll_clawcam_guarded,
\* ingest_clawcam_detections, record_subject_counts, recount_subjects).
THEOREM SightingsCountedHolds == SightingsSpec => []SightingsCounted
<1>1. SightingsInv => SightingsCounted
  <2> SUFFICES ASSUME SightingsInv
               PROVE  TallyFollows
    BY DEF SightingsInv, SightingsCounted
  <2> SUFFICES ASSUME NEW s \in Subjects
               PROVE  /\ tally[s] <= Cardinality(RowsOf(s))
                      /\ AtRest /\ ~hurt => tally[s] = Cardinality(RowsOf(s))
    BY DEF TallyFollows
  <2>1. /\ wrote \in Seq(Subjects) /\ tally[s] \in Nat /\ IsFiniteSet(sightings)
        /\ tally[s] + Owed(s) <= Cardinality(RowsOf(s))
        /\ ~hurt => tally[s] + Owed(s) = Cardinality(RowsOf(s))
    BY DEF SightingsInv, SightingTypes, TallyOwes
  <2>2. Owed(s) \in Nat
    BY <2>1, OwedIsNat DEF Owed, OwedIn
  <2>3. AtRest => Owed(s) = 0
    <3>1. AtRest => {i \in DOMAIN wrote : wrote[i] = s} = {}
      BY DEF AtRest
    <3> QED
      BY <3>1, FS_EmptySet DEF Owed, OwedIn
  <2>4. Cardinality(RowsOf(s)) \in Nat
    BY <2>1, FS_Subset, FS_CardinalityType DEF RowsOf
  <2> QED
    BY <2>1, <2>2, <2>3, <2>4
<1> QED
  BY <1>1, SightingsStart, SightingsInvStep, PTL DEF SightingsSpec
================================================================================
