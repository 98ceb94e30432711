------------------------------ MODULE Links_proofs ------------------------------
(* What the links promise of what they carry: the lines of a serial port, the   *)
(* completions of a model provider, the calls of an MCP server, the calls       *)
(* between two hosts, the frames they relay and the refusals a base reports,    *)
(* for every value of their constants. They share no state; each has a          *)
(* specification of its own and its own invariant.                              *)
EXTENDS SpineLink, Providers, McpClient, P2pCalls, MeshFlood, AirWatch, TLAPS

-----------------------------------------------------------------------------
(* The gateway's serial link (SpineLink).                                   *)

\* The link, and nothing beside it.
LinkSpec == LinkInit /\ [][LinkNext]_linkVars

\* A command on its way: whose writer accepted it.
Queued == [cmd : Commands, gen : Nat]

LinkTypes ==
  /\ gen \in Nat
  /\ queue \in Seq(Queued)
  /\ handle \in [state : {"open", "lost", "reopening"}, gen : Nat]
  /\ sends \in [Commands -> [at : {"none", "sending", "sent", "refused"}, gen : Nat]]
  /\ written \subseteq [cmd : Commands, by : Nat, of : Nat]

\* What is in the channel was accepted by the writer of this opening, and its
\* send has returned.
QueueIsOurs ==
  \A i \in DOMAIN queue : queue[i].gen = gen /\ sends[queue[i].cmd].at = "sent"

WrittenWasSent == \A w \in written : w.by = w.of /\ sends[w.cmd].at = "sent"

LinkInv == LinkTypes /\ QueueIsOurs /\ WrittenWasSent

\* A command in the channel is one of the commands.
LEMMA QueuedCommand ==
  ASSUME NEW q \in Seq(Queued), NEW i \in DOMAIN q
  PROVE  q[i].cmd \in Commands
<1>1. i \in 1 .. Len(q)
  OBVIOUS
<1>2. q[i] \in Queued
  BY <1>1
<1> QED
  BY <1>2 DEF Queued

\* The I/O thread writes what is at the head of its own channel.
LEMMA IoKeepsLinkInv ==
  ASSUME LinkInv, IoWrites
  PROVE  LinkInv'
<1> USE DEF LinkInv, LinkTypes
<1>1. /\ queue # <<>> /\ queue' = Tail(queue)
      /\ UNCHANGED <<gen, handle, sends>>
      /\ written' \subseteq written \cup {[cmd |-> Head(queue).cmd, by |-> gen, of |-> Head(queue).gen]}
  BY DEF IoWrites
<1>2. /\ Head(queue) = queue[1] /\ 1 \in DOMAIN queue
      /\ queue' \in Seq(Queued)
      /\ \A i \in DOMAIN queue' : i + 1 \in DOMAIN queue /\ queue'[i] = queue[i + 1]
  BY <1>1
<1>3. Head(queue) \in Queued /\ Head(queue).gen = gen /\ sends[Head(queue).cmd].at = "sent"
  BY <1>2 DEF QueueIsOurs
<1>4. LinkTypes'
  BY <1>1, <1>2, <1>3 DEF Queued
<1>5. QueueIsOurs'
  BY <1>1, <1>2 DEF QueueIsOurs
<1>6. WrittenWasSent'
  BY <1>1, <1>3 DEF WrittenWasSent
<1> QED
  BY <1>4, <1>5, <1>6

\* A sender takes the writer of the link that is open, and its command enters
\* the channel behind that writer or none.
LEMMA SendKeepsLinkInv ==
  ASSUME LinkInv, NEW c \in Commands, TakeWriter(c) \/ SendQueued(c) \/ SendFails(c)
  PROVE  LinkInv'
<1> USE DEF LinkInv, LinkTypes
<1>1. CASE TakeWriter(c)
  <2>1. sends[c].at = "none" /\ UNCHANGED <<gen, queue, handle, written>>
    BY <1>1 DEF TakeWriter, Unsent
  <2>2. sends' \in [Commands -> [at : {"none", "sending", "sent", "refused"}, gen : Nat]]
    BY <1>1 DEF TakeWriter
  <2>3. \A d \in Commands : d # c => sends'[d] = sends[d]
    BY <1>1 DEF TakeWriter
  <2>4. LinkTypes'
    BY <2>1, <2>2
  <2>5. QueueIsOurs'
    <3> SUFFICES ASSUME NEW i \in DOMAIN queue
                 PROVE  queue[i].gen = gen /\ sends'[queue[i].cmd].at = "sent"
      BY <2>1 DEF QueueIsOurs
    <3>1. queue[i].cmd \in Commands
      BY QueuedCommand
    <3> QED
      BY <2>1, <2>3, <3>1 DEF QueueIsOurs
  <2>6. WrittenWasSent'
    BY <2>1, <2>3 DEF WrittenWasSent
  <2> QED
    BY <2>4, <2>5, <2>6
<1>2. CASE SendQueued(c)
  <2>1. /\ sends[c].at = "sending" /\ sends[c].gen = gen
        /\ queue' = Append(queue, [cmd |-> c, gen |-> sends[c].gen])
        /\ sends' = [sends EXCEPT ![c].at = "sent"]
        /\ UNCHANGED <<gen, handle, written>>
    BY <1>2 DEF SendQueued, Listening
  <2>2. [cmd |-> c, gen |-> sends[c].gen] \in Queued
    BY DEF Queued
  <2>3. queue' \in Seq(Queued) /\ LinkTypes'
    BY <2>1, <2>2
  <2>4. \A d \in Commands : sends[d].at = "sent" => sends'[d].at = "sent"
    BY <2>1
  <2>5. sends'[c].at = "sent"
    BY <2>1
  <2>6. QueueIsOurs'
    <3> SUFFICES ASSUME NEW i \in DOMAIN queue'
                 PROVE  queue'[i].gen = gen /\ sends'[queue'[i].cmd].at = "sent"
      BY <2>1 DEF QueueIsOurs
    <3>1. CASE i = Len(queue) + 1
      <4>1. queue'[i] = [cmd |-> c, gen |-> sends[c].gen]
        BY <2>1, <2>2, <3>1
      <4> QED
        BY <2>1, <2>5, <4>1
    <3>2. CASE i # Len(queue) + 1
      <4>1. i \in DOMAIN queue /\ queue'[i] = queue[i]
        BY <2>1, <2>2, <3>2
      <4>2. queue[i].cmd \in Commands
        BY <4>1, QueuedCommand
      <4> QED
        BY <2>4, <4>1, <4>2 DEF QueueIsOurs
    <3> QED
      BY <3>1, <3>2
  <2>7. WrittenWasSent'
    BY <2>1, <2>4 DEF WrittenWasSent
  <2> QED
    BY <2>3, <2>6, <2>7
<1>3. CASE SendFails(c)
  <2>1. /\ sends[c].at = "sending"
        /\ sends' = [sends EXCEPT ![c].at = "refused"]
        /\ UNCHANGED <<gen, queue, handle, written>>
    BY <1>3 DEF SendFails
  <2>2. \A d \in Commands : sends[d].at = "sent" => sends'[d].at = "sent"
    BY <2>1
  <2>3. LinkTypes'
    BY <2>1
  <2>4. QueueIsOurs'
    <3> SUFFICES ASSUME NEW i \in DOMAIN queue
                 PROVE  queue[i].gen = gen /\ sends'[queue[i].cmd].at = "sent"
      BY <2>1 DEF QueueIsOurs
    <3>1. queue[i].cmd \in Commands
      BY QueuedCommand
    <3> QED
      BY <2>2, <3>1 DEF QueueIsOurs
  <2>5. WrittenWasSent'
    BY <2>1, <2>2 DEF WrittenWasSent
  <2> QED
    BY <2>3, <2>4, <2>5
<1> QED
  BY <1>1, <1>2, <1>3

\* No step of the device, the I/O thread, the supervisor or a sender lets a
\* command of one opening into the channel of another.
LEMMA LinkStep == LinkInv /\ [LinkNext]_linkVars => LinkInv'
<1> SUFFICES ASSUME LinkInv, [LinkNext]_linkVars PROVE LinkInv'
  OBVIOUS
<1>1. CASE IoWrites
  BY <1>1, IoKeepsLinkInv
<1>2. CASE \E c \in Commands : TakeWriter(c) \/ SendQueued(c) \/ SendFails(c)
  BY <1>2, SendKeepsLinkInv
<1>3. CASE IoExits
  BY <1>3 DEF IoExits, LinkInv, LinkTypes, QueueIsOurs, WrittenWasSent
<1>4. CASE AttemptOpens
  <2>1. /\ gen' = gen + 1 /\ queue' = <<>> /\ handle' = [state |-> "open", gen |-> gen']
        /\ UNCHANGED <<sends, written>>
    BY <1>4 DEF AttemptOpens
  <2> QED
    BY <2>1 DEF LinkInv, LinkTypes, QueueIsOurs, WrittenWasSent
<1>5. CASE OutageBegins \/ Reopening
  <2>1. /\ handle' \in {[state |-> "lost", gen |-> 0], [state |-> "reopening", gen |-> 0]}
        /\ UNCHANGED <<gen, queue, sends, written>>
    BY <1>5 DEF OutageBegins, Reopening
  <2> QED
    BY <2>1 DEF LinkInv, LinkTypes, QueueIsOurs, WrittenWasSent
<1>6. CASE UNCHANGED <<gen, queue, handle, sends, written>>
  BY <1>6 DEF LinkInv, LinkTypes, QueueIsOurs, WrittenWasSent
<1>7. CASE \/ Unplug \/ Plug \/ IoReads \/ IoReadFails \/ RxLine \/ RecordLost
           \/ AttemptFails \/ RecordOpen \/ UNCHANGED linkVars
  BY <1>6, <1>7 DEF Unplug, Plug, IoReads, IoReadFails, RxLine, RecordLost,
                    AttemptFails, RecordOpen, linkVars
<1> QED
  BY <1>1, <1>2, <1>3, <1>4, <1>5, <1>7 DEF LinkNext, IoStep, SupervisorStep

\* A command goes out on the link it was accepted for or not at all, through any
\* number of outages (SerialCommandSink::send_command, GatewayHandle).
THEOREM OutagesAreNotCrossed == LinkSpec => []NothingCrossesAnOutage
<1>1. LinkInit => LinkInv
  <2> SUFFICES ASSUME LinkInit PROVE LinkInv
    OBVIOUS
  <2>1. gen \in Nat /\ handle \in [state : {"open", "lost", "reopening"}, gen : Nat]
    BY DEF LinkInit
  <2>2. queue = <<>> /\ written = {} /\ sends = [c \in Commands |-> Unsent]
    BY DEF LinkInit
  <2> QED
    BY <2>1, <2>2 DEF LinkInv, LinkTypes, QueueIsOurs, WrittenWasSent, Unsent
<1>2. LinkInv => NothingCrossesAnOutage
  BY DEF LinkInv, QueueIsOurs, WrittenWasSent, NothingCrossesAnOutage
<1> QED
  BY <1>1, <1>2, LinkStep, PTL DEF LinkSpec

-----------------------------------------------------------------------------
(* Completions asked of model providers (Providers).                        *)

\* The completion asked of one chain of providers, and nothing beside it.
ProvidersSpec == ProvidersInit /\ [][ProvidersNext]_providerVars

ProvidersTypes ==
  /\ retries \in BOOLEAN /\ chain \in BOOLEAN
  /\ attempt \in Nat /\ provider \in 0 .. Last /\ asks \in Nat
  /\ owed \in [Wrappers -> BOOLEAN]
  /\ turn \in {"asking", "streaming", "backoff", "ok", "err"}

\* Whatever is shown, each configured wrapper knows that it let it through; so
\* a provider is only ever asked with nothing shown.
ShownIsOwed ==
  /\ turn = "asking" => view = <<>>
  /\ turn \in {"streaming", "ok"} => view = fold
  /\ view # <<>> => (retries => owed["retry"]) /\ (chain => owed["failover"])
  /\ turn = "backoff" => retries /\ provider = Last

\* The requests of the attempts before this one, and of this one so far.
AsksSoFar ==
  asks <= attempt * (Last + 1) + provider + (IF turn = "asking" THEN 0 ELSE 1)

ProvidersInv == ProvidersTypes /\ ShownIsOwed /\ AsksSoFar

\* Without fallbacks configured the primary provider is the last.
LEMMA LastType == chain \in BOOLEAN => Last \in Nat /\ (~chain => Last = 0)
BY ProvidersAssumption DEF Last

\* The bound on the requests at the start of an attempt, from the one before it.
LEMMA NextAttemptBound ==
  ASSUME NEW a \in Nat, NEW n \in Nat
  PROVE  /\ a * (n + 1) \in Nat
         /\ a * (n + 1) + n + 1 = (a + 1) * (n + 1)
OBVIOUS

\* No step, of the stream or of either wrapper, shows what it will not own up to.
LEMMA ProvidersStep == ProvidersInv /\ [ProvidersNext]_providerVars => ProvidersInv'
<1> SUFFICES ASSUME ProvidersInv, [ProvidersNext]_providerVars PROVE ProvidersInv'
  OBVIOUS
<1> USE DEF ProvidersInv, ProvidersTypes, ShownIsOwed, AsksSoFar
<1>0. Last \in Nat /\ (~chain => Last = 0) /\ attempt * (Last + 1) \in Nat
  BY LastType, NextAttemptBound
<1>1. CASE StreamOpens
  BY <1>0, <1>1 DEF StreamOpens, Last
<1>2. CASE TextArrives
  <2>1. owed' = [w \in Wrappers |-> IF w = "failover" THEN chain ELSE retries]
    BY <1>2 DEF TextArrives, EmittedAfter
  <2>2. owed'["retry"] = retries /\ owed'["failover"] = chain
    BY <2>1 DEF Wrappers
  <2>3. view' = fold'
    BY <1>2 DEF TextArrives
  <2> QED
    BY <1>0, <1>2, <2>1, <2>2, <2>3 DEF TextArrives, Last
<1>3. CASE StreamCompletes
  BY <1>0, <1>3 DEF StreamCompletes, Last
<1>4. CASE NextProvider
  <2>1. chain
    BY <1>0, <1>4 DEF NextProvider
  <2>2. view' = <<>>
    BY <1>4, <2>1 DEF NextProvider, Restarted
  <2> QED
    BY <1>0, <1>4, <2>2 DEF NextProvider, Last, Wrappers
<1>5. ASSUME NEW e \in Errors, BacksOff(e) PROVE ProvidersInv'
  BY <1>0, <1>5 DEF BacksOff, Last
<1>6. CASE Retry
  <2>1. retries /\ provider = Last /\ turn = "backoff"
    BY <1>6 DEF Retry
  <2>2. view' = <<>>
    BY <1>6, <2>1 DEF Retry, Restarted
  <2>3. asks <= (attempt + 1) * (Last + 1) /\ (attempt + 1) * (Last + 1) \in Nat
    BY <1>0, <2>1, NextAttemptBound
  <2>4. Last' = Last
    BY <1>6 DEF Retry, Last
  <2>5. asks' <= attempt' * (Last' + 1) + provider'
    BY <1>6, <2>3, <2>4 DEF Retry
  <2> QED
    BY <1>0, <1>6, <2>2, <2>4, <2>5 DEF Retry
<1>7. ASSUME NEW e \in Errors, Surfaces(e) PROVE ProvidersInv'
  BY <1>0, <1>7 DEF Surfaces, Last
<1>8. CASE UNCHANGED providerVars
  BY <1>8 DEF providerVars, Last
<1> QED
  BY <1>1, <1>2, <1>3, <1>4, <1>5, <1>6, <1>7, <1>8 DEF ProvidersNext

\* What the operator sees of a completion is what its message says, and no
\* provider is asked twice in an attempt (the `tracking` sinks of RetryProvider
\* and FailoverProvider).
THEOREM AnswerShown == ProvidersSpec => []ShownIsTheAnswer
<1>1. ProvidersInit => ProvidersInv
  <2> SUFFICES ASSUME ProvidersInit PROVE ProvidersInv
    OBVIOUS
  <2>1. Last \in Nat /\ 0 * (Last + 1) = 0
    BY LastType DEF ProvidersInit
  <2> QED
    BY <2>1 DEF ProvidersInit, ProvidersInv, ProvidersTypes, ShownIsOwed, AsksSoFar
<1>2. ProvidersInv => ShownIsTheAnswer
  <2> SUFFICES ASSUME ProvidersInv PROVE asks <= (attempt + 1) * (Last + 1)
    BY DEF ProvidersInv, ShownIsOwed, ShownIsTheAnswer
  <2>1. /\ Last \in Nat /\ attempt \in Nat
        /\ attempt * (Last + 1) \in Nat
        /\ attempt * (Last + 1) + Last + 1 = (attempt + 1) * (Last + 1)
    BY LastType, NextAttemptBound DEF ProvidersInv, ProvidersTypes
  <2> QED
    BY <2>1 DEF ProvidersInv, ProvidersTypes, AsksSoFar
<1> QED
  BY <1>1, <1>2, ProvidersStep, PTL DEF ProvidersSpec

-----------------------------------------------------------------------------
(* Calls of an MCP server over stdio (McpClient).                           *)

McpCalls  == ToolCalls \cup {NoCall}
Frames == [id : Nat, call : McpCalls \cup {"half", "garbage"}]
Words  == {"nothing", "result", "error", "failed", "undelivered", "unanswered",
           "unavailable", "abandoned"}
Modes  == {"stateless", "legacy", "neither"}
Conns  == [mode : Modes, next : Nat, at : {"free", "writing", "reading", "respawning"},
           call : McpCalls, id : Nat, skipped : Nat, sent : BOOLEAN]

McpTypes ==
  /\ pin \in {"none", "legacy", "stateless"}
  /\ server \in [kind : ServerKinds, alive : BOOLEAN, initialized : BOOLEAN]
  /\ server.initialized = (Lifecycle(server.kind) = "legacy")
  /\ Lifecycle(server.kind) # "neither"
  /\ conn \in Conns
  /\ pipeIn \in Seq(Frames) /\ pipeOut \in Seq(Frames)
  /\ told \in [ToolCalls -> [what : Words, of : McpCalls]]
  /\ ran \in [ToolCalls -> Nat]

\* The request the connection is in, and what is known of its call.
RequestInv ==
  /\ conn.id < conn.next
  /\ conn.at # "free" => conn.call \in ToolCalls /\ told[conn.call] = Untold /\ conn.id > 0
  /\ conn.at = "writing" \/ (conn.at = "respawning" /\ ~conn.sent) => ran[conn.call] = 0
  /\ conn.at = "respawning" => ~server.alive
  /\ ~server.alive => pipeIn = << >>

\* A call that ran is the one being waited for, or one its caller was told of.
RanInv ==
  \A c \in ToolCalls :
    /\ ran[c] <= 1
    /\ ran[c] > 0 => told[c] # Untold \/ (conn.call = c /\ conn.at # "free")
    /\ told[c].what = "result" => told[c].of = c /\ ran[c] = 1
    /\ told[c].what = "undelivered" => ran[c] = 0

\* A line the server has yet to read: older than the next id; a request in it
\* did not run yet, and is the one being waited for or one given up.
OnTheWay(f) ==
  /\ f.id < conn.next
  /\ f.id > 0 => f.call \in ToolCalls
  /\ f.call \in ToolCalls =>
       /\ f.id > 0 /\ ran[f.call] = 0
       /\ told[f.call].what \notin {"result", "undelivered"}
       /\ told[f.call] # Untold \/ (conn.at = "reading" /\ conn.call = f.call)
  /\ conn.at \in {"writing", "reading"} /\ f.id = conn.id =>
       conn.at = "reading" /\ f.call = conn.call

\* A line the client has yet to read: under the id of the request it waits
\* for there is only its own answer, or a refusal.
CallAnswered(f) ==
  /\ f.id < conn.next
  /\ f.call \in McpCalls
  /\ f.call \in ToolCalls => ran[f.call] = 1
  /\ conn.at \in {"writing", "reading"} /\ f.id = conn.id =>
       conn.at = "reading" /\ f.call \in {conn.call, NoCall}

PipesInv ==
  /\ \A i \in DOMAIN pipeIn : OnTheWay(pipeIn[i])
  /\ \A i, j \in DOMAIN pipeIn :
       pipeIn[i].call \in ToolCalls /\ pipeIn[i].call = pipeIn[j].call => i = j
  /\ \A i \in DOMAIN pipeOut : CallAnswered(pipeOut[i])

McpInv == McpTypes /\ RequestInv /\ RanInv /\ PipesInv

-----------------------------------------------------------------------------
(* Lines and connections.                                                    *)

LEMMA Marks == NoCall \notin ToolCalls /\ "half" \notin ToolCalls /\ "garbage" \notin ToolCalls
BY MarksAssumption

LEMMA FrameType ==
  ASSUME NEW id \in Nat, NEW call \in McpCalls \cup {"half", "garbage"}
  PROVE  Frame(id, call) \in Frames /\ Frame(id, call).id = id /\ Frame(id, call).call = call
BY DEF Frame, Frames

LEMMA FrameFields ==
  ASSUME NEW f \in Frames
  PROVE  f.id \in Nat /\ f.call \in McpCalls \cup {"half", "garbage"}
BY DEF Frames

LEMMA MarkTypes ==
  /\ Noise \in Frames /\ Noise.id = 0 /\ Noise.call = NoCall
  /\ Half \in Frames /\ Half.id = 0 /\ Half.call = "half"
  /\ Garbage \in Frames /\ Garbage.id = 0 /\ Garbage.call = "garbage"
BY FrameType DEF Noise, Half, Garbage, McpCalls

\* The line read first, and those left.
LEMMA TailFacts ==
  ASSUME NEW s \in Seq(Frames), s # << >>
  PROVE  /\ 1 \in DOMAIN s /\ Head(s) = s[1] /\ Head(s) \in Frames
         /\ Tail(s) \in Seq(Frames)
         /\ \A i \in DOMAIN Tail(s) : i \in Nat \ {0} /\ i + 1 \in DOMAIN s /\ Tail(s)[i] = s[i + 1]
OBVIOUS

\* A line written last.
LEMMA AppendFacts ==
  ASSUME NEW s \in Seq(Frames), NEW f \in Frames
  PROVE  /\ Append(s, f) \in Seq(Frames)
         /\ \A i \in DOMAIN Append(s, f) :
              \/ i \in DOMAIN s /\ Append(s, f)[i] = s[i]
              \/ i = Len(s) + 1 /\ i \notin DOMAIN s /\ Append(s, f)[i] = f
OBVIOUS

\* A line spoilt where it is.
LEMMA SpoilFacts ==
  ASSUME NEW s \in Seq(Frames), NEW f \in Frames, NEW k \in DOMAIN s
  PROVE  /\ [s EXCEPT ![k] = f] \in Seq(Frames)
         /\ DOMAIN [s EXCEPT ![k] = f] = DOMAIN s
         /\ \A i \in DOMAIN s : [s EXCEPT ![k] = f][i] = IF i = k THEN f ELSE s[i]
OBVIOUS

LEMMA ConnFields ==
  ASSUME NEW c \in Conns
  PROVE  /\ c.next \in Nat /\ c.at \in {"free", "writing", "reading", "respawning"}
         /\ c.call \in McpCalls /\ c.id \in Nat /\ c.skipped \in Nat /\ c.sent \in BOOLEAN
BY DEF Conns

\* A connection that waits for nothing.
LEMMA IdleFacts ==
  ASSUME NEW c \in Conns
  PROVE  /\ Idle(c) \in Conns /\ Idle(c).at = "free" /\ Idle(c).call = NoCall
         /\ Idle(c).id = 0 /\ Idle(c).next = c.next
<1> DEFINE c1 == [c EXCEPT !.at = "free"]
           c2 == [c1 EXCEPT !.call = NoCall]
           c3 == [c2 EXCEPT !.id = 0]
           c4 == [c3 EXCEPT !.skipped = 0]
           c5 == [c4 EXCEPT !.sent = FALSE]
<1>1. c1 \in Conns /\ c1.at = "free" /\ c1.next = c.next
  BY DEF Conns
<1>2. c2 \in Conns /\ c2.at = "free" /\ c2.call = NoCall /\ c2.next = c.next
  <2> HIDE DEF c1
  <2> QED
    BY <1>1 DEF Conns, McpCalls
<1>3. c3 \in Conns /\ c3.at = "free" /\ c3.call = NoCall /\ c3.id = 0 /\ c3.next = c.next
  <2> HIDE DEF c2
  <2> QED
    BY <1>2 DEF Conns
<1>4. c4 \in Conns /\ c4.at = "free" /\ c4.call = NoCall /\ c4.id = 0 /\ c4.next = c.next
  <2> HIDE DEF c3
  <2> QED
    BY <1>3 DEF Conns
<1>5. c5 \in Conns /\ c5.at = "free" /\ c5.call = NoCall /\ c5.id = 0 /\ c5.next = c.next
  <2> HIDE DEF c4
  <2> QED
    BY <1>4 DEF Conns
<1>6. Idle(c) = c5
  BY DEF Idle
<1> HIDE DEF c5
<1> QED
  BY <1>5, <1>6

\* A new connection, to a new server.
LEMMA FreshConnection ==
  ASSUME NEW s \in ServerKinds, pin \in {"none", "legacy", "stateless"}
  PROVE  /\ Connection(s) \in Conns /\ Connection(s).at = "free"
         /\ Connection(s).id = 0 /\ Connection(s).next = 1
         /\ Process(s) \in [kind : ServerKinds, alive : BOOLEAN, initialized : BOOLEAN]
         /\ Process(s).kind = s /\ Process(s).alive
         /\ Process(s).initialized = (Lifecycle(s) = "legacy")
<1>1. Lifecycle(s) \in Modes
  <2>1. Negotiated(s) \in Modes
    BY DEF Negotiated, Modes
  <2> QED
    BY <2>1 DEF Lifecycle, Modes
<1> QED
  BY <1>1 DEF Connection, Process, Conns, McpCalls

\* Telling a caller changes what that caller knows.
LEMMA TellFacts ==
  ASSUME McpTypes, NEW c \in ToolCalls, NEW what \in Words, NEW of \in McpCalls,
         what # "nothing", TellCaller(c, what, of)
  PROVE  /\ told' \in [ToolCalls -> [what : Words, of : McpCalls]]
         /\ told'[c] = [what |-> what, of |-> of] /\ told'[c] # Untold
         /\ told'[c].what = what /\ told'[c].of = of
         /\ \A d \in ToolCalls \ {c} : told'[d] = told[d]
BY DEF TellCaller, McpTypes, Untold

\* Without server/discover, initialize makes it legacy.
LEMMA LegacyNegotiated ==
  ASSUME NEW s, "discover" \notin s, "initialize" \in s
  PROVE  Negotiated(s) = "legacy"
BY DEF Negotiated

\* Whoever negotiated its lifecycle can be called.
LEMMA NegotiatedTakes ==
  ASSUME McpTypes, pin = "none"
  PROVE  Takes
<1> DEFINE s == server.kind
<1>1. s \in ServerKinds
  BY DEF McpTypes
<1>2. /\ "callBare" \in s => "listBare" \in s
      /\ "discover" \in s => "callBare" \in s
      /\ "initialize" \in s \/ "callBare" \in s
  BY <1>1, McpAssumption
<1>3. Lifecycle(s) = Negotiated(s)
  BY DEF Lifecycle
<1>4. CASE "discover" \in s
  BY <1>2, <1>4 DEF Takes
<1>5. CASE "discover" \notin s /\ "initialize" \in s
  <2>1. Negotiated(s) = "legacy"
    BY <1>5, LegacyNegotiated
  <2> QED
    BY <1>3, <2>1 DEF Takes, McpTypes
<1>6. CASE "discover" \notin s /\ "initialize" \notin s
  BY <1>2, <1>6 DEF Takes
<1> QED
  BY <1>4, <1>5, <1>6

-----------------------------------------------------------------------------
(* The client's steps.                                                       *)

\* A line of the next state, by what it is.
LEMMA LineAt ==
  ASSUME NEW i, NEW f
  PROVE  /\ pipeIn'[i] = f /\ OnTheWay(f)' => OnTheWay(pipeIn[i])'
         /\ pipeOut'[i] = f /\ CallAnswered(f)' => CallAnswered(pipeOut[i])'
BY DEF OnTheWay, CallAnswered

\* A request is written: its call did not run and is in no line yet.
LEMMA CallKeeps ==
  ASSUME McpInv, NEW c \in ToolCalls, CallTool(c)
  PROVE  McpInv'
<1> USE DEF McpInv
<1>1. /\ conn.at = "free" /\ told[c] = Untold
      /\ conn' = [conn EXCEPT !.at = "writing", !.call = c, !.id = conn.next, !.next = @ + 1]
      /\ UNCHANGED <<server, pin, pipeIn, pipeOut, told, ran, noise, deaths>>
  BY DEF CallTool
<1>2. /\ conn \in Conns /\ conn.next \in Nat /\ conn.id \in Nat /\ conn.id < conn.next
  BY ConnFields DEF McpTypes, RequestInv
<1>3. /\ conn' \in Conns /\ conn'.at = "writing" /\ conn'.call = c
      /\ conn'.id = conn.next /\ conn'.next = conn.next + 1
  <2> DEFINE c1 == [conn EXCEPT !.at = "writing"]
             c2 == [c1 EXCEPT !.call = c]
             c3 == [c2 EXCEPT !.id = conn.next]
             c4 == [c3 EXCEPT !.next = @ + 1]
  <2>1. c1 \in Conns /\ c1.at = "writing" /\ c1.next = conn.next
    BY <1>2 DEF Conns
  <2>2. c2 \in Conns /\ c2.at = "writing" /\ c2.call = c /\ c2.next = conn.next
    <3> HIDE DEF c1
    <3> QED
      BY <2>1 DEF Conns, McpCalls
  <2>3. c3 \in Conns /\ c3.at = "writing" /\ c3.call = c /\ c3.id = conn.next /\ c3.next = conn.next
    <3> HIDE DEF c2
    <3> QED
      BY <1>2, <2>2 DEF Conns
  <2>4. c4 \in Conns /\ c4.at = "writing" /\ c4.call = c /\ c4.id = conn.next
        /\ c4.next = conn.next + 1
    <3> HIDE DEF c3
    <3> QED
      BY <1>2, <2>3 DEF Conns
  <2>5. conn' = c4
    BY <1>1
  <2> HIDE DEF c4
  <2> QED
    BY <2>4, <2>5
<1>4. McpTypes'
  BY <1>1, <1>3 DEF McpTypes, Lifecycle
<1>5. ran[c] = 0
  <2>1. ran[c] \in Nat /\ ~(ran[c] > 0)
    BY <1>1 DEF McpTypes, RanInv
  <2> QED
    BY <2>1
<1>6. RequestInv'
  BY <1>1, <1>2, <1>3, <1>5 DEF RequestInv
<1>7. RanInv'
  BY <1>1, <1>3 DEF RanInv
<1>8. PipesInv'
  <2>1. ASSUME NEW i \in DOMAIN pipeIn PROVE OnTheWay(pipeIn[i])'
    <3>1. OnTheWay(pipeIn[i]) /\ pipeIn[i] \in Frames
      BY DEF PipesInv, McpTypes
    <3>2. pipeIn[i].id \in Nat /\ pipeIn[i].id < conn.next
      BY <3>1, FrameFields DEF OnTheWay
    <3> QED
      BY <1>1, <1>2, <1>3, <3>1, <3>2 DEF OnTheWay
  <2>2. ASSUME NEW i \in DOMAIN pipeOut PROVE CallAnswered(pipeOut[i])'
    <3>1. CallAnswered(pipeOut[i]) /\ pipeOut[i] \in Frames
      BY DEF PipesInv, McpTypes
    <3>2. pipeOut[i].id \in Nat /\ pipeOut[i].id < conn.next
      BY <3>1, FrameFields DEF CallAnswered
    <3> QED
      BY <1>1, <1>2, <1>3, <3>1, <3>2 DEF CallAnswered
  <2> QED
    BY <1>1, <2>1, <2>2 DEF PipesInv
<1> QED
  BY <1>4, <1>6, <1>7, <1>8

\* The line is in the pipe, the newest under the newest id.
LEMMA WriteKeeps ==
  ASSUME McpInv, WriteRequest
  PROVE  McpInv'
<1> USE DEF McpInv
<1>1. /\ conn.at = "writing" /\ server.alive
      /\ conn' = [conn EXCEPT !.at = "reading"]
      /\ pipeIn' = IF CutOff THEN [pipeIn EXCEPT ![Len(pipeIn)] = Garbage]
                   ELSE Append(pipeIn, Frame(conn.id, conn.call))
      /\ UNCHANGED <<server, pin, pipeOut, told, ran>>
  BY DEF WriteRequest
<1>2. /\ conn \in Conns /\ conn.id \in Nat /\ conn.next \in Nat /\ conn.id < conn.next
      /\ conn.call \in ToolCalls /\ told[conn.call] = Untold /\ conn.id > 0
      /\ ran[conn.call] = 0
  BY <1>1, ConnFields DEF McpTypes, RequestInv
<1>3. /\ conn' \in Conns /\ conn'.at = "reading" /\ conn'.call = conn.call
      /\ conn'.id = conn.id /\ conn'.next = conn.next
  BY <1>1, <1>2 DEF Conns
<1>4. PICK new \in Frames : new = Frame(conn.id, conn.call) /\ new.id = conn.id /\ new.call = conn.call
  BY <1>2, FrameType DEF McpCalls
<1>5. CutOff => Len(pipeIn) \in DOMAIN pipeIn
  BY DEF CutOff, McpTypes
<1>6. pipeIn' \in Seq(Frames)
  <2>1. CASE CutOff
    BY <1>1, <1>5, <2>1, SpoilFacts, MarkTypes DEF McpTypes
  <2>2. CASE ~CutOff
    BY <1>1, <1>4, <2>2, AppendFacts DEF McpTypes
  <2> QED
    BY <2>1, <2>2
<1>7. McpTypes'
  BY <1>1, <1>3, <1>6 DEF McpTypes, Lifecycle
<1>8. RequestInv'
  BY <1>1, <1>2, <1>3 DEF RequestInv
<1>9. RanInv'
  BY <1>1, <1>3 DEF RanInv
<1>10. ASSUME NEW f \in Frames, OnTheWay(f)
       PROVE  OnTheWay(f)' /\ f.call # conn.call
  <2>1. f.call \in ToolCalls => told[f.call] # Untold
    BY <1>1, <1>10 DEF OnTheWay
  <2>2. f.id # conn.id
    BY <1>1, <1>10 DEF OnTheWay
  <2> QED
    BY <1>1, <1>2, <1>3, <1>10, <2>1, <2>2 DEF OnTheWay
<1>11. OnTheWay(new)'
  <2>1. told[conn.call].what = "nothing"
    BY <1>2 DEF Untold
  <2> QED
    BY <1>1, <1>2, <1>3, <1>4, <2>1 DEF OnTheWay
<1>12. OnTheWay(Garbage)'
  BY <1>2, <1>3, MarkTypes, Marks DEF OnTheWay
<1>13. ASSUME NEW i \in DOMAIN pipeOut PROVE CallAnswered(pipeOut[i])'
  <2>1. CallAnswered(pipeOut[i])
    BY DEF PipesInv
  <2> QED
    BY <1>1, <1>2, <1>3, <2>1 DEF CallAnswered
<1>14. \A i \in DOMAIN pipeIn : pipeIn[i] \in Frames /\ OnTheWay(pipeIn[i])
  BY DEF PipesInv, McpTypes
<1>15. PipesInv'
  <2>1. CASE CutOff
    <3>1. /\ DOMAIN pipeIn' = DOMAIN pipeIn
          /\ \A i \in DOMAIN pipeIn : pipeIn'[i] = IF i = Len(pipeIn) THEN Garbage ELSE pipeIn[i]
      BY <1>1, <1>5, <2>1, SpoilFacts, MarkTypes DEF McpTypes
    <3>2. ASSUME NEW i \in DOMAIN pipeIn' PROVE OnTheWay(pipeIn[i])'
      BY <1>10, <1>12, <1>14, <3>1, LineAt
    <3>3. \A i, j \in DOMAIN pipeIn' :
            pipeIn'[i].call \in ToolCalls /\ pipeIn'[i].call = pipeIn'[j].call => i = j
      BY <3>1, MarkTypes, Marks DEF PipesInv
    <3> QED
      BY <1>1, <1>13, <3>2, <3>3 DEF PipesInv
  <2>2. CASE ~CutOff
    <3>1. \A i \in DOMAIN pipeIn' :
            \/ i \in DOMAIN pipeIn /\ pipeIn'[i] = pipeIn[i]
            \/ i = Len(pipeIn) + 1 /\ i \notin DOMAIN pipeIn /\ pipeIn'[i] = new
      BY <1>1, <1>4, <2>2, AppendFacts DEF McpTypes
    <3>2. ASSUME NEW i \in DOMAIN pipeIn' PROVE OnTheWay(pipeIn[i])'
      BY <1>10, <1>11, <1>14, <3>1, LineAt
    <3>3. ASSUME NEW i \in DOMAIN pipeIn', NEW j \in DOMAIN pipeIn',
                 pipeIn'[i].call \in ToolCalls, pipeIn'[i].call = pipeIn'[j].call
          PROVE  i = j
      BY <1>4, <1>10, <1>14, <3>1, <3>3 DEF PipesInv
    <3> QED
      BY <1>1, <1>13, <3>2, <3>3 DEF PipesInv
  <2> QED
    BY <2>1, <2>2
<1> QED
  BY <1>7, <1>8, <1>9, <1>15

\* The server is gone: what it had not read is gone with it.
LEMMA GoneKeeps ==
  ASSUME McpInv, WriteFails \/ ReadEnds
  PROVE  McpInv'
<1> USE DEF McpInv
<1> DEFINE sent == conn.at = "reading"
<1>1. /\ conn.at \in {"writing", "reading"} /\ ~server.alive
      /\ conn' = [conn EXCEPT !.at = "respawning", !.sent = sent]
      /\ UNCHANGED <<server, pin, pipeIn, pipeOut, told, ran>>
  BY DEF WriteFails, ReadEnds
<1>2. /\ conn \in Conns /\ sent \in BOOLEAN
  BY DEF McpTypes
<1>3. /\ conn' \in Conns /\ conn'.at = "respawning" /\ conn'.call = conn.call
      /\ conn'.id = conn.id /\ conn'.next = conn.next /\ conn'.sent = sent
  <2> DEFINE c1 == [conn EXCEPT !.at = "respawning"]
             c2 == [c1 EXCEPT !.sent = sent]
  <2>1. /\ c1 \in Conns /\ c1.at = "respawning" /\ c1.call = conn.call
        /\ c1.id = conn.id /\ c1.next = conn.next
    BY <1>2 DEF Conns
  <2>2. /\ c2 \in Conns /\ c2.at = "respawning" /\ c2.call = conn.call
        /\ c2.id = conn.id /\ c2.next = conn.next /\ c2.sent = sent
    <3> HIDE DEF c1, sent
    <3> QED
      BY <1>2, <2>1 DEF Conns
  <2>3. conn' = c2
    BY <1>1
  <2> HIDE DEF c2
  <2> QED
    BY <2>2, <2>3
<1>4. McpTypes'
  BY <1>1, <1>3 DEF McpTypes, Lifecycle
<1>5. RequestInv'
  BY <1>1, <1>3 DEF RequestInv
<1>6. RanInv'
  BY <1>1, <1>3 DEF RanInv
<1>7. pipeIn' = << >>
  BY <1>1 DEF RequestInv
<1>8. ASSUME NEW i \in DOMAIN pipeOut PROVE CallAnswered(pipeOut[i])'
  <2>1. CallAnswered(pipeOut[i])
    BY DEF PipesInv
  <2> QED
    BY <1>1, <1>3, <2>1 DEF CallAnswered
<1>9. PipesInv'
  BY <1>1, <1>7, <1>8 DEF PipesInv
<1> QED
  BY <1>4, <1>5, <1>6, <1>9

\* The wait is over: the caller is told something, and the connection waits
\* for nothing.
LEMMA WaitEnds ==
  ASSUME McpInv, conn.at # "free", NEW what \in Words, NEW of \in McpCalls,
         what \notin {"nothing", "undelivered"},
         what = "result" => of = conn.call /\ ran[conn.call] = 1,
         TellCaller(conn.call, what, of), conn' = Idle(conn),
         UNCHANGED <<server, pin, ran>>,
         pipeIn' \in Seq(Frames), pipeOut' \in Seq(Frames), ~server.alive => pipeIn' = << >>
  PROVE  /\ McpTypes' /\ RequestInv' /\ RanInv'
         /\ \A f \in Frames : (OnTheWay(f) => OnTheWay(f)') /\ (CallAnswered(f) => CallAnswered(f)')
<1> USE DEF McpInv
<1>1. /\ conn \in Conns /\ conn.call \in ToolCalls /\ told[conn.call] = Untold
      /\ conn.id \in Nat /\ conn.next \in Nat /\ conn.id < conn.next
  BY ConnFields DEF McpTypes, RequestInv
<1>2. /\ conn' \in Conns /\ conn'.at = "free" /\ conn'.call = NoCall
      /\ conn'.id = 0 /\ conn'.next = conn.next
  BY <1>1, IdleFacts
<1>3. /\ told' \in [ToolCalls -> [what : Words, of : McpCalls]]
      /\ told'[conn.call] # Untold
      /\ told'[conn.call].what = what /\ told'[conn.call].of = of
      /\ \A d \in ToolCalls \ {conn.call} : told'[d] = told[d]
  BY <1>1, TellFacts
<1>4. McpTypes'
  BY <1>2, <1>3 DEF McpTypes, Lifecycle
<1>5. RequestInv'
  BY <1>1, <1>2 DEF RequestInv
<1>6. RanInv'
  <2> SUFFICES ASSUME NEW c \in ToolCalls
               PROVE  /\ ran[c] <= 1
                      /\ ran[c] > 0 => told'[c] # Untold
                      /\ told'[c].what = "result" => told'[c].of = c /\ ran[c] = 1
                      /\ told'[c].what = "undelivered" => ran[c] = 0
    BY DEF RanInv
  <2>1. CASE c = conn.call
    BY <1>3, <2>1 DEF RanInv
  <2>2. CASE c # conn.call
    BY <1>3, <2>2 DEF RanInv
  <2> QED
    BY <2>1, <2>2
<1>7. ASSUME NEW f \in Frames, OnTheWay(f) PROVE OnTheWay(f)'
  <2>1. ASSUME f.call \in ToolCalls
        PROVE  /\ f.id > 0 /\ ran[f.call] = 0
               /\ told'[f.call].what \notin {"result", "undelivered"} /\ told'[f.call] # Untold
    <3>1. CASE f.call = conn.call
      BY <1>3, <1>7, <2>1, <3>1 DEF OnTheWay
    <3>2. CASE f.call # conn.call
      BY <1>3, <1>7, <2>1, <3>2 DEF OnTheWay
    <3> QED
      BY <3>1, <3>2
  <2> QED
    BY <1>2, <1>7, <2>1 DEF OnTheWay
<1>8. ASSUME NEW f \in Frames, CallAnswered(f) PROVE CallAnswered(f)'
  BY <1>2, <1>8 DEF CallAnswered
<1> QED
  BY <1>4, <1>5, <1>6, <1>7, <1>8

\* Pipes whose lines come from those of before, in order, stay in order.
LEMMA LinesKept ==
  ASSUME McpInv,
         \A f \in Frames : (OnTheWay(f) => OnTheWay(f)') /\ (CallAnswered(f) => CallAnswered(f)'),
         \/ pipeIn' = pipeIn
         \/ pipeIn # << >> /\ pipeIn' = Tail(pipeIn)
         \/ pipeIn' = Append(pipeIn, Half) /\ OnTheWay(Half)',
         \/ pipeOut' = pipeOut
         \/ pipeOut # << >> /\ pipeOut' = Tail(pipeOut)
         \/ pipeOut # << >> /\ pipeOut' = [pipeOut EXCEPT ![1] = Noise] /\ CallAnswered(Noise)'
         \/ \E f \in Frames : pipeOut' = Append(pipeOut, f) /\ CallAnswered(f)'
  PROVE  PipesInv'
<1> USE DEF McpInv
<1>1. pipeIn \in Seq(Frames) /\ pipeOut \in Seq(Frames)
  BY DEF McpTypes
<1>2. \A i \in DOMAIN pipeIn : pipeIn[i] \in Frames /\ OnTheWay(pipeIn[i])
  BY <1>1 DEF PipesInv
<1>3. \A i \in DOMAIN pipeOut : pipeOut[i] \in Frames /\ CallAnswered(pipeOut[i])
  BY <1>1 DEF PipesInv
<1>4. /\ \A i \in DOMAIN pipeIn' : \/ pipeIn'[i] = Half /\ OnTheWay(Half)'
                                  \/ \E k \in DOMAIN pipeIn : pipeIn'[i] = pipeIn[k]
      /\ \A i, j \in DOMAIN pipeIn' :
           pipeIn'[i].call \in ToolCalls /\ pipeIn'[i].call = pipeIn'[j].call => i = j
  <2>1. CASE pipeIn' = pipeIn
    BY <2>1 DEF PipesInv
  <2>2. CASE pipeIn # << >> /\ pipeIn' = Tail(pipeIn)
    <3>1. \A i \in DOMAIN pipeIn' :
            i \in Nat /\ i + 1 \in DOMAIN pipeIn /\ pipeIn'[i] = pipeIn[i + 1]
      BY <1>1, <2>2, TailFacts
    <3>2. ASSUME NEW i \in DOMAIN pipeIn', NEW j \in DOMAIN pipeIn',
                 pipeIn'[i].call \in ToolCalls, pipeIn'[i].call = pipeIn'[j].call
          PROVE  i = j
      <4>1. i + 1 = j + 1
        BY <3>1, <3>2 DEF PipesInv
      <4> QED
        BY <3>1, <4>1
    <3> QED
      BY <3>1, <3>2
  <2>3. CASE pipeIn' = Append(pipeIn, Half) /\ OnTheWay(Half)'
    <3>1. \A i \in DOMAIN pipeIn' :
            \/ i \in DOMAIN pipeIn /\ pipeIn'[i] = pipeIn[i]
            \/ i = Len(pipeIn) + 1 /\ pipeIn'[i] = Half
      BY <1>1, <2>3, AppendFacts, MarkTypes
    <3> QED
      BY <2>3, <3>1, MarkTypes, Marks DEF PipesInv
  <2> QED
    BY <2>1, <2>2, <2>3
<1>5. ASSUME NEW i \in DOMAIN pipeIn' PROVE OnTheWay(pipeIn[i])'
  <2>1. PICK f \in Frames : f = pipeIn'[i] /\ OnTheWay(f)'
    BY <1>2, <1>4, MarkTypes
  <2> QED
    BY <2>1, LineAt
<1>6. \A i \in DOMAIN pipeOut' : \/ \E f \in Frames : pipeOut'[i] = f /\ CallAnswered(f)'
                               \/ \E k \in DOMAIN pipeOut : pipeOut'[i] = pipeOut[k]
  <2>1. CASE pipeOut' = pipeOut
    BY <2>1
  <2>2. CASE pipeOut # << >> /\ pipeOut' = Tail(pipeOut)
    BY <1>1, <2>2, TailFacts
  <2>3. CASE pipeOut # << >> /\ pipeOut' = [pipeOut EXCEPT ![1] = Noise] /\ CallAnswered(Noise)'
    <3>1. 1 \in DOMAIN pipeOut
      BY <1>1, <2>3, TailFacts
    <3> QED
      BY <1>1, <2>3, <3>1, SpoilFacts, MarkTypes
  <2>4. CASE \E f \in Frames : pipeOut' = Append(pipeOut, f) /\ CallAnswered(f)'
    BY <1>1, <2>4, AppendFacts
  <2> QED
    BY <2>1, <2>2, <2>3, <2>4
<1>7. ASSUME NEW i \in DOMAIN pipeOut' PROVE CallAnswered(pipeOut[i])'
  <2>1. PICK f \in Frames : f = pipeOut'[i] /\ CallAnswered(f)'
    BY <1>3, <1>6
  <2> QED
    BY <2>1, LineAt
<1> QED
  BY <1>4, <1>5, <1>7 DEF PipesInv

\* The answer is read, the frames are too many, or the restart failed.
LEMMA EndKeeps ==
  ASSUME McpInv, ReadReply \/ (SkipFrame /\ conn.skipped >= FrameBound) \/ RespawnFails
  PROVE  McpInv'
<1> USE DEF McpInv
<1>1. conn \in Conns /\ pipeIn \in Seq(Frames) /\ pipeOut \in Seq(Frames)
  BY DEF McpTypes
<1>2. ASSUME ReadReply PROVE McpInv'
  <2> DEFINE f == Head(pipeOut)
  <2>1. /\ conn.at = "reading" /\ pipeOut # << >> /\ f.id = conn.id
        /\ pipeOut' = Tail(pipeOut) /\ conn' = Idle(conn)
        /\ UNCHANGED <<server, pin, pipeIn, ran>>
    BY <1>2 DEF ReadReply, IsOurs
  <2>2. CallAnswered(f) /\ pipeOut' \in Seq(Frames)
    BY <1>1, <2>1, TailFacts DEF PipesInv
  <2>3. f.call \in {conn.call, NoCall}
    BY <2>1, <2>2 DEF CallAnswered
  <2>4. conn.call \in ToolCalls
    BY <2>1 DEF RequestInv
  <2>5. PICK what \in {"error", "result"} :
          /\ TellCaller(conn.call, what, f.call)
          /\ what = "result" => f.call # NoCall
    BY <1>2 DEF ReadReply
  <2>6. what = "result" => f.call = conn.call /\ ran[conn.call] = 1
    BY <2>2, <2>3, <2>4, <2>5 DEF CallAnswered
  <2>7. f.call \in McpCalls
    BY <2>2 DEF CallAnswered
  <2>8. ~server.alive => pipeIn' = << >>
    BY <2>1 DEF RequestInv
  <2> HIDE DEF f
  <2> DEFINE of == f.call
  <2>11. /\ conn.at # "free" /\ UNCHANGED <<server, pin, ran>> /\ pipeIn' \in Seq(Frames)
    BY <1>1, <2>1
  <2>12. /\ what \in Words /\ what \notin {"nothing", "undelivered"}
    BY DEF Words
  <2>13. /\ of \in McpCalls /\ TellCaller(conn.call, what, of)
         /\ what = "result" => of = conn.call /\ ran[conn.call] = 1
    BY <2>5, <2>6, <2>7
  <2> HIDE DEF of, McpInv
  <2>9. /\ McpTypes' /\ RequestInv' /\ RanInv'
        /\ \A g \in Frames : (OnTheWay(g) => OnTheWay(g)') /\ (CallAnswered(g) => CallAnswered(g)')
    BY <2>1, <2>2, <2>8, <2>11, <2>12, <2>13, WaitEnds
  <2>10. PipesInv'
    BY <2>1, <2>9, LinesKept
  <2> QED
    BY <2>9, <2>10 DEF McpInv
<1>3. ASSUME SkipFrame /\ conn.skipped >= FrameBound PROVE McpInv'
  <2>1. conn.skipped \in Nat /\ FrameBound \in Nat
    BY <1>1, ConnFields, McpAssumption
  <2>2. /\ conn.at = "reading" /\ pipeOut # << >>
        /\ pipeOut' = Tail(pipeOut) /\ conn' = Idle(conn)
        /\ TellCaller(conn.call, "failed", NoCall)
        /\ UNCHANGED <<server, pin, pipeIn, ran>>
    BY <1>3, <2>1 DEF SkipFrame
  <2>8. PICK what \in Words :
          what \notin {"nothing", "undelivered", "result"} /\ TellCaller(conn.call, what, NoCall)
    BY <2>2 DEF Words
  <2>3. pipeOut' \in Seq(Frames) /\ NoCall \in McpCalls
    BY <1>1, <2>2, TailFacts DEF McpCalls
  <2>4. ~server.alive => pipeIn' = << >>
    BY <2>2 DEF RequestInv
  <2>7. conn.at # "free" /\ UNCHANGED <<server, pin, ran>> /\ pipeIn' \in Seq(Frames)
    BY <1>1, <2>2
  <2> HIDE DEF McpInv
  <2>5. /\ McpTypes' /\ RequestInv' /\ RanInv'
        /\ \A g \in Frames : (OnTheWay(g) => OnTheWay(g)') /\ (CallAnswered(g) => CallAnswered(g)')
    BY <2>2, <2>3, <2>4, <2>7, <2>8, WaitEnds
  <2>6. PipesInv'
    BY <2>2, <2>5, LinesKept
  <2> QED
    BY <2>5, <2>6 DEF McpInv
<1>4. ASSUME RespawnFails PROVE McpInv'
  <2>1. /\ conn.at = "respawning" /\ conn' = Idle(conn)
        /\ TellCaller(conn.call, "unavailable", NoCall)
        /\ UNCHANGED <<server, pin, pipeIn, pipeOut, ran>>
    BY <1>4 DEF RespawnFails
  <2>6. PICK what \in Words :
          what \notin {"nothing", "undelivered", "result"} /\ TellCaller(conn.call, what, NoCall)
    BY <2>1 DEF Words
  <2>2. (~server.alive => pipeIn' = << >>) /\ NoCall \in McpCalls
    BY <2>1 DEF RequestInv, McpCalls
  <2>5. /\ conn.at # "free" /\ UNCHANGED <<server, pin, ran>>
        /\ pipeIn' \in Seq(Frames) /\ pipeOut' \in Seq(Frames)
    BY <1>1, <2>1
  <2> HIDE DEF McpInv
  <2>3. /\ McpTypes' /\ RequestInv' /\ RanInv'
        /\ \A g \in Frames : (OnTheWay(g) => OnTheWay(g)') /\ (CallAnswered(g) => CallAnswered(g)')
    BY <2>1, <2>2, <2>5, <2>6, WaitEnds
  <2>4. PipesInv'
    BY <2>1, <2>3, LinesKept
  <2> QED
    BY <2>3, <2>4 DEF McpInv
<1> QED
  BY <1>2, <1>3, <1>4

\* One more line is passed over.
LEMMA SkipKeeps ==
  ASSUME McpInv, SkipFrame, conn.skipped < FrameBound
  PROVE  McpInv'
<1>1. /\ pipeOut # << >> /\ pipeOut' = Tail(pipeOut)
      /\ conn' = [conn EXCEPT !.skipped = @ + 1]
      /\ UNCHANGED <<server, pin, pipeIn, told, ran>>
  BY DEF SkipFrame
<1>2. conn \in Conns /\ conn.skipped \in Nat /\ pipeOut \in Seq(Frames)
  BY ConnFields DEF McpInv, McpTypes
<1>3. /\ conn' \in Conns /\ conn'.at = conn.at /\ conn'.call = conn.call
      /\ conn'.id = conn.id /\ conn'.next = conn.next /\ conn'.sent = conn.sent
  BY <1>1, <1>2 DEF Conns
<1>4. pipeOut' \in Seq(Frames)
  BY <1>1, <1>2, TailFacts
<1>5. McpTypes'
  BY <1>1, <1>3, <1>4 DEF McpInv, McpTypes, Lifecycle
<1>6. RequestInv' /\ RanInv'
  BY <1>1, <1>3 DEF McpInv, RequestInv, RanInv
<1>7. \A f \in Frames : (OnTheWay(f) => OnTheWay(f)') /\ (CallAnswered(f) => CallAnswered(f)')
  BY <1>1, <1>3 DEF OnTheWay, CallAnswered
<1>8. PipesInv'
  BY <1>1, <1>7, LinesKept
<1> QED
  BY <1>5, <1>6, <1>8 DEF McpInv

\* A new server and empty pipes: the caller is told whether its request went out.
LEMMA RespawnKeeps ==
  ASSUME McpInv, Respawn
  PROVE  McpInv'
<1> DEFINE what == IF conn.sent THEN "unanswered" ELSE "undelivered"
<1>1. /\ conn.at = "respawning" /\ pipeIn' = << >> /\ pipeOut' = << >>
      /\ TellCaller(conn.call, what, NoCall)
      /\ UNCHANGED <<pin, ran>>
  BY DEF Respawn
<1>2. PICK s \in ServerKinds :
        Lifecycle(s) # "neither" /\ conn' = Connection(s) /\ server' = Process(s)
  BY DEF Respawn
<1>3. pin \in {"none", "legacy", "stateless"} /\ McpTypes /\ conn \in Conns
  BY DEF McpInv, McpTypes
<1>4. /\ conn.call \in ToolCalls /\ told[conn.call] = Untold
      /\ what = "undelivered" => ran[conn.call] = 0
  BY <1>1 DEF McpInv, RequestInv
<1>5. what \in Words /\ what \notin {"nothing", "result"} /\ NoCall \in McpCalls
  BY DEF Words, McpCalls
<1> HIDE DEF what
<1>6. /\ told' \in [ToolCalls -> [what : Words, of : McpCalls]]
      /\ told'[conn.call] # Untold /\ told'[conn.call].what = what
      /\ \A d \in ToolCalls \ {conn.call} : told'[d] = told[d]
  BY <1>1, <1>3, <1>4, <1>5, TellFacts
<1>7. /\ conn' \in Conns /\ conn'.at = "free" /\ conn'.id = 0 /\ conn'.next = 1
      /\ server' \in [kind : ServerKinds, alive : BOOLEAN, initialized : BOOLEAN]
      /\ server'.kind = s /\ server'.alive /\ server'.initialized = (Lifecycle(s) = "legacy")
  BY <1>2, <1>3, FreshConnection
<1>8. McpTypes'
  <2>1. << >> \in Seq(Frames)
    OBVIOUS
  <2> QED
    BY <1>1, <1>2, <1>6, <1>7, <2>1 DEF McpInv, McpTypes, Lifecycle
<1>9. RequestInv'
  BY <1>7 DEF RequestInv
<1>10. RanInv'
  <2> SUFFICES ASSUME NEW c \in ToolCalls
               PROVE  /\ ran[c] <= 1
                      /\ ran[c] > 0 => told'[c] # Untold
                      /\ told'[c].what = "result" => told'[c].of = c /\ ran[c] = 1
                      /\ told'[c].what = "undelivered" => ran[c] = 0
    BY <1>1 DEF RanInv
  <2>1. CASE c = conn.call
    BY <1>4, <1>5, <1>6, <2>1 DEF McpInv, RanInv
  <2>2. CASE c # conn.call
    BY <1>6, <2>2 DEF McpInv, RanInv
  <2> QED
    BY <2>1, <2>2
<1>11. PipesInv'
  BY <1>1 DEF PipesInv
<1> QED
  BY <1>8, <1>9, <1>10, <1>11 DEF McpInv

\* The caller stops waiting; what is left in the pipes is of no request.
LEMMA AbandonKeeps ==
  ASSUME McpInv, Abandon
  PROVE  McpInv'
<1>1. /\ conn.at # "free" /\ conn' = Idle(conn)
      /\ UNCHANGED <<server, pin, ran>>
      /\ pipeIn' = pipeIn \/ (server.alive /\ pipeIn' = Append(pipeIn, Half))
      /\ pipeOut' = pipeOut \/ (pipeOut # << >> /\ pipeOut' = [pipeOut EXCEPT ![1] = Noise])
  BY DEF Abandon
<1>2. PICK what \in Words :
        /\ what \notin {"nothing", "undelivered", "result"}
        /\ TellCaller(conn.call, what, NoCall)
  BY DEF Abandon, Words
<1>3. conn \in Conns /\ pipeIn \in Seq(Frames) /\ pipeOut \in Seq(Frames)
  BY DEF McpInv, McpTypes
<1>4. pipeIn' \in Seq(Frames) /\ pipeOut' \in Seq(Frames) /\ NoCall \in McpCalls
  <2>1. pipeIn' \in Seq(Frames)
    BY <1>1, <1>3, AppendFacts, MarkTypes
  <2>2. pipeOut # << >> => 1 \in DOMAIN pipeOut
    BY <1>3, TailFacts
  <2>3. pipeOut' \in Seq(Frames)
    BY <1>1, <1>3, <2>2, SpoilFacts, MarkTypes
  <2> QED
    BY <2>1, <2>3 DEF McpCalls
<1>5. ~server.alive => pipeIn' = << >>
  BY <1>1 DEF McpInv, RequestInv
<1>6. /\ McpTypes' /\ RequestInv' /\ RanInv'
      /\ \A f \in Frames : (OnTheWay(f) => OnTheWay(f)') /\ (CallAnswered(f) => CallAnswered(f)')
  BY <1>1, <1>2, <1>4, <1>5, WaitEnds
<1>7. conn'.at = "free" /\ conn'.next > 0
  <2>1. conn.id \in Nat /\ conn.next \in Nat /\ conn.id < conn.next
    BY <1>3, ConnFields DEF McpInv, RequestInv
  <2> QED
    BY <1>1, <1>3, <2>1, IdleFacts
<1>8. OnTheWay(Half)' /\ CallAnswered(Noise)'
  BY <1>7, MarkTypes, Marks DEF OnTheWay, CallAnswered, McpCalls
<1>9. PipesInv'
  BY <1>1, <1>6, <1>8, LinesKept
<1> QED
  BY <1>6, <1>9 DEF McpInv

-----------------------------------------------------------------------------
(* The server's steps.                                                       *)

\* A call that is run was not run before, and its reply is its own.
LEMMA RunKeeps ==
  ASSUME McpInv, ServerRuns
  PROVE  McpInv'
<1>0. PICK f, c : f = Head(pipeIn) /\ c = Head(pipeIn).call
  OBVIOUS
<1>1. /\ pipeIn # << >> /\ c \in ToolCalls /\ server.alive
      /\ pipeIn' = Tail(pipeIn) /\ ran' = [ran EXCEPT ![c] = @ + 1]
      /\ pipeOut' = pipeOut \/ pipeOut' = Append(pipeOut, f)
      /\ UNCHANGED <<server, pin, conn, told>>
  BY <1>0 DEF ServerRuns
<1>2. pipeIn \in Seq(Frames) /\ pipeOut \in Seq(Frames) /\ ran \in [ToolCalls -> Nat]
  BY DEF McpInv, McpTypes
<1>3. /\ 1 \in DOMAIN pipeIn /\ f = pipeIn[1] /\ f \in Frames /\ OnTheWay(f)
      /\ pipeIn' \in Seq(Frames)
      /\ \A i \in DOMAIN pipeIn' :
            i \in Nat \ {0} /\ i + 1 \in DOMAIN pipeIn /\ pipeIn'[i] = pipeIn[i + 1]
  <2>1. /\ 1 \in DOMAIN pipeIn /\ Head(pipeIn) = pipeIn[1] /\ Head(pipeIn) \in Frames
        /\ Tail(pipeIn) \in Seq(Frames)
        /\ \A i \in DOMAIN Tail(pipeIn) :
              i \in Nat \ {0} /\ i + 1 \in DOMAIN pipeIn /\ Tail(pipeIn)[i] = pipeIn[i + 1]
    BY <1>1, <1>2, TailFacts
  <2>2. \A i \in DOMAIN pipeIn : OnTheWay(pipeIn[i])
    BY DEF McpInv, PipesInv
  <2> QED
    BY <1>0, <1>1, <2>1, <2>2
<1>4. /\ f.call = c /\ ran[c] = 0 /\ f.id < conn.next
      /\ told[c].what \notin {"result", "undelivered"}
      /\ told[c] # Untold \/ (conn.at = "reading" /\ conn.call = c)
      /\ conn.at \in {"writing", "reading"} /\ f.id = conn.id =>
           conn.at = "reading" /\ conn.call = c
  <2>1. f.call = c
    BY <1>0
  <2> QED
    BY <1>1, <1>3, <2>1 DEF OnTheWay
<1>5. ran'[c] = 1 /\ ran' \in [ToolCalls -> Nat] /\ \A d \in ToolCalls \ {c} : ran'[d] = ran[d]
  BY <1>1, <1>2, <1>4
<1>6. /\ pipeOut' \in Seq(Frames)
      /\ \A i \in DOMAIN pipeOut' : (i \in DOMAIN pipeOut /\ pipeOut'[i] = pipeOut[i]) \/ pipeOut'[i] = f
  <2>1. f \in Frames
    BY <1>3
  <2>2. CASE pipeOut' = pipeOut
    BY <1>2, <2>2
  <2>3. CASE pipeOut' = Append(pipeOut, f)
    BY <1>2, <2>1, <2>3, AppendFacts
  <2> QED
    BY <1>1, <2>2, <2>3
<1>7. McpTypes'
  BY <1>1, <1>3, <1>5, <1>6 DEF McpInv, McpTypes, Lifecycle
<1>8. RequestInv'
  <2>1. conn.at \in {"writing", "respawning"} => conn.call # c
    BY <1>4 DEF McpInv, RequestInv
  <2> QED
    BY <1>1, <1>5, <2>1 DEF McpInv, RequestInv
<1>9. RanInv'
  <2> SUFFICES ASSUME NEW d \in ToolCalls
               PROVE  /\ ran'[d] <= 1
                      /\ ran'[d] > 0 => told[d] # Untold \/ (conn.call = d /\ conn.at # "free")
                      /\ told[d].what = "result" => told[d].of = d /\ ran'[d] = 1
                      /\ told[d].what = "undelivered" => ran'[d] = 0
    BY <1>1 DEF RanInv
  <2>1. CASE d = c
    BY <1>4, <1>5, <2>1
  <2>2. CASE d # c
    BY <1>5, <2>2 DEF McpInv, RanInv
  <2> QED
    BY <2>1, <2>2
<1>10. ASSUME NEW g \in Frames, OnTheWay(g), g.call # c
       PROVE  OnTheWay(g)'
  BY <1>1, <1>5, <1>10 DEF OnTheWay
<1>11. ASSUME NEW g \in Frames, CallAnswered(g)
       PROVE  CallAnswered(g)'
  <2>1. g.call # c
    BY <1>1, <1>4, <1>11 DEF CallAnswered
  <2> QED
    BY <1>1, <1>5, <1>11, <2>1 DEF CallAnswered
<1>12. CallAnswered(f)'
  BY <1>1, <1>4, <1>5 DEF CallAnswered, McpCalls
<1>13. ASSUME NEW i \in DOMAIN pipeIn' PROVE OnTheWay(pipeIn[i])'
  <2>1. i \in Nat \ {0} /\ i + 1 \in DOMAIN pipeIn /\ pipeIn'[i] = pipeIn[i + 1]
    BY <1>3
  <2>2. pipeIn[i + 1].call # c
    <3>1. i + 1 # 1
      BY <2>1
    <3> QED
      BY <1>1, <1>3, <1>4, <2>1, <3>1 DEF McpInv, PipesInv
  <2>3. OnTheWay(pipeIn[i + 1]) /\ pipeIn[i + 1] \in Frames
    BY <1>2, <2>1 DEF McpInv, PipesInv
  <2>4. PICK g \in Frames : g = pipeIn'[i] /\ OnTheWay(g)'
    BY <1>10, <2>1, <2>2, <2>3
  <2> QED
    BY <2>4, LineAt
<1>14. ASSUME NEW i \in DOMAIN pipeIn', NEW j \in DOMAIN pipeIn',
              pipeIn'[i].call \in ToolCalls, pipeIn'[i].call = pipeIn'[j].call
       PROVE  i = j
  <2>1. i + 1 = j + 1
    BY <1>3, <1>14 DEF McpInv, PipesInv
  <2> QED
    BY <1>3, <2>1
<1>15. ASSUME NEW i \in DOMAIN pipeOut' PROVE CallAnswered(pipeOut[i])'
  <2>1. \/ i \in DOMAIN pipeOut /\ pipeOut'[i] = pipeOut[i]
        \/ pipeOut'[i] = f
    BY <1>6
  <2>2. \A k \in DOMAIN pipeOut : pipeOut[k] \in Frames /\ CallAnswered(pipeOut[k])
    BY <1>2 DEF McpInv, PipesInv
  <2>3. PICK g \in Frames : g = pipeOut'[i] /\ CallAnswered(g)'
    BY <1>3, <1>11, <1>12, <2>1, <2>2
  <2> QED
    BY <2>3, LineAt
<1>16. PipesInv'
  BY <1>13, <1>14, <1>15 DEF PipesInv
<1> QED
  BY <1>7, <1>8, <1>9, <1>16 DEF McpInv

\* It refuses a line, or says what nobody asked for.
LEMMA RefuseKeeps ==
  ASSUME McpInv, ServerRefuses \/ ServerSpeaks
  PROVE  McpInv'
<1>1. /\ server.alive /\ UNCHANGED <<server, pin, conn, told, ran>>
      /\ pipeIn' = pipeIn \/ (pipeIn # << >> /\ pipeIn' = Tail(pipeIn))
  BY DEF ServerRefuses, ServerSpeaks
<1>2. pipeIn \in Seq(Frames) /\ pipeOut \in Seq(Frames) /\ conn \in Conns
  BY DEF McpInv, McpTypes
<1>3. pipeIn' \in Seq(Frames)
  BY <1>1, <1>2, TailFacts
<1>4. conn.id \in Nat /\ conn.next \in Nat /\ conn.id < conn.next
  BY <1>2, ConnFields DEF McpInv, RequestInv
<1>5. pipeOut' = pipeOut \/ \E f \in Frames : pipeOut' = Append(pipeOut, f) /\ CallAnswered(f)'
  <2>1. CASE ServerSpeaks
    <3>1. CallAnswered(Noise)'
      BY <1>1, <1>4, MarkTypes, Marks DEF CallAnswered, McpCalls, McpInv, RequestInv
    <3> QED
      BY <2>1, <3>1, MarkTypes DEF ServerSpeaks
  <2>2. CASE ServerRefuses
    <3>1. PICK id : id = Head(pipeIn).id
      OBVIOUS
    <3>2. /\ pipeIn # << >>
          /\ pipeOut' = pipeOut \/ pipeOut' = Append(pipeOut, Frame(id, NoCall))
      BY <2>2, <3>1 DEF ServerRefuses
    <3>3. OnTheWay(Head(pipeIn)) /\ Head(pipeIn) \in Frames
      BY <1>2, <3>2, TailFacts DEF McpInv, PipesInv
    <3>4. /\ id \in Nat /\ id < conn.next
          /\ conn.at \in {"writing", "reading"} /\ id = conn.id => conn.at = "reading"
      BY <3>1, <3>3, FrameFields DEF OnTheWay
    <3>5. PICK f \in Frames : f = Frame(id, NoCall) /\ f.id = id /\ f.call = NoCall
      BY <3>4, FrameType DEF McpCalls
    <3>6. CallAnswered(f)'
      BY <1>1, <3>4, <3>5, Marks DEF CallAnswered, McpCalls
    <3> QED
      BY <3>2, <3>5, <3>6
  <2> QED
    BY <2>1, <2>2
<1>6. pipeOut' \in Seq(Frames)
  BY <1>2, <1>5, AppendFacts
<1>7. McpTypes'
  BY <1>1, <1>3, <1>6 DEF McpInv, McpTypes, Lifecycle
<1>8. RequestInv' /\ RanInv'
  BY <1>1 DEF McpInv, RequestInv, RanInv
<1>9. \A f \in Frames : (OnTheWay(f) => OnTheWay(f)') /\ (CallAnswered(f) => CallAnswered(f)')
  BY <1>1 DEF OnTheWay, CallAnswered
<1>10. PipesInv'
  BY <1>1, <1>5, <1>9, LinesKept
<1> QED
  BY <1>7, <1>8, <1>10 DEF McpInv

\* Its process ends, and what it had not read with it.
LEMMA EndOfServerKeeps ==
  ASSUME McpInv, ServerEnds
  PROVE  McpInv'
<1>1. /\ server' = [server EXCEPT !.alive = FALSE] /\ pipeIn' = << >>
      /\ UNCHANGED <<pin, conn, pipeOut, told, ran>>
  BY DEF ServerEnds
<1>2. /\ server' \in [kind : ServerKinds, alive : BOOLEAN, initialized : BOOLEAN]
      /\ server'.kind = server.kind /\ server'.initialized = server.initialized /\ ~server'.alive
  BY <1>1 DEF McpInv, McpTypes
<1>3. McpTypes'
  <2>1. << >> \in Seq(Frames)
    OBVIOUS
  <2> QED
    BY <1>1, <1>2, <2>1 DEF McpInv, McpTypes, Lifecycle
<1>4. RequestInv' /\ RanInv'
  BY <1>1, <1>2 DEF McpInv, RequestInv, RanInv
<1>5. ASSUME NEW i \in DOMAIN pipeOut PROVE CallAnswered(pipeOut[i])'
  <2>1. CallAnswered(pipeOut[i])
    BY DEF McpInv, PipesInv
  <2> QED
    BY <1>1, <2>1 DEF CallAnswered
<1>6. PipesInv'
  BY <1>1, <1>5 DEF PipesInv
<1> QED
  BY <1>3, <1>4, <1>6 DEF McpInv

-----------------------------------------------------------------------------
(* The system. *)

LEMMA McpInitially ==
  ASSUME McpInit
  PROVE  McpInv
<1>1. /\ pin \in {"none", "legacy", "stateless"} /\ pipeIn = << >> /\ pipeOut = << >>
      /\ told = [c \in ToolCalls |-> Untold] /\ ran = [c \in ToolCalls |-> 0]
  BY DEF McpInit
<1>2. PICK s \in ServerKinds :
        Lifecycle(s) # "neither" /\ conn = Connection(s) /\ server = Process(s)
  BY DEF McpInit
<1>3. /\ conn \in Conns /\ conn.at = "free" /\ conn.id = 0 /\ conn.next = 1
      /\ server \in [kind : ServerKinds, alive : BOOLEAN, initialized : BOOLEAN]
      /\ server.kind = s /\ server.alive /\ server.initialized = (Lifecycle(s) = "legacy")
  BY <1>1, <1>2, FreshConnection
<1>4. Untold \in [what : Words, of : McpCalls] /\ Untold.what = "nothing" /\ << >> \in Seq(Frames)
  BY DEF Untold, Words, McpCalls
<1>5. McpTypes
  BY <1>1, <1>2, <1>3, <1>4 DEF McpTypes
<1>6. RequestInv /\ RanInv /\ PipesInv
  BY <1>1, <1>3, <1>4 DEF RequestInv, RanInv, PipesInv
<1> QED
  BY <1>5, <1>6 DEF McpInv

LEMMA McpStutters ==
  ASSUME McpInv, UNCHANGED mcpVars
  PROVE  McpInv'
<1> USE DEF mcpVars
<1>1. McpTypes'
  BY DEF McpInv, McpTypes, Lifecycle
<1>2. RequestInv' /\ RanInv'
  BY DEF McpInv, RequestInv, RanInv
<1>3. \A f \in Frames : (OnTheWay(f) => OnTheWay(f)') /\ (CallAnswered(f) => CallAnswered(f)')
  BY DEF OnTheWay, CallAnswered
<1>4. PipesInv'
  BY <1>3, LinesKept
<1> QED
  BY <1>1, <1>2, <1>4 DEF McpInv

\* Whatever servers say, however often they end, and whoever stops waiting: a
\* result told is its own call's, a call told undelivered never ran, none runs
\* twice, and a lifecycle that was negotiated can call.
THEOREM ResultsStayTheirOwn == McpSpec => []ResultsAreTheirOwn
<1>1. McpInit => McpInv
  BY McpInitially
<1>2. ASSUME McpInv, [McpNext]_mcpVars PROVE McpInv'
  <2>1. CASE \E c \in ToolCalls : CallTool(c)
    BY <1>2, <2>1, CallKeeps
  <2>2. CASE WriteRequest
    BY <1>2, <2>2, WriteKeeps
  <2>3. CASE WriteFails \/ ReadEnds
    BY <1>2, <2>3, GoneKeeps
  <2>4. CASE ReadReply \/ RespawnFails
    BY <1>2, <2>4, EndKeeps
  <2>5. CASE SkipFrame
    <3>1. conn.skipped \in Nat /\ FrameBound \in Nat
      BY <1>2, ConnFields, McpAssumption DEF McpInv, McpTypes
    <3>2. conn.skipped < FrameBound \/ conn.skipped >= FrameBound
      BY <3>1
    <3> QED
      BY <1>2, <2>5, <3>2, SkipKeeps, EndKeeps
  <2>6. CASE Respawn
    BY <1>2, <2>6, RespawnKeeps
  <2>7. CASE Abandon
    BY <1>2, <2>7, AbandonKeeps
  <2>8. CASE ServerRuns
    BY <1>2, <2>8, RunKeeps
  <2>9. CASE ServerRefuses \/ ServerSpeaks
    BY <1>2, <2>9, RefuseKeeps
  <2>10. CASE ServerEnds
    BY <1>2, <2>10, EndOfServerKeeps
  <2>11. CASE UNCHANGED mcpVars
    BY <1>2, <2>11, McpStutters
  <2> QED
    BY <1>2, <2>1, <2>2, <2>3, <2>4, <2>5, <2>6, <2>7, <2>8, <2>9, <2>10, <2>11
       DEF McpNext, ClientStep
<1>3. McpInv => ResultsAreTheirOwn
  BY NegotiatedTakes DEF McpInv, RanInv, ResultsAreTheirOwn
<1> QED
  BY <1>1, <1>2, <1>3, PTL DEF McpSpec

-----------------------------------------------------------------------------
(* Calls between two hosts over TCP (P2pCalls).                             *)

-----------------------------------------------------------------------------
(* The server's window, for every CallWindow.                                *)

\* What the server's window for the caller holds, heard from or not.
LEMMA CallWindowFields ==
  ASSUME NEW w \in Window!Source
  PROVE  w.heard \in BOOLEAN /\ w.highest \in Window!Ctr /\ w.seen \subseteq Window!Slot
<1>1. CASE w \in Window!Tracked
  <2>1. w.heard \in {TRUE} /\ w.highest \in Window!Ctr /\ w.seen \in SUBSET Window!Slot
    BY <1>1 DEF Window!Tracked
  <2> QED
    BY <2>1
<1>2. CASE w = Window!Unheard
  <2>1. 0 \in Window!Ctr
    BY CallsAssumption DEF Window!Ctr
  <2> QED
    BY <1>2, <2>1 DEF Window!Unheard
<1> QED
  BY <1>1, <1>2 DEF Window!Source

\* Recording a fresh counter yields a window again.
LEMMA CallRecordedType ==
  ASSUME NEW w \in Window!Source, NEW c \in Window!Ctr, Window!Fresh(w, c)
  PROVE  /\ Window!Recorded(w, c) \in Window!Source
         /\ Window!Recorded(w, c).heard
         /\ Window!Recorded(w, c).highest =
              IF ~w.heard \/ c > w.highest THEN c ELSE w.highest
<1>0. w.heard \in BOOLEAN /\ w.highest \in Window!Ctr /\ w.seen \subseteq Window!Slot
  BY CallWindowFields
<1>1. CASE ~w.heard \/ c > w.highest
  <2>1. (IF w.heard THEN Window!Slid(w.seen, c - w.highest) ELSE {}) \in SUBSET Window!Slot
    BY DEF Window!Slid
  <2> QED
    BY <1>1, <2>1 DEF Window!Recorded, Window!Source, Window!Tracked
<1>2. CASE w.heard /\ ~(c > w.highest)
  <2>1. w \in Window!Tracked
    BY <1>2 DEF Window!Source, Window!Unheard
  <2>2. c < w.highest /\ Window!Back(w, c) <= CallWindow
    BY <1>0, <1>2, CallsAssumption DEF Window!Fresh, Window!TooOld, Window!Duplicate, Window!Back, Window!Ctr
  <2>3. Window!Back(w, c) - 1 \in Window!Slot
    BY <1>0, <2>2, CallsAssumption DEF Window!Back, Window!Slot, Window!Ctr
  <2>4. w.seen \cup {Window!Back(w, c) - 1} \in SUBSET Window!Slot
    BY <1>0, <2>3
  <2> QED
    BY <1>2, <2>1, <2>4 DEF Window!Recorded, Window!Source, Window!Tracked
<1> QED
  BY <1>0, <1>1, <1>2

\* A counter the server has recorded is not fresh to it again.
LEMMA CallRecordedRefusesIt ==
  ASSUME NEW w \in Window!Source, NEW c \in Window!Ctr, Window!Fresh(w, c)
  PROVE  ~Window!Fresh(Window!Recorded(w, c), c)
<1> DEFINE n == Window!Recorded(w, c)
<1>0. w.heard \in BOOLEAN /\ w.highest \in Window!Ctr
  BY CallWindowFields
<1>1. CASE ~w.heard \/ c > w.highest
  <2>1. n.heard /\ n.highest = c
    BY <1>1, CallRecordedType
  <2> QED
    BY <2>1 DEF Window!Fresh, Window!Duplicate
<1>2. CASE w.heard /\ ~(c > w.highest)
  <2>1. w \in Window!Tracked
    BY <1>2 DEF Window!Source, Window!Unheard
  <2>2. n.heard /\ n.highest = w.highest /\ Window!Back(w, c) - 1 \in n.seen
    BY <1>2, <2>1 DEF Window!Recorded, Window!Tracked
  <2>3. c < w.highest /\ Window!Back(w, c) <= CallWindow
    BY <1>0, <1>2, CallsAssumption DEF Window!Fresh, Window!TooOld, Window!Duplicate, Window!Back, Window!Ctr
  <2> HIDE DEF n
  <2>4. Window!Back(n, c) = Window!Back(w, c)
    BY <2>2 DEF Window!Back
  <2> QED
    BY <2>2, <2>3, <2>4 DEF Window!Fresh, Window!Duplicate, n
<1> QED
  BY <1>0, <1>1, <1>2

\* Nor does recording one counter make another fresh again.
LEMMA CallRecordedKeepsRefusing ==
  ASSUME NEW w \in Window!Source, NEW c \in Window!Ctr, Window!Fresh(w, c),
         NEW d \in Window!Ctr, ~Window!Fresh(w, d)
  PROVE  ~Window!Fresh(Window!Recorded(w, c), d)
<1> DEFINE n == Window!Recorded(w, c)
<1>0. w.heard /\ w.highest \in Window!Ctr /\ w.seen \subseteq Window!Slot /\ d <= w.highest
  BY CallWindowFields DEF Window!Fresh, Window!TooOld, Window!Duplicate, Window!Ctr
<1>1. CASE c > w.highest
  <2>1. n.heard /\ n.highest = c /\ n.seen = Window!Slid(w.seen, c - w.highest)
    BY <1>0, <1>1 DEF Window!Recorded
  <2> HIDE DEF n
  <2>2. d < c /\ Window!Back(n, d) = Window!Back(w, d) + (c - w.highest)
    BY <1>0, <1>1, <2>1 DEF Window!Back, Window!Ctr
  <2>3. CASE Window!Back(n, d) > CallWindow
    BY <2>1, <2>2, <2>3 DEF Window!Fresh, Window!TooOld, n
  <2>4. CASE Window!Back(n, d) <= CallWindow
    <3>1. Window!Back(n, d) - 1 \in Window!Slot
      BY <1>0, <1>1, <2>1, <2>4, CallsAssumption DEF Window!Back, Window!Slot, Window!Ctr
    <3>2. d = w.highest \/ Window!Back(w, d) - 1 \in w.seen
      <4>1. Window!Back(w, d) <= CallWindow
        BY <1>0, <1>1, <2>2, <2>4, CallsAssumption DEF Window!Back, Window!Ctr
      <4> QED
        BY <1>0, <4>1, CallsAssumption DEF Window!Fresh, Window!TooOld, Window!Duplicate, Window!Back, Window!Ctr
    <3>3. Window!Back(n, d) - 1 \in n.seen
      <4>1. CASE d = w.highest
        <5>1. Window!Back(n, d) - 1 = (c - w.highest) - 1
          BY <2>1, <4>1 DEF Window!Back
        <5> QED
          BY <2>1, <3>1, <5>1 DEF Window!Slid
      <4>2. CASE Window!Back(w, d) - 1 \in w.seen
        <5>1. (Window!Back(n, d) - 1) - (c - w.highest) = Window!Back(w, d) - 1
          BY <1>0, <1>1, <2>2 DEF Window!Back, Window!Ctr
        <5> QED
          BY <2>1, <3>1, <4>2, <5>1 DEF Window!Slid
      <4> QED
        BY <3>2, <4>1, <4>2
    <3> QED
      BY <2>1, <2>2, <2>4, <3>3 DEF Window!Fresh, Window!Duplicate, n
  <2> QED
    BY <1>0, <1>1, <2>2, <2>3, <2>4, CallsAssumption DEF Window!Back, Window!Ctr
<1>2. CASE ~(c > w.highest)
  <2>1. w \in Window!Tracked
    BY <1>0 DEF Window!Source, Window!Unheard
  <2>2. n.heard /\ n.highest = w.highest /\ w.seen \subseteq n.seen
    BY <1>0, <1>2, <2>1 DEF Window!Recorded, Window!Tracked
  <2> HIDE DEF n
  <2>3. Window!Back(n, d) = Window!Back(w, d)
    BY <2>2 DEF Window!Back
  <2> QED
    BY <1>0, <2>2, <2>3 DEF Window!Fresh, Window!TooOld, Window!Duplicate, n
<1> QED
  BY <1>1, <1>2

-----------------------------------------------------------------------------
(* A call to a peer, for any calls, slots, clocks and counters.              *)

\* The calls, and nothing beside them.
CallsSpec == CallsInit /\ [][CallsNext]_callVars

CallOutcome ==
  {"nothing", "unknown", "unpinned", "refused", "refused before", "done", "still running"}
CallRecord ==
  [at : {"none", "connecting", "waiting", "told"}, ctr : Window!Ctr, told : CallOutcome]
InboundState ==
  [at : {"free"}] \cup [at : {"silent"}]
    \cup [at : {"read", "run"}, call : Calls, asked : BOOLEAN]
RunCount == [started : Nat, ended : Nat]

CallTypes ==
  /\ second \in Nat
  /\ nextCtr \in Nat
  /\ calls \in [Calls -> CallRecord]
  /\ inWindow \in Window!Source
  /\ knows \in [pinned : BOOLEAN, peer : BOOLEAN]
  /\ slots \in [1 .. Slots -> InboundState]
  /\ runs \in [Calls -> RunCount]
  /\ runsBefore \in [Calls -> RunCount]

\* A connection carries a request of a call that was made.
OnTheWire == \A s \in 1 .. Slots : slots[s].at \in {"read", "run"} => calls[slots[s].call] # NotMade

\* What runs was made, ran once, and is not fresh to the window; what was
\* refused never ran and is not fresh either.
RunsOnce ==
  \A c \in Calls :
    /\ runs[c].started <= 1
    /\ runs[c].started = 1 => calls[c] # NotMade /\ ~Window!Fresh(inWindow, calls[c].ctr)
    /\ calls[c].told = "refused" =>
         runs[c].started = 0 /\ ~Window!Fresh(inWindow, calls[c].ctr)

\* Who was told "done" had it run to its end.
DoneRan == \A c \in Calls : calls[c].told = "done" => runs[c].ended + runsBefore[c].ended >= 1

CallsInv == CallTypes /\ OnTheWire /\ RunsOnce /\ DoneRan

\* A call under way is not a call not made; a call not made was told nothing.
LEMMA NotMadeFields == NotMade.at = "none" /\ NotMade.told = "nothing"
BY DEF NotMade

\* Telling the caller of one call how it went keeps its counter, changes no
\* other call, and tells nothing new unless that is what is told.
LEMMA ToldOne ==
  ASSUME CallTypes, NEW c \in Calls, calls[c].at # "none", NEW what \in CallOutcome,
         NEW d \in Calls
  PROVE  /\ Tell(c, what) \in [Calls -> CallRecord]
         /\ Tell(c, what)[d].ctr = calls[d].ctr
         /\ d # c => Tell(c, what)[d] = calls[d]
         /\ calls[d] # NotMade => Tell(c, what)[d] # NotMade
         /\ Tell(c, what)[c].told = what
<1>1. calls[c] \in CallRecord
  BY DEF CallTypes
<1>2. Tell(c, what)[c] = [calls[c] EXCEPT !.at = "told", !.told = what]
  BY DEF CallTypes, Tell
<1>3. Tell(c, what)[c] \in CallRecord /\ Tell(c, what)[c].at = "told"
  BY <1>1, <1>2 DEF CallRecord
<1>4. Tell(c, what) \in [Calls -> CallRecord]
  BY <1>1, <1>2, <1>3 DEF CallTypes, Tell
<1> QED
  BY <1>1, <1>2, <1>3, <1>4, NotMadeFields DEF CallTypes, Tell, CallRecord

\* A step that leaves the counters, the windows and the runs alone, and tells
\* nobody "done" or "refused".
LEMMA ToldNothingKeeps ==
  ASSUME CallsInv, CallTypes', UNCHANGED <<inWindow, runs, runsBefore>>,
         \A c \in Calls : /\ calls'[c].told \notin {"done", "refused"} \/ calls'[c].told = calls[c].told
                          /\ calls[c] # NotMade => calls'[c] # NotMade /\ calls'[c].ctr = calls[c].ctr
                          /\ calls[c] = NotMade => runs[c].started = 0 /\ calls'[c].told \notin {"done", "refused"},
         \A s \in 1 .. Slots : slots'[s] = slots[s] \/ slots'[s].at \notin {"read", "run"}
                                  \/ calls[slots'[s].call] # NotMade,
         \A s \in 1 .. Slots : slots'[s].at \in {"read", "run"} => slots'[s].call \in Calls
  PROVE  CallsInv'
<1>1. OnTheWire'
  BY DEF CallsInv, OnTheWire, CallTypes, InboundState
<1>2. RunsOnce'
  <2> SUFFICES ASSUME NEW c \in Calls
               PROVE  /\ runs[c].started <= 1
                      /\ runs[c].started = 1 => calls'[c] # NotMade /\ ~Window!Fresh(inWindow, calls'[c].ctr)
                      /\ calls'[c].told = "refused" =>
                           runs[c].started = 0 /\ ~Window!Fresh(inWindow, calls'[c].ctr)
    BY DEF RunsOnce
  <2> QED
    BY DEF CallsInv, RunsOnce
<1>3. DoneRan'
  BY DEF CallsInv, DoneRan
<1> QED
  BY <1>1, <1>2, <1>3 DEF CallsInv

\* A call not made has not run, and is not the call of a connection.
LEMMA NotMadeNotRun ==
  ASSUME CallsInv, NEW c \in Calls, calls[c] = NotMade
  PROVE  runs[c].started = 0
BY DEF CallsInv, RunsOnce, CallTypes, RunCount

\* A connection being handled carries a call that was made.
LEMMA SlotCall ==
  ASSUME CallsInv, NEW s \in 1 .. Slots, slots[s].at \in {"read", "run"}
  PROVE  /\ slots[s].call \in Calls
         /\ slots[s].asked \in BOOLEAN
         /\ calls[slots[s].call] # NotMade
BY DEF CallsInv, CallTypes, InboundState, OnTheWire

\* The caller's own steps: a call is made, given up, or cut off with its
\* process; a connection takes a call that is under way.
LEMMA CallerKeepsCalls ==
  ASSUME CallsInv, NEW c \in Calls, Invoke(c) \/ GiveUp(c) \/ Accept(c) \/ AcceptCopy(c)
  PROVE  CallsInv'
<1>0. CallTypes
  BY DEF CallsInv
<1>1. CASE Invoke(c)
  <2>1. NextCounter \in Nat /\ NextCounter \in Window!Ctr
    BY <1>0, <1>1, CallsAssumption DEF CallTypes, NextCounter, Invoke, Window!Ctr
  <2>2. /\ calls[c] = NotMade
        /\ calls' = [calls EXCEPT ![c] = [@ EXCEPT !.at = "connecting", !.ctr = NextCounter]]
        /\ nextCtr' = NextCounter + 1
        /\ UNCHANGED <<second, inWindow, knows, slots, runs, runsBefore>>
    BY <1>1 DEF Invoke
  <2>3. calls'[c] \in CallRecord /\ calls'[c].at = "connecting" /\ calls'[c].told = "nothing"
    BY <1>0, <2>1, <2>2, NotMadeFields DEF CallTypes, CallRecord
  <2>4. \A d \in Calls : d # c => calls'[d] = calls[d]
    BY <1>0, <2>2 DEF CallTypes
  <2>5. CallTypes'
    BY <1>0, <2>1, <2>2, <2>3 DEF CallTypes
  <2>6. \A d \in Calls : calls[d] = NotMade => calls[d].told = "nothing" /\ runs[d].started = 0
    BY NotMadeNotRun, NotMadeFields
  <2> QED
    BY <1>0, <2>2, <2>3, <2>4, <2>5, <2>6, ToldNothingKeeps DEF CallTypes, InboundState
<1>2. CASE GiveUp(c)
  <2>1. calls' = Tell(c, "unknown") /\ calls[c].at # "none" /\ "unknown" \in CallOutcome
        /\ UNCHANGED <<second, nextCtr, inWindow, knows, slots, runs, runsBefore>>
    BY <1>2 DEF GiveUp, CallOutcome
  <2>2. CallTypes'
    BY <1>0, <2>1, ToldOne DEF CallTypes
  <2>3. \A d \in Calls : /\ calls'[d].ctr = calls[d].ctr
                         /\ d # c => calls'[d] = calls[d]
                         /\ calls[d] # NotMade => calls'[d] # NotMade
                         /\ calls'[c].told = "unknown"
    BY <1>0, <2>1, ToldOne
  <2>4. calls[c] # NotMade
    BY <2>1, NotMadeFields
  <2>5. \A d \in Calls : calls[d] = NotMade => calls[d].told = "nothing" /\ runs[d].started = 0
    BY NotMadeNotRun, NotMadeFields
  <2> QED
    BY <1>0, <2>1, <2>2, <2>3, <2>4, <2>5, ToldNothingKeeps DEF CallTypes, InboundState
<1>3. CASE Accept(c)
  <2>1. PICK s \in 1 .. Slots : slots' = [slots EXCEPT ![s] = [at |-> "read", call |-> c, asked |-> TRUE]]
    BY <1>0, <1>3 DEF Accept, Free, CallTypes
  <2>2. /\ calls[c].at = "connecting"
        /\ calls' = [calls EXCEPT ![c].at = "waiting"]
        /\ UNCHANGED <<second, nextCtr, inWindow, knows, runs, runsBefore>>
    BY <1>3 DEF Accept
  <2>3. [at |-> "read", call |-> c, asked |-> TRUE] \in InboundState
    BY DEF InboundState
  <2>4. /\ calls'[c] \in CallRecord /\ calls'[c].at = "waiting"
        /\ calls'[c].ctr = calls[c].ctr /\ calls'[c].told = calls[c].told
        /\ \A d \in Calls : d # c => calls'[d] = calls[d]
    BY <1>0, <2>2 DEF CallTypes, CallRecord
  <2>5. CallTypes'
    BY <1>0, <2>1, <2>2, <2>3, <2>4 DEF CallTypes
  <2>6. calls[c] # NotMade /\ calls'[c] # NotMade
    BY <2>2, <2>4, NotMadeFields
  <2>7. \A d \in Calls : calls[d] = NotMade => calls[d].told = "nothing" /\ runs[d].started = 0
    BY NotMadeNotRun, NotMadeFields
  <2>8. \A t \in 1 .. Slots : slots'[t] = slots[t] \/ slots'[t].call = c
    BY <1>0, <2>1 DEF CallTypes
  <2>9. \A t \in 1 .. Slots : slots'[t].at \in {"read", "run"} => slots'[t].call \in Calls
    BY <1>0, <2>8 DEF CallTypes, InboundState
  <2> QED
    BY <2>2, <2>4, <2>5, <2>6, <2>7, <2>8, <2>9, ToldNothingKeeps
<1>4. CASE AcceptCopy(c)
  <2>1. PICK s \in 1 .. Slots : slots' = [slots EXCEPT ![s] = [at |-> "read", call |-> c, asked |-> FALSE]]
    BY <1>0, <1>4 DEF AcceptCopy, Free, CallTypes
  <2>2. calls[c] # NotMade /\ UNCHANGED <<second, nextCtr, calls, inWindow, knows, runs, runsBefore>>
    BY <1>4 DEF AcceptCopy
  <2>3. [at |-> "read", call |-> c, asked |-> FALSE] \in InboundState
    BY DEF InboundState
  <2>5. CallTypes'
    BY <1>0, <2>1, <2>2, <2>3 DEF CallTypes
  <2>7. \A d \in Calls : calls[d] = NotMade => calls[d].told = "nothing" /\ runs[d].started = 0
    BY NotMadeNotRun, NotMadeFields
  <2>8. \A t \in 1 .. Slots : slots'[t] = slots[t] \/ slots'[t].call = c
    BY <1>0, <2>1 DEF CallTypes
  <2>9. \A t \in 1 .. Slots : slots'[t].at \in {"read", "run"} => slots'[t].call \in Calls
    BY <1>0, <2>8 DEF CallTypes, InboundState
  <2> QED
    BY <2>2, <2>5, <2>7, <2>8, <2>9, ToldNothingKeeps
<1> QED
  BY <1>1, <1>2, <1>3, <1>4

\* A connection answers: its own call is told that and nothing else, no other
\* call is told anything.
LEMMA AnsweredFields ==
  ASSUME CallsInv, NEW s \in 1 .. Slots, slots[s].at \in {"read", "run"},
         NEW what \in CallOutcome, Answered(s, what)
  PROVE  /\ calls' \in [Calls -> CallRecord]
         /\ \A d \in Calls :
              /\ calls'[d].ctr = calls[d].ctr
              /\ calls'[d].told = calls[d].told \/ (d = slots[s].call /\ calls'[d].told = what)
              /\ calls[d] # NotMade => calls'[d] # NotMade
              /\ calls[d] = NotMade => calls'[d] = calls[d]
<1>0. CallTypes
  BY DEF CallsInv
<1>1. slots[s].call \in Calls /\ calls[slots[s].call] # NotMade
  BY SlotCall
<1>2. CASE calls' = calls
  <2>1. calls \in [Calls -> CallRecord]
    BY <1>0 DEF CallTypes
  <2> QED
    BY <1>2, <2>1
<1>3. CASE calls[slots[s].call].at = "waiting" /\ calls' = Tell(slots[s].call, what)
  <2>1. calls[slots[s].call].at # "none"
    BY <1>3
  <2>2. \A d \in Calls :
          /\ calls' \in [Calls -> CallRecord]
          /\ calls'[d].ctr = calls[d].ctr
          /\ d # slots[s].call => calls'[d] = calls[d]
          /\ calls[d] # NotMade => calls'[d] # NotMade
          /\ calls'[slots[s].call].told = what
    BY <1>0, <1>1, <1>3, <2>1, ToldOne
  <2> QED
    BY <1>1, <2>2
<1> QED
  BY <1>2, <1>3 DEF Answered

\* What closing a connection leaves.
LEMMA ClosedFields ==
  ASSUME CallsInv, NEW s \in 1 .. Slots, Closed(s)
  PROVE  /\ slots' \in [1 .. Slots -> InboundState]
         /\ \A t \in 1 .. Slots : slots'[t] = slots[t] \/ slots'[t].at = "free"
<1>1. NoConn \in InboundState /\ NoConn.at = "free"
  BY DEF NoConn, InboundState
<1> QED
  BY <1>1 DEF CallsInv, CallTypes, Closed

\* A connection closed with an answer that is neither "done" nor "refused".
LEMMA TurnedAwayKeepsCalls ==
  ASSUME CallsInv, NEW s \in 1 .. Slots,
         AnswerUnpinned(s) \/ DropStale(s) \/ ToolTimesOut(s)
  PROVE  CallsInv'
<1>1. PICK what \in CallOutcome : what \notin {"done", "refused"} /\ Answered(s, what)
  BY DEF AnswerUnpinned, DropStale, ToolTimesOut, CallOutcome
<1>2. /\ slots[s].at \in {"read", "run"} /\ Closed(s)
      /\ UNCHANGED <<second, nextCtr, inWindow, knows, runs, runsBefore>>
  BY DEF AnswerUnpinned, DropStale, ToolTimesOut
<1>3. /\ calls' \in [Calls -> CallRecord]
      /\ \A d \in Calls :
              /\ calls'[d].ctr = calls[d].ctr
              /\ calls'[d].told = calls[d].told \/ (d = slots[s].call /\ calls'[d].told = what)
              /\ calls[d] # NotMade => calls'[d] # NotMade
              /\ calls[d] = NotMade => calls'[d] = calls[d]
  BY <1>1, <1>2, AnsweredFields
<1>4. /\ slots' \in [1 .. Slots -> InboundState]
      /\ \A t \in 1 .. Slots : slots'[t] = slots[t] \/ slots'[t].at = "free"
  BY <1>2, ClosedFields
<1>5. CallTypes'
  BY <1>2, <1>3, <1>4 DEF CallsInv, CallTypes
<1>6. \A d \in Calls : calls[d] = NotMade => calls[d].told = "nothing" /\ runs[d].started = 0
  BY NotMadeNotRun, NotMadeFields
<1>7. \A t \in 1 .. Slots : slots'[t].at \in {"read", "run"} => slots'[t].call \in Calls
  BY <1>4 DEF CallsInv, CallTypes, InboundState
<1> QED
  BY <1>1, <1>2, <1>3, <1>4, <1>5, <1>6, <1>7, ToldNothingKeeps

\* A verified request is fresh, and recorded; what was not fresh stays so.
LEMMA VerifiedWindow ==
  ASSUME CallsInv, NEW s \in 1 .. Slots, Verified(s)
  PROVE  /\ inWindow' \in Window!Source
         /\ Window!Fresh(inWindow, calls[slots[s].call].ctr)
         /\ ~Window!Fresh(inWindow', calls[slots[s].call].ctr)
         /\ \A d \in Calls : ~Window!Fresh(inWindow, calls[d].ctr) => ~Window!Fresh(inWindow', calls[d].ctr)
<1>1. slots[s].call \in Calls
  BY SlotCall DEF Verified
<1>2. \A d \in Calls : calls[d].ctr \in Window!Ctr
  BY DEF CallsInv, CallTypes, CallRecord
<1>3. /\ inWindow \in Window!Source
      /\ Window!Fresh(inWindow, SlotCtr(s))
      /\ inWindow' = Window!Recorded(inWindow, SlotCtr(s))
      /\ SlotCtr(s) = calls[slots[s].call].ctr
  BY DEF CallsInv, CallTypes, Verified, SlotCtr
<1>4. SlotCtr(s) \in Window!Ctr
  BY <1>1, <1>2, <1>3
<1>5. inWindow' \in Window!Source
  BY <1>3, <1>4, CallRecordedType
<1>6. ~Window!Fresh(inWindow', SlotCtr(s))
  BY <1>3, <1>4, CallRecordedRefusesIt
<1>7. \A d \in Calls : ~Window!Fresh(inWindow, calls[d].ctr) => ~Window!Fresh(inWindow', calls[d].ctr)
  BY <1>2, <1>3, <1>4, CallRecordedKeepsRefusing
<1> QED
  BY <1>3, <1>5, <1>6, <1>7

\* A request refused had not run, and will not: its counter is recorded.
LEMMA RefuseKeepsCalls ==
  ASSUME CallsInv, NEW s \in 1 .. Slots, Refuse(s)
  PROVE  CallsInv'
<1>1. /\ Verified(s) /\ slots[s].at = "read" /\ Answered(s, "refused") /\ Closed(s)
      /\ UNCHANGED <<second, nextCtr, knows, runs, runsBefore>> /\ "refused" \in CallOutcome
  BY DEF Refuse, Verified, CallOutcome
<1>2. /\ calls' \in [Calls -> CallRecord]
      /\ \A d \in Calls :
              /\ calls'[d].ctr = calls[d].ctr
              /\ calls'[d].told = calls[d].told \/ (d = slots[s].call /\ calls'[d].told = "refused")
              /\ calls[d] # NotMade => calls'[d] # NotMade
              /\ calls[d] = NotMade => calls'[d] = calls[d]
  BY <1>1, AnsweredFields
<1>3. /\ slots' \in [1 .. Slots -> InboundState]
      /\ \A t \in 1 .. Slots : slots'[t] = slots[t] \/ slots'[t].at = "free"
  BY <1>1, ClosedFields
<1>4. slots[s].call \in Calls
  BY <1>1, SlotCall
<1>5. CallTypes'
  BY <1>1, <1>2, <1>3, VerifiedWindow DEF CallsInv, CallTypes
<1>6. OnTheWire'
  BY <1>2, <1>3 DEF CallsInv, OnTheWire, CallTypes, InboundState
<1>7. RunsOnce'
  <2> SUFFICES ASSUME NEW d \in Calls
               PROVE  /\ runs[d].started <= 1
                      /\ runs[d].started = 1 => calls'[d] # NotMade /\ ~Window!Fresh(inWindow', calls'[d].ctr)
                      /\ calls'[d].told = "refused" =>
                           runs[d].started = 0 /\ ~Window!Fresh(inWindow', calls'[d].ctr)
    BY <1>1 DEF RunsOnce
  <2>1. runs[d].started \in Nat
    BY DEF CallsInv, CallTypes, RunCount
  <2>2. d = slots[s].call => runs[d].started = 0 /\ ~Window!Fresh(inWindow', calls[d].ctr)
    BY <1>1, <2>1, VerifiedWindow DEF CallsInv, RunsOnce
  <2> QED
    BY <1>1, <1>2, <2>1, <2>2, VerifiedWindow DEF CallsInv, RunsOnce
<1>8. DoneRan'
  BY <1>1, <1>2 DEF CallsInv, DoneRan
<1> QED
  BY <1>5, <1>6, <1>7, <1>8 DEF CallsInv

\* A run begins once: its request was fresh, and is so no more.
LEMMA RunToolKeepsCalls ==
  ASSUME CallsInv, NEW s \in 1 .. Slots, RunTool(s)
  PROVE  CallsInv'
<1> DEFINE c == slots[s].call
<1>1. /\ Verified(s) /\ slots[s].at = "read"
      /\ slots' = [slots EXCEPT ![s].at = "run"]
      /\ runs' = [runs EXCEPT ![c].started = @ + 1]
      /\ UNCHANGED <<second, nextCtr, calls, knows, runsBefore>>
  BY DEF RunTool, Verified
<1>2. c \in Calls /\ calls[c] # NotMade /\ slots[s].asked \in BOOLEAN
  BY <1>1, SlotCall
<1> HIDE DEF c
<1>3. /\ slots' \in [1 .. Slots -> InboundState]
      /\ \A t \in 1 .. Slots : slots'[t] = slots[t] \/ (t = s /\ slots'[t].call = c)
  <2>1. slots \in [1 .. Slots -> InboundState] /\ slots[s] \in InboundState
    BY DEF CallsInv, CallTypes
  <2>2. [slots[s] EXCEPT !.at = "run"] \in InboundState /\ [slots[s] EXCEPT !.at = "run"].call = c
    BY <1>1, <2>1 DEF InboundState, c
  <2> QED
    BY <1>1, <2>1, <2>2
<1>4. /\ runs \in [Calls -> RunCount] /\ runs' \in [Calls -> RunCount]
      /\ runs'[c].started = runs[c].started + 1 /\ runs'[c].ended = runs[c].ended
      /\ \A d \in Calls : d # c => runs'[d] = runs[d]
  <2>1. runs \in [Calls -> RunCount] /\ runs[c] \in RunCount
    BY <1>2 DEF CallsInv, CallTypes
  <2>2. [runs[c] EXCEPT !.started = @ + 1] \in RunCount
    BY <2>1 DEF RunCount
  <2>3. runs' = [runs EXCEPT ![c] = [runs[c] EXCEPT !.started = @ + 1]]
    BY <1>1
  <2> QED
    BY <1>2, <2>1, <2>2, <2>3 DEF RunCount
<1>5. CallTypes'
  BY <1>1, <1>3, <1>4, VerifiedWindow DEF CallsInv, CallTypes
<1>6. OnTheWire'
  BY <1>1, <1>2, <1>3 DEF CallsInv, OnTheWire
<1>7. RunsOnce'
  <2> SUFFICES ASSUME NEW d \in Calls
               PROVE  /\ runs'[d].started <= 1
                      /\ runs'[d].started = 1 => calls[d] # NotMade /\ ~Window!Fresh(inWindow', calls[d].ctr)
                      /\ calls[d].told = "refused" =>
                           runs'[d].started = 0 /\ ~Window!Fresh(inWindow', calls[d].ctr)
    BY <1>1 DEF RunsOnce
  <2>1. runs[d].started \in Nat
    BY <1>4 DEF RunCount
  <2>2. Window!Fresh(inWindow, calls[c].ctr) /\ ~Window!Fresh(inWindow', calls[c].ctr)
    BY <1>1, VerifiedWindow DEF c
  <2>3. CASE d = c
    BY <1>2, <1>4, <2>1, <2>2, <2>3 DEF CallsInv, RunsOnce
  <2>4. CASE d # c
    BY <1>1, <1>4, <2>4, VerifiedWindow DEF CallsInv, RunsOnce
  <2> QED
    BY <2>3, <2>4
<1>8. DoneRan'
  BY <1>1, <1>4 DEF CallsInv, DoneRan
<1> QED
  BY <1>5, <1>6, <1>7, <1>8 DEF CallsInv

\* A run ends before anyone is told that it did.
LEMMA RunEndsKeepsCalls ==
  ASSUME CallsInv, NEW c \in Calls, RunEnds(c)
  PROVE  CallsInv'
<1>1. /\ runs[c].started > runs[c].ended
      /\ runs' = [runs EXCEPT ![c].ended = @ + 1]
      /\ UNCHANGED <<second, nextCtr, inWindow, knows, runsBefore>>
  BY DEF RunEnds, Running
<1>2. /\ runs \in [Calls -> RunCount] /\ runs' \in [Calls -> RunCount]
      /\ runs'[c].ended = runs[c].ended + 1
      /\ \A d \in Calls : runs'[d].started = runs[d].started
      /\ \A d \in Calls : d # c => runs'[d] = runs[d]
  BY <1>1 DEF CallsInv, CallTypes, RunCount
<1>3. /\ slots' \in [1 .. Slots -> InboundState]
      /\ \A t \in 1 .. Slots : slots'[t] = slots[t] \/ slots'[t].at = "free"
      /\ calls' \in [Calls -> CallRecord]
      /\ \A d \in Calls :
              /\ calls'[d].ctr = calls[d].ctr
              /\ calls'[d].told = calls[d].told \/ (d = c /\ calls'[d].told = "done")
              /\ calls[d] # NotMade => calls'[d] # NotMade
              /\ calls[d] = NotMade => calls'[d] = calls[d]
  <2>1. CASE UNCHANGED <<calls, slots>>
    <3>1. slots \in [1 .. Slots -> InboundState] /\ calls \in [Calls -> CallRecord]
      BY DEF CallsInv, CallTypes
    <3> QED
      BY <2>1, <3>1
  <2>2. CASE \E s \in DOMAIN slots : slots[s].at = "run" /\ slots[s].call = c /\ Answered(s, "done") /\ Closed(s)
    <3>1. PICK s \in 1 .. Slots : slots[s].at = "run" /\ slots[s].call = c /\ Answered(s, "done") /\ Closed(s)
      BY <2>2 DEF CallsInv, CallTypes
    <3>2. "done" \in CallOutcome
      BY DEF CallOutcome
    <3> QED
      BY <3>1, <3>2, AnsweredFields, ClosedFields
  <2> QED
    BY <2>1, <2>2 DEF RunEnds
<1>4. CallTypes'
  BY <1>1, <1>2, <1>3 DEF CallsInv, CallTypes
<1>5. OnTheWire'
  BY <1>3 DEF CallsInv, OnTheWire, CallTypes, InboundState
<1>6. RunsOnce'
  BY <1>1, <1>2, <1>3 DEF CallsInv, RunsOnce
<1>7. DoneRan'
  <2> SUFFICES ASSUME NEW d \in Calls, calls'[d].told = "done"
               PROVE  runs'[d].ended + runsBefore[d].ended >= 1
    BY <1>1 DEF DoneRan
  <2>1. runs[d].ended \in Nat /\ runsBefore[d].ended \in Nat
    BY <1>2 DEF CallsInv, CallTypes, RunCount
  <2> QED
    BY <1>2, <1>3, <2>1 DEF CallsInv, DoneRan
<1> QED
  BY <1>4, <1>5, <1>6, <1>7 DEF CallsInv

\* The server's process ends: what it refused, it refused before, what it ran
\* it ran before, and its window begins anew.
LEMMA ServerRestartKeepsCalls ==
  ASSUME CallsInv, ServerRestarts
  PROVE  CallsInv'
<1>1. /\ inWindow' = Window!Unheard
      /\ knows' = [knows EXCEPT !.peer = FALSE]
      /\ slots' = [s \in DOMAIN slots |-> NoConn]
      /\ runs' = [c \in Calls |-> NotRun]
      /\ runsBefore' = [c \in Calls |->
           [started |-> runsBefore[c].started + runs[c].started,
            ended |-> runsBefore[c].ended + runs[c].ended]]
      /\ UNCHANGED <<second, nextCtr>>
  BY DEF ServerRestarts
<1>2. ASSUME NEW c \in Calls
      PROVE  calls'[c] \in CallRecord /\ calls'[c].told # "refused"
             /\ (calls'[c].told = "done" => calls[c].told = "done")
  <2>1. calls[c] \in CallRecord
    BY DEF CallsInv, CallTypes
  <2>2. calls'[c] = CASE calls[c].at = "waiting" -> [calls[c] EXCEPT !.at = "told", !.told = "unknown"]
                      [] calls[c].told = "refused" -> [calls[c] EXCEPT !.told = "refused before"]
                      [] OTHER -> calls[c]
    BY DEF ServerRestarts
  <2>3. CASE calls[c].at = "waiting" /\ calls'[c] = [calls[c] EXCEPT !.at = "told", !.told = "unknown"]
    BY <2>1, <2>3 DEF CallRecord, CallOutcome
  <2>4. CASE calls[c].told = "refused" /\ calls'[c] = [calls[c] EXCEPT !.told = "refused before"]
    BY <2>1, <2>4 DEF CallRecord, CallOutcome
  <2>5. CASE calls[c].told # "refused" /\ calls'[c] = calls[c]
    BY <2>1, <2>5
  <2> QED
    BY <2>2, <2>3, <2>4, <2>5
<1>3. calls' \in [Calls -> CallRecord]
  <2> DEFINE after(c) ==
        CASE calls[c].at = "waiting" -> [calls[c] EXCEPT !.at = "told", !.told = "unknown"]
          [] calls[c].told = "refused" -> [calls[c] EXCEPT !.told = "refused before"]
          [] OTHER -> calls[c]
  <2>1. calls' = [c \in Calls |-> after(c)]
    BY DEF ServerRestarts
  <2> HIDE DEF after
  <2> QED
    BY <1>2, <2>1
<1>4. CallTypes'
  <2>1. Window!Unheard \in Window!Source
    BY DEF Window!Source
  <2>2. slots' \in [1 .. Slots -> InboundState]
    BY <1>1 DEF CallsInv, CallTypes, InboundState, NoConn
  <2>3. runs' \in [Calls -> RunCount] /\ runsBefore' \in [Calls -> RunCount]
    BY <1>1 DEF CallsInv, CallTypes, RunCount, NotRun
  <2>4. knows' \in [pinned : BOOLEAN, peer : BOOLEAN]
    BY <1>1 DEF CallsInv, CallTypes
  <2> QED
    BY <1>1, <1>3, <2>1, <2>2, <2>3, <2>4 DEF CallsInv, CallTypes
<1>5. OnTheWire'
  BY <1>1 DEF OnTheWire, NoConn, CallsInv, CallTypes
<1>6. RunsOnce'
  BY <1>1, <1>2 DEF RunsOnce, NotRun
<1>7. DoneRan'
  BY <1>1, <1>2 DEF CallsInv, CallTypes, RunCount, DoneRan, NotRun
<1> QED
  BY <1>4, <1>5, <1>6, <1>7 DEF CallsInv

\* Every step of the caller and of the server keeps the invariant.
LEMMA CallsStep ==
  ASSUME CallsInv, [CallsNext]_callVars
  PROVE  CallsInv'
<1>0. CallTypes
  BY DEF CallsInv
<1>1. CASE CallerRestarts
  <2>1. ASSUME NEW c \in Calls
        PROVE  /\ calls'[c] \in CallRecord
               /\ calls'[c].ctr = calls[c].ctr
               /\ calls'[c].told = "unknown" \/ calls'[c] = calls[c]
               /\ calls[c] # NotMade => calls'[c] # NotMade
               /\ calls[c] = NotMade => calls'[c] = calls[c]
    <3>1. calls[c] \in CallRecord
      BY <1>0 DEF CallTypes
    <3>2. \/ calls'[c] = [calls[c] EXCEPT !.at = "told", !.told = "unknown"] /\ calls[c].at # "none"
          \/ calls'[c] = calls[c]
      BY <1>1 DEF CallerRestarts
    <3> QED
      BY <3>1, <3>2, NotMadeFields DEF CallRecord, CallOutcome
  <2>2. nextCtr' = 0 /\ UNCHANGED <<second, inWindow, knows, slots, runs, runsBefore>>
        /\ calls' = [c \in Calls |-> calls'[c]]
    BY <1>1 DEF CallerRestarts
  <2>3. CallTypes'
    BY <1>0, <2>1, <2>2 DEF CallTypes
  <2>4. \A d \in Calls : calls[d] = NotMade => calls[d].told = "nothing" /\ runs[d].started = 0
    BY NotMadeNotRun, NotMadeFields
  <2> QED
    BY <1>0, <2>1, <2>2, <2>3, <2>4, ToldNothingKeeps DEF CallTypes, InboundState
<1>2. CASE SecondPasses \/ KnowsChange \/ UNCHANGED callVars
  <2>1. UNCHANGED <<calls, inWindow, slots, runs, runsBefore>>
    BY <1>2 DEF SecondPasses, KnowsChange, callVars
  <2>2. CallTypes'
    BY <1>0, <1>2 DEF CallTypes, SecondPasses, KnowsChange, callVars
  <2> QED
    BY <2>1, <2>2 DEF CallsInv, OnTheWire, RunsOnce, DoneRan
<1>3. CASE AcceptSilent \/ \E s \in 1 .. Slots : ReadTimesOut(s)
  <2>1. PICK s \in 1 .. Slots : \E k \in {NoConn, [at |-> "silent"]} : slots' = [slots EXCEPT ![s] = k]
    BY <1>0, <1>3 DEF AcceptSilent, ReadTimesOut, Free, CallTypes
  <2>2. UNCHANGED <<second, nextCtr, calls, inWindow, knows, runs, runsBefore>>
    BY <1>3 DEF AcceptSilent, ReadTimesOut
  <2>3. NoConn \in InboundState /\ NoConn.at = "free" /\ [at |-> "silent"] \in InboundState
    BY DEF NoConn, InboundState
  <2>4. CallTypes'
    BY <1>0, <2>1, <2>2, <2>3 DEF CallTypes
  <2>5. \A t \in 1 .. Slots : slots'[t] = slots[t] \/ slots'[t].at \notin {"read", "run"}
    BY <1>0, <2>1, <2>3 DEF CallTypes
  <2> QED
    BY <2>2, <2>4, <2>5 DEF CallsInv, OnTheWire, RunsOnce, DoneRan
<1>4. CASE \E c \in Calls : Invoke(c) \/ GiveUp(c) \/ Accept(c) \/ AcceptCopy(c)
  BY <1>4, CallerKeepsCalls
<1>5. CASE \E s \in 1 .. Slots : AnswerUnpinned(s) \/ DropStale(s) \/ ToolTimesOut(s)
  BY <1>5, TurnedAwayKeepsCalls
<1> QED
  BY <1>1, <1>2, <1>3, <1>4, <1>5, RefuseKeepsCalls, RunToolKeepsCalls, RunEndsKeepsCalls,
     ServerRestartKeepsCalls DEF CallsNext

\* The first state.
LEMMA CallsInitInv ==
  ASSUME CallsInit
  PROVE  CallsInv
<1>1. NotMade \in CallRecord /\ NotMade.told = "nothing"
  BY CallsAssumption DEF NotMade, CallRecord, CallOutcome, Window!Ctr
<1>2. Window!Unheard \in Window!Source /\ NoConn \in InboundState /\ NotRun \in RunCount
  BY DEF Window!Source, NoConn, InboundState, NotRun, RunCount
<1>3. CallTypes
  BY <1>1, <1>2 DEF CallsInit, CallTypes
<1> QED
  BY <1>1, <1>3 DEF CallsInit, CallsInv, OnTheWire, RunsOnce, DoneRan, NoConn, NotRun

\* While a server lives a request runs at most once, sent again or not; a
\* caller told "done" had it run to its end, and one whose verified request was
\* refused has it not run later by that server (answer and run_for_peer).
THEOREM ToldIsTrueHolds == CallsSpec => []ToldIsTrue
<1>1. CallsInit => CallsInv
  BY CallsInitInv
<1>2. CallsInv /\ [CallsNext]_callVars => CallsInv'
  BY CallsStep
<1>3. CallsInv => ToldIsTrue
  BY DEF CallsInv, RunsOnce, DoneRan, ToldIsTrue
<1> QED
  BY <1>1, <1>2, <1>3, PTL DEF CallsSpec

-----------------------------------------------------------------------------
(* Frames relayed between hosts (MeshFlood).                                *)

\* The flood, and nothing beside it.
FloodSpec == FloodInit /\ [][FloodNext]_floodVars

FloodTypes ==
  /\ inFlight \subseteq [to : Hosts, id : Ids, ttl : Nat]
  /\ seen \in [Hosts -> Seq(Ids)]
  /\ ingested \in [Hosts -> Seq(Ids)]

\* A host remembers all it took in of late but, once there are too many, the
\* first.
RemembersLast(h) ==
  /\ Len(ingested[h]) <= RelayCap + 1
  /\ seen[h] = IF Len(ingested[h]) <= RelayCap THEN ingested[h] ELSE Tail(ingested[h])

FloodInv == FloodTypes /\ TakenOnce /\ \A h \in Hosts : RemembersLast(h)

\* A copy sent on is a frame with its hops left.
LEMMA CopiesAreFrames ==
  ASSUME NEW h \in Hosts, NEW id \in Ids, NEW ttl \in Nat
  PROVE  CopiesFrom(h, id, ttl) \subseteq [to : Hosts, id : Ids, ttl : Nat]
<1> SUFFICES ASSUME NEW f \in CopiesFrom(h, id, ttl)
             PROVE  f \in [to : Hosts, id : Ids, ttl : Nat]
  OBVIOUS
<1>1. PICK g \in Hosts : f = [to |-> g, id |-> id, ttl |-> ttl]
  BY DEF CopiesFrom
<1> QED
  BY <1>1

\* An id that is not among the last RelayCap may follow them: it is in the log
\* once, and the memory is again the log's end.
LEMMA NotedOnce ==
  ASSUME NEW log \in Seq(Ids), NEW s \in Seq(Ids), NEW id \in Ids,
         Len(log) <= RelayCap + 1, s = IF Len(log) <= RelayCap THEN log ELSE Tail(log),
         \A i \in DOMAIN s : s[i] # id,
         \A i, j \in DOMAIN log : log[i] = log[j] => i = j
  PROVE  /\ Noted(log, id) \in Seq(Ids) /\ Marked(s, id) \in Seq(Ids)
         /\ Len(Noted(log, id)) <= RelayCap + 1
         /\ Marked(s, id) = IF Len(Noted(log, id)) <= RelayCap THEN Noted(log, id) ELSE Tail(Noted(log, id))
         /\ \A i, j \in DOMAIN Noted(log, id) : Noted(log, id)[i] = Noted(log, id)[j] => i = j
<1> DEFINE t == Append(log, id)
           u == Append(s, id)
<1>0. RelayCap \in Nat /\ RelayCap > 0 /\ Len(log) \in Nat
  BY FloodAssumption
<1>1. t \in Seq(Ids) /\ Len(t) = Len(log) + 1 /\ u \in Seq(Ids) /\ Len(u) = Len(s) + 1
  OBVIOUS
<1>2. CASE Len(log) <= RelayCap
  <2>1. s = log /\ Noted(log, id) = t
    BY <1>0, <1>1, <1>2 DEF Noted
  <2>2. \A i \in 1 .. Len(t) : t[i] = IF i <= Len(log) THEN log[i] ELSE id
    OBVIOUS
  <2>3. \A i, j \in 1 .. Len(t) : t[i] = t[j] => i = j
    BY <1>0, <1>1, <2>1, <2>2
  <2>4. Marked(s, id) = IF Len(t) > RelayCap THEN Tail(t) ELSE t
    BY <2>1 DEF Marked
  <2> QED
    BY <1>0, <1>1, <1>2, <2>1, <2>3, <2>4
<1>3. CASE Len(log) = RelayCap + 1
  <2>1. s = Tail(log) /\ Len(s) = RelayCap
    BY <1>0, <1>3
  <2>2. Noted(log, id) = Tail(t) /\ Marked(s, id) = Tail(u)
    BY <1>0, <1>1, <1>3, <2>1 DEF Noted, Marked
  <2>3. Tail(t) = u
    <3>1. Tail(t) \in Seq(Ids) /\ Len(Tail(t)) = Len(u)
      BY <1>0, <1>1, <1>3, <2>1
    <3>2. \A i \in 1 .. Len(u) : Tail(t)[i] = u[i]
      BY <1>0, <1>1, <1>3, <2>1
    <3> QED
      BY <1>1, <3>1, <3>2
  <2>4. \A i \in 1 .. Len(s) : s[i] = log[i + 1] /\ i + 1 \in 1 .. Len(log)
    BY <1>0, <1>3, <2>1
  <2>5. \A i \in 1 .. Len(u) : u[i] = IF i <= Len(s) THEN s[i] ELSE id
    OBVIOUS
  <2>6. \A i, j \in 1 .. Len(u) : u[i] = u[j] => i = j
    <3> SUFFICES ASSUME NEW i \in 1 .. Len(u), NEW j \in 1 .. Len(u), u[i] = u[j] PROVE i = j
      OBVIOUS
    <3>1. CASE i <= Len(s) /\ j <= Len(s)
      <4>1. i \in 1 .. Len(s) /\ j \in 1 .. Len(s)
        BY <3>1
      <4>2. log[i + 1] = log[j + 1]
        BY <2>4, <2>5, <4>1
      <4>3. i + 1 = j + 1
        BY <2>4, <4>1, <4>2
      <4> QED
        BY <4>3
    <3>2. CASE ~(i <= Len(s)) /\ ~(j <= Len(s))
      BY <1>1, <2>1, <1>0, <3>2
    <3>3. CASE i <= Len(s) /\ ~(j <= Len(s))
      <4>1. i \in DOMAIN s /\ u[i] = s[i] /\ u[j] = id
        BY <2>5, <3>3
      <4> QED
        BY <4>1
    <3>4. CASE ~(i <= Len(s)) /\ j <= Len(s)
      <4>1. j \in DOMAIN s /\ u[j] = s[j] /\ u[i] = id
        BY <2>5, <3>4
      <4> QED
        BY <4>1
    <3> QED
      BY <3>1, <3>2, <3>3, <3>4
  <2>7. Noted(log, id) = u /\ Marked(s, id) = Tail(u) /\ Len(u) = RelayCap + 1
    BY <1>1, <2>1, <2>2, <2>3
  <2>8. Tail(u) \in Seq(Ids) /\ DOMAIN u = 1 .. Len(u)
    BY <1>0, <1>1, <2>7
  <2>9. PICK n : n = u /\ n = Noted(log, id) /\ Marked(s, id) = Tail(n)
    BY <2>7
  <2>10. n \in Seq(Ids) /\ Tail(n) \in Seq(Ids) /\ Len(n) = RelayCap + 1
    BY <1>1, <2>7, <2>8, <2>9
  <2>11. \A i, j \in DOMAIN n : n[i] = n[j] => i = j
    BY <2>6, <2>8, <2>9
  <2> HIDE DEF u, t
  <2>12. Noted(log, id) \in Seq(Ids) /\ Marked(s, id) \in Seq(Ids) /\ Len(Noted(log, id)) <= RelayCap + 1
    BY <1>0, <2>9, <2>10
  <2>13. Marked(s, id) = Tail(Noted(log, id)) /\ ~(Len(Noted(log, id)) <= RelayCap)
    BY <1>0, <2>9, <2>10
  <2>14. \A i, j \in DOMAIN Noted(log, id) : Noted(log, id)[i] = Noted(log, id)[j] => i = j
    BY <2>9, <2>11
  <2> QED
    BY <2>12, <2>13, <2>14
<1> QED
  BY <1>0, <1>2, <1>3

\* A host takes an id in again only after RelayCap others, whatever loops the
\* mesh has and in whatever order the copies come (relay, mark_seen).
THEOREM TakenOnceHolds == FloodSpec => []TakenOnce
<1>1. FloodInit => FloodInv
  <2>1. RelayCap \in Nat
    BY FloodAssumption
  <2> QED
    BY <2>1 DEF FloodInit, FloodInv, FloodTypes, TakenOnce, RemembersLast
<1>2. FloodInv /\ [FloodNext]_floodVars => FloodInv'
  <2> SUFFICES ASSUME FloodInv, [FloodNext]_floodVars PROVE FloodInv'
    OBVIOUS
  <2>1. CASE \E h \in Hosts, id \in Ids : Originate(h, id)
    <3>1. PICK h \in Hosts, id \in Ids : Originate(h, id)
      BY <2>1
    <3>2. CopiesFrom(h, id, Ttl) \subseteq [to : Hosts, id : Ids, ttl : Nat]
      BY FloodAssumption, CopiesAreFrames
    <3> QED
      BY <3>1, <3>2 DEF Originate, FloodInv, FloodTypes, TakenOnce, RemembersLast
  <2>2. CASE \E f \in inFlight : Receive(f)
    <3>1. PICK f \in inFlight : Receive(f)
      BY <2>2
    <3>2. f \in [to : Hosts, id : Ids, ttl : Nat]
      BY <3>1 DEF FloodInv, FloodTypes
    <3>3. PICK h \in Hosts, id \in Ids, ttl \in Nat : f.to = h /\ f.id = id /\ f.ttl = ttl
      BY <3>2
    <3>4. CASE Remembers(h, id)
      BY <3>1, <3>3, <3>4 DEF Receive, FloodInv, FloodTypes, TakenOnce, RemembersLast
    <3>5. CASE ~Remembers(h, id)
      <4>1. /\ seen' = [seen EXCEPT ![h] = Marked(seen[h], id)]
            /\ ingested' = [ingested EXCEPT ![h] = Noted(ingested[h], id)]
            /\ inFlight' = (inFlight \ {f}) \cup SentOn(h, f)
        BY <3>1, <3>3, <3>5 DEF Receive, FloodInv, FloodTypes
      <4>2. /\ ingested[h] \in Seq(Ids) /\ seen[h] \in Seq(Ids)
            /\ \A i \in DOMAIN seen[h] : seen[h][i] # id
            /\ \A i, j \in DOMAIN ingested[h] : ingested[h][i] = ingested[h][j] => i = j
            /\ RemembersLast(h)
        BY <3>5 DEF FloodInv, FloodTypes, TakenOnce, Remembers
      <4>3. PICK log, s : log = ingested[h] /\ s = seen[h]
        OBVIOUS
      <4>4. PICK n, m : n = Noted(log, id) /\ m = Marked(s, id)
        OBVIOUS
      <4>5. /\ n \in Seq(Ids) /\ m \in Seq(Ids) /\ Len(n) <= RelayCap + 1
            /\ m = IF Len(n) <= RelayCap THEN n ELSE Tail(n)
            /\ \A i, j \in DOMAIN n : n[i] = n[j] => i = j
        <5>1. /\ log \in Seq(Ids) /\ s \in Seq(Ids) /\ Len(log) <= RelayCap + 1
              /\ s = IF Len(log) <= RelayCap THEN log ELSE Tail(log)
              /\ \A i \in DOMAIN s : s[i] # id
              /\ \A i, j \in DOMAIN log : log[i] = log[j] => i = j
          BY <4>2, <4>3 DEF RemembersLast
        <5> QED
          BY <4>4, <5>1, NotedOnce
      <4>6. /\ seen' \in [Hosts -> Seq(Ids)] /\ ingested' \in [Hosts -> Seq(Ids)]
            /\ seen'[h] = m /\ ingested'[h] = n
            /\ \A g \in Hosts : g # h => seen'[g] = seen[g] /\ ingested'[g] = ingested[g]
        BY <4>1, <4>3, <4>4, <4>5 DEF FloodInv, FloodTypes
      <4>7. SentOn(h, f) \subseteq [to : Hosts, id : Ids, ttl : Nat]
        <5>1. CASE ttl > 0
          <6>1. ttl - 1 \in Nat /\ SentOn(h, f) = CopiesFrom(h, id, ttl - 1)
            BY <3>3, <5>1 DEF SentOn
          <6> QED
            BY <6>1, CopiesAreFrames
        <5>2. CASE ~(ttl > 0)
          BY <3>3, <5>2 DEF SentOn
        <5> QED
          BY <5>1, <5>2
      <4>8. FloodTypes'
        BY <4>1, <4>6, <4>7 DEF FloodInv, FloodTypes
      <4>9. TakenOnce'
        BY <4>5, <4>6 DEF FloodInv, TakenOnce
      <4>10. \A g \in Hosts : RemembersLast(g)'
        BY <4>5, <4>6 DEF FloodInv, RemembersLast
      <4> QED
        BY <4>8, <4>9, <4>10 DEF FloodInv
    <3> QED
      BY <3>4, <3>5
  <2>3. CASE \E f \in inFlight : LoseFrame(f)
    BY <2>3 DEF LoseFrame, FloodInv, FloodTypes, TakenOnce, RemembersLast
  <2>4. CASE UNCHANGED floodVars
    BY <2>4 DEF floodVars, FloodInv, FloodTypes, TakenOnce, RemembersLast
  <2> QED
    BY <2>1, <2>2, <2>3, <2>4 DEF FloodNext
<1>3. FloodInv => TakenOnce
  BY DEF FloodInv
<1> QED
  BY <1>1, <1>2, <1>3, PTL DEF FloodSpec

-----------------------------------------------------------------------------
(* What the base station refuses on the air (AirWatch).                     *)

\* The watch, and nothing beside it.
AirSpec == AirInit /\ [][AirNext]_airVars

\* World memory and the watch agree on who is being refused: observe and sweep
\* write what they keep, and a restart, also one in the middle of the writes,
\* adopts what was written.
THEOREM BurstsAreAlwaysFacts == AirSpec => []BurstsAreFacts
<1>1. AirInit => BurstsAreFacts
  BY DEF AirInit, BurstsAreFacts
<1>2. BurstsAreFacts /\ [AirNext]_airVars => BurstsAreFacts'
  <2> SUFFICES ASSUME BurstsAreFacts, [AirNext]_airVars PROVE BurstsAreFacts'
    OBVIOUS
  <2>1. CASE \E s \in Claimed : RefusalLine(s)
    <3>1. PICK s \in Claimed : RefusalLine(s)
      BY <2>1
    <3>2. PICK B, gone : B = BurstsWith(s) /\ gone = AirExpired(B, AgeWith(s))
      OBVIOUS
    <3>3. bursts' = B \ gone /\ refusing' = (refusing \cup (B \ bursts)) \ gone
      BY <3>1, <3>2 DEF RefusalLine
    <3>4. bursts \subseteq B
      BY <3>2 DEF BurstsWith
    <3> QED
      BY <3>3, <3>4 DEF BurstsAreFacts
  <2>2. CASE FrameLine
    BY <2>2 DEF FrameLine, BurstsAreFacts
  <2>3. CASE AirRestart \/ CrashAtCount
    BY <2>3 DEF AirRestart, CrashAtCount, AirResume, BurstsAreFacts
  <2>4. CASE OtherLine \/ AirTick \/ UNCHANGED airVars
    BY <2>4 DEF OtherLine, AirTick, airVars, airFacts, watch, BurstsAreFacts
  <2> QED
    BY <2>1, <2>2, <2>3, <2>4 DEF AirNext
<1> QED
  BY <1>1, <1>2, PTL DEF AirSpec

\* A console line that opens or closes a burst leaves the number a rule reads
\* equal to the bursts open (observe, sweep).
THEOREM CountAlwaysFollows == AirSpec => CountFollows
<1>1. ASSUME [AirNext]_airVars, bursts' # bursts, line' # line
      PROVE  refusedCount' = Cardinality(bursts')
  <2>1. CASE \E s \in Claimed : RefusalLine(s)
    <3>1. PICK s \in Claimed : RefusalLine(s)
      BY <2>1
    <3>2. PICK B, a : B = BurstsWith(s) /\ a = AgeWith(s)
      OBVIOUS
    <3>3. /\ bursts' = B \ AirExpired(B, a)
          /\ refusedCount' =
               CountAfterSweep(B, a, IF s \in bursts THEN refusedCount ELSE Cardinality(B))
      BY <3>1, <3>2 DEF RefusalLine
    <3>4. s \in bursts => B = bursts
      BY <3>2 DEF BurstsWith
    <3>5. CASE AirExpired(B, a) = {}
      BY <1>1, <3>3, <3>4, <3>5 DEF CountAfterSweep
    <3>6. CASE AirExpired(B, a) # {}
      BY <3>3, <3>6 DEF CountAfterSweep
    <3> QED
      BY <3>5, <3>6
  <2>2. CASE FrameLine
    BY <1>1, <2>2 DEF FrameLine, CountAfterSweep
  <2>3. CASE OtherLine \/ AirRestart \/ CrashAtCount \/ AirTick \/ UNCHANGED airVars
    BY <1>1, <2>3 DEF OtherLine, AirRestart, CrashAtCount, AirTick, airVars, airFacts, watch
  <2> QED
    BY <1>1, <2>1, <2>2, <2>3 DEF AirNext
<1>2. [AirNext]_airVars =>
        [bursts' # bursts /\ line' # line => refusedCount' = Cardinality(bursts')]_airVars
  BY <1>1
<1> QED
  BY <1>2, PTL DEF AirSpec, CountFollows
=============================================================================
