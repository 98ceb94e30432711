------------------------------- MODULE Percepts -------------------------------
(***************************************************************************)
(* What the camera's facts make the agent notice. CameraPercepts            *)
(* (crates/obc-vision/src/camera_percepts.rs) reads the facts of            *)
(* CameraHealth from another process and hands what is news to              *)
(* TrajectoryStore::perceive (crates/obc-memory/src/trajectory.rs), which    *)
(* stores it and shows it to the mushroom body; the agent's turns are        *)
(* recorded by another thread. The body lives in memory: a new process       *)
(* rebuilds it from the store.                                               *)
(***************************************************************************)
EXTENDS CameraHealth, Sequences, SequencesExt, FiniteSetsExt

CONSTANTS
  Gap,             \* MOTION_EPISODE_GAP_MS, in captures
  WarmupEpisodes,  \* warmup_episodes: what the body's centre is made of
  MaxTurns,        \* bound: turns the agent records
  MaxMisses,       \* bound: failed statements and embeddings
  MaxEnds          \* bound: ends of the agent's process

ASSUME PerceptAssumption == Gap \in Nat /\ WarmupEpisodes \in Nat

VARIABLES
  reader,  \* CameraPercepts: last_mode, last_motion_ms (a fact has its own time)
  half,    \* a tick has read the health fact, not yet the motion fact
  news,    \* percepts feed has yet to hand over
  hand,    \* writer -> the episode it records, and where it is in `record`
  stored,  \* the episodes, with the fate of their vector
  body,    \* what the mushroom body experienced, in order
  noticed, \* percepts of this reader
  leftBehind, \* percepts a failed feed left behind
  turns, misses, ends

perceptVars == <<reader, half, news, hand, stored, body, noticed, leftBehind, turns, misses, ends>>

Notable == {"lighting_shift", "nudged", "blind", "failed"}
Writers == {"feed", "turn"}
Fates   == {"kept", "lost", "none"} \* of an episode's vector
Free    == [step |-> "free", id |-> <<>>]
Fresh   == [mode |-> NoMode, motion |-> 0]

IdsOf(episodes) == {r.id : r \in episodes}
Kept(episodes) == IdsOf({r \in episodes : r.vec = "kept"})
Moment(id) == id[2]
\* Episodes of one time, by id.
Rank(id) == CASE id[1] = "turn" -> 0 [] id[1] = "health" -> 1 [] OTHER -> 2

Earlier(p, q) == Moment(p) < Moment(q) \/ (Moment(p) = Moment(q) /\ Rank(p) < Rank(q))

\* attach_mushroom: every episode that has a vector, oldest first.
Replay(episodes) ==
  LET kept == Kept(episodes)
  IN  [i \in 1 .. Cardinality(kept) |->
         CHOOSE p \in kept : Cardinality({q \in kept : Earlier(q, p)}) = i - 1]

PerceptInit ==
  /\ reader = Fresh /\ half = FALSE /\ news = << >>
  /\ hand = [w \in Writers |-> Free]
  /\ stored = {} /\ body = << >>
  /\ noticed = {} /\ leftBehind = {}
  /\ turns = 0 /\ misses = 0 /\ ends = 0

-----------------------------------------------------------------------------
(* CameraPercepts::tick, its two reads of the world.                        *)

AsNews(id) == IF id = <<>> THEN << >> ELSE <<id>>

\* The health fact: entering a state is news, staying in it or leaving it is
\* not.
TickHealth ==
  /\ ~half /\ news = << >> /\ hand["feed"] = Free
  /\ half' = TRUE
  /\ LET id == IF mode \in Notable /\ mode # reader.mode
               THEN <<"health", captures>> ELSE <<>>
     IN  news' = AsNews(id) /\ noticed' = noticed \cup ToSet(news')
  /\ reader' = [reader EXCEPT !.mode = mode]
  /\ UNCHANGED <<hand, stored, body, leftBehind, turns, misses, ends>>

\* The motion fact, if it is not the one of the last tick: news after a quiet
\* stretch.
TickMotion ==
  LET at    == IF moved = {} THEN 0 ELSE Max(moved)
      fresh == at # reader.motion
      first == reader.motion = 0 \/ at - reader.motion >= Gap
  IN
  /\ half /\ half' = FALSE
  /\ news' = news \o AsNews(IF fresh /\ first THEN <<"motion", at>> ELSE <<>>)
  /\ noticed' = noticed \cup ToSet(news')
  /\ reader' = [reader EXCEPT !.motion = at]
  /\ UNCHANGED <<hand, stored, body, leftBehind, turns, misses, ends>>

-----------------------------------------------------------------------------
(* perceive and record.                                                     *)

\* Mutant: every percept handed over is recorded.
SeenNever(id) == id \in {}
Seen(id) == id \in IdsOf(stored)

\* feed hands over the next percept; one that has a row already is passed by.
Perceive ==
  /\ ~half /\ news # << >> /\ hand["feed"] = Free
  /\ IF Seen(Head(news)) THEN news' = Tail(news) /\ UNCHANGED hand
     ELSE hand' = [hand EXCEPT !["feed"] = [step |-> "embed", id |-> Head(news)]]
          /\ UNCHANGED news
  /\ UNCHANGED <<reader, half, stored, body, noticed, leftBehind, turns, misses, ends>>

\* A turn of the agent is over and recorded, at its own time.
TurnEnds ==
  /\ hand["turn"] = Free /\ turns < MaxTurns
  /\ turns' = turns + 1
  /\ <<"turn", captures>> \notin IdsOf(stored)
  /\ hand' = [hand EXCEPT !["turn"] = [step |-> "embed", id |-> <<"turn", captures>>]]
  /\ UNCHANGED <<reader, half, news, stored, body, noticed, leftBehind, misses, ends>>

\* What a writer leaves when its record returns: feed goes on to the next.
Returned(w) ==
  /\ hand' = [hand EXCEPT ![w] = Free]
  /\ news' = IF w = "feed" THEN Tail(news) ELSE news

\* record, under the connection's lock: the row, then its vector, whose
\* insert may fail unnoticed; without an embedding ("none") there is none.
WriteRow(w, vec) ==
  /\ hand[w].step = "embed"
  /\ vec # "kept" => misses < MaxMisses
  /\ misses' = IF vec = "kept" THEN misses ELSE misses + 1
  /\ stored' = {r \in stored : r.id # hand[w].id} \cup {[id |-> hand[w].id, vec |-> vec]}
  /\ IF vec = "none" THEN Returned(w)
     ELSE hand' = [hand EXCEPT ![w].step = "body"] /\ UNCHANGED news
  /\ UNCHANGED <<reader, half, body, noticed, leftBehind, turns, ends>>

\* The row is refused: record returns, and `?` takes feed out of its loop with
\* the reader's marks already moved.
RowFails(w) ==
  /\ hand[w].step = "embed" /\ misses < MaxMisses
  /\ misses' = misses + 1
  /\ hand' = [hand EXCEPT ![w] = Free]
  /\ IF w = "feed" THEN news' = << >> /\ leftBehind' = leftBehind \cup ToSet(news)
     ELSE UNCHANGED <<news, leftBehind>>
  /\ UNCHANGED <<reader, half, stored, body, noticed, turns, ends>>

\* The connection is released before the body is locked.
Experience(w) ==
  /\ hand[w].step = "body"
  /\ body' = Append(body, hand[w].id)
  /\ Returned(w)
  /\ UNCHANGED <<reader, half, stored, noticed, leftBehind, turns, misses, ends>>

\* The process ends, between a row and its vector perhaps, and starts again:
\* a new reader, and the body the store makes.
AgentRestarts(torn) ==
  /\ ends < MaxEnds /\ ends' = ends + 1
  /\ \A w \in torn : hand[w].step = "embed"
  /\ stored' = {r \in stored : \A w \in torn : r.id # hand[w].id}
                 \cup {[id |-> hand[w].id, vec |-> "none"] : w \in torn}
  /\ body' = Replay(stored')
  /\ reader' = Fresh /\ half' = FALSE /\ news' = << >>
  /\ hand' = [w \in Writers |-> Free]
  /\ noticed' = {} /\ leftBehind' = {}
  /\ UNCHANGED <<turns, misses>>

PerceptNext ==
  \/ TickHealth \/ TickMotion \/ Perceive \/ TurnEnds
  \/ \E w \in Writers, vec \in Fates : WriteRow(w, vec)
  \/ \E w \in Writers : RowFails(w) \/ Experience(w)
  \/ \E torn \in {{}, {"feed"}, {"turn"}} : AgentRestarts(torn)

-----------------------------------------------------------------------------
(* Properties.                                                              *)

InHand == {hand[w].id : w \in {v \in Writers : hand[v].step = "body"}}

\* The body experienced nothing twice in a process, whatever was read again,
\* and exactly what the store has vectors for: a vector that was not written
\* is the only thing the live body knows and the next one will not.
BodyHoldsStore ==
  /\ IsInjective(body)
  /\ Kept(stored) \subseteq ToSet(body) \cup InHand
  /\ ToSet(body) \subseteq IdsOf({r \in stored : r.vec # "none"})

\* What a tick called news is stored, on its way, or was left behind by a
\* feed that failed.
NewsIsKept == noticed \subseteq IdsOf(stored) \cup ToSet(news) \cup leftBehind

\* Within a process, two motions noticed are a quiet stretch apart.
EpisodesApart ==
  \A p, q \in noticed :
    p[1] = "motion" /\ q[1] = "motion" /\ Moment(p) < Moment(q) => Moment(q) - Moment(p) >= Gap

\* What is seen is noticed once, remembered, and felt once.
PerceptsFollow == BodyHoldsStore /\ NewsIsKept /\ EpisodesApart

\* "The body's state is a pure function of (store contents, config)"
\* (trajectory.rs:188-191): the episodes its centre is the mean of are those a
\* new process would take, when every vector is stored, nothing is in hand and
\* no two episodes share a time.
CentreOf(episodes) ==
  IF Len(episodes) < WarmupEpisodes THEN {} ELSE ToSet(SubSeq(episodes, 1, WarmupEpisodes))
BodyIsReplay ==
  misses = 0 /\ InHand = {} /\ (\A p, q \in Kept(stored) : Moment(p) = Moment(q) => p = q)
    => CentreOf(body) = CentreOf(Replay(stored))
===============================================================================
