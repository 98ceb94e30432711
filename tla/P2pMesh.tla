-------------------------------- MODULE P2pMesh --------------------------------
(***************************************************************************)
(* Discovery on the broker-free spine (crates/obc-spine/src/p2p.rs, with   *)
(* P2pState of crates/obc-safety/src/node_identity.rs): what the brain     *)
(* takes of the announcements it hears, what it keeps of them in memory    *)
(* and on disk, and what it tells the listener that registers peer tools.  *)
(* Frame auth is enforced; a datagram, once sent, may arrive any number of *)
(* times, in any order, from anyone.                                       *)
(***************************************************************************)
EXTENDS Integers, Sequences, FiniteSets

CONSTANTS Peers,
          Toolsets,     \* what a peer may announce
          None,
          ChannelCap,   \* capacity of the peer event channel
          Clocks,       \* what a board's clock may say when it boots
          MaxPerBoot,   \* bound: announcements under one epoch
          MaxEpoch,     \* bound: epochs
          MaxBrainStops,\* bound: ends of the brain's process
          MaxRekeys     \* bound: boards reflashed, per peer

ASSUME P2pAssumption ==
  /\ ChannelCap \in Nat \ {0} /\ Clocks \subseteq Nat /\ MaxPerBoot \in Nat
  /\ IsFiniteSet(Peers)
  /\ None \notin Toolsets /\ None \notin Nat

VARIABLES board,     \* peer -> its key, epoch file, epoch and count of announcements
          air,       \* every datagram ever sent
          registry,  \* peer_registry: the tools announced, and whether silent too long
          marks,     \* announce_marks: peer -> key and seq
          markFile,  \* p2p_announce_marks.json
          pins,      \* learned peer keys
          pinFile,
          todo,      \* what the discovery task is in the middle of
          channel, resync,
          view,      \* the listener: peer -> tools registered
          brainStops,
          unsettled, \* taken since the peer's last join or clean leave
          replayable,\* datagrams whose mark was lost when the process ended
          taken,     \* datagrams taken, ever
          again      \* datagrams taken a second time

p2pVars == <<board, air, registry, marks, markFile, pins, pinFile, todo, channel, resync,
             view, brainStops, unsettled, replayable, taken, again>>

Offline == [tools |-> None, silent |-> FALSE]
NoMark  == [key |-> 0, seq |-> 0]
NoWork  == [persist |-> FALSE, events |-> <<>>, settles |-> {}]

ToolsOf(r) == [n \in Peers |-> r[n].tools]

P2pInit ==
  /\ board = [n \in Peers |-> [key |-> 1, file |-> None, epoch |-> 0, count |-> 0, torn |-> FALSE]]
  /\ air = {}
  /\ registry = [n \in Peers |-> Offline]
  /\ marks = [n \in Peers |-> NoMark]
  /\ markFile = marks
  /\ pins = [n \in Peers |-> 0]
  /\ pinFile = pins
  /\ todo = NoWork
  /\ channel = <<>>
  /\ resync = FALSE
  /\ view = [n \in Peers |-> None]
  /\ brainStops = 0
  /\ unsettled = [n \in Peers |-> {}]
  /\ replayable = {}
  /\ taken = {}
  /\ again = {}

brainVars == <<registry, marks, markFile, pins, pinFile, todo, channel, resync, view,
               brainStops, unsettled, replayable, taken, again>>

----------------------------------------------------------------------------
(* The announcing boards. *)

Higher(a, b) == IF a > b THEN a ELSE b

(* next_boot_epoch. *)
NextBootEpoch(last, clock) == IF last = None THEN clock ELSE Higher(clock, last + 1)

(* A start; the epoch file is written, or fails to be. *)
BoardBoots(n, clock, written) ==
  LET epoch == NextBootEpoch(board[n].file, clock)
  IN /\ epoch <= MaxEpoch
     /\ board' = [board EXCEPT ![n] =
                    [key |-> @.key, epoch |-> epoch, count |-> 0,
                     file |-> IF written THEN epoch ELSE @.file,
                     torn |-> @.torn \/ ~written]]
  /\ UNCHANGED <<air, brainVars>>

(* A board loses its state directory: a new key, and no epoch on file. *)
Reflash(n) ==
  /\ board[n].key <= MaxRekeys
  /\ board' = [board EXCEPT ![n] =
                 [key |-> @.key + 1, file |-> None, epoch |-> 0, count |-> 0, torn |-> FALSE]]
  /\ UNCHANGED <<air, brainVars>>

(* epoch << 32 | count. *)
SeqNo(epoch, count) == epoch * (MaxPerBoot + 1) + count

(* broadcast_presence. *)
Announce(n, tools) ==
  /\ board[n].epoch > 0
  /\ board[n].count < MaxPerBoot
  /\ board' = [board EXCEPT ![n].count = @ + 1]
  /\ air' = air \cup {[id |-> n, key |-> board[n].key, tools |-> tools,
                       seq |-> SeqNo(board[n].epoch, board[n].count + 1)]}
  /\ UNCHANGED brainVars

----------------------------------------------------------------------------
(* The discovery task: one datagram, then a sweep. *)

(* admit_identity: the pinned key, or the first one a paired node proves.  *)
KnowsKey(d) == pins[d.id] \in {0, d.key}

(* AnnounceMarks::admit. *)
Newer(d) == ~(marks[d.id].key = d.key /\ d.seq <= marks[d.id].seq)

(* The key is pinned and on disk before the announcement is judged. *)
Pin(d) ==
  /\ todo = NoWork
  /\ pins[d.id] = 0
  /\ pins' = [pins EXCEPT ![d.id] = d.key]
  /\ pinFile' = pins'
  /\ UNCHANGED <<board, air, registry, marks, markFile, todo, channel, resync, view,
                 brainStops, unsettled, replayable, taken, again>>

(* on_announce, of a datagram that is admitted: registry and marks move    *)
(* under the registry's lock.  Any other datagram changes nothing.         *)
Take(d) ==
  /\ todo = NoWork
  /\ pins[d.id] = d.key
  /\ Newer(d)
  /\ marks' = [marks EXCEPT ![d.id] = [key |-> d.key, seq |-> d.seq]]
  /\ registry' = [registry EXCEPT ![d.id] = [tools |-> d.tools, silent |-> FALSE]]
  /\ LET first == registry[d.id] = Offline
         joined == registry[d.id].tools # d.tools
     IN todo' = [persist |-> first,
                 events |-> IF joined THEN <<[kind |-> "joined", id |-> d.id, tools |-> d.tools]>>
                            ELSE <<>>,
                 settles |-> IF first THEN {d.id} ELSE {}]
  /\ unsettled' = [unsettled EXCEPT ![d.id] = @ \cup {d}]
  /\ taken' = taken \cup {d}
  /\ again' = IF d \in taken THEN again \cup {d} ELSE again
  /\ UNCHANGED <<board, air, markFile, pins, pinFile, channel, resync, view, brainStops,
                 replayable>>

(* Nothing heard of n for peer_timeout_secs. *)
FallsSilent(n) ==
  /\ registry[n] # Offline
  /\ ~registry[n].silent
  /\ registry' = [registry EXCEPT ![n].silent = TRUE]
  /\ UNCHANGED <<board, air, marks, markFile, pins, pinFile, todo, channel, resync, view,
                 brainStops, unsettled, replayable, taken, again>>

LeftEvents(gone) ==
  {s \in [1 .. Cardinality(gone) -> [kind : {"left"}, id : gone, tools : {None}]] :
     \A i, j \in DOMAIN s : i # j => s[i].id # s[j].id}

(* Mutant: a leave does not write the marks. *)
EvictUnpersisted ==
  /\ todo = NoWork
  /\ \E n \in Peers : registry[n].silent
  /\ LET gone == {n \in Peers : registry[n].silent}
     IN /\ registry' = [n \in Peers |-> IF n \in gone THEN Offline ELSE registry[n]]
        /\ \E events \in LeftEvents(gone) :
             todo' = [persist |-> FALSE, events |-> events, settles |-> gone]
  /\ UNCHANGED <<board, air, marks, markFile, pins, pinFile, channel, resync, view,
                 brainStops, unsettled, replayable, taken, again>>

(* evict_stale: the silent ones go, in the order of a hash map. *)
Evict ==
  /\ todo = NoWork
  /\ \E n \in Peers : registry[n].silent
  /\ LET gone == {n \in Peers : registry[n].silent}
     IN /\ registry' = [n \in Peers |-> IF n \in gone THEN Offline ELSE registry[n]]
        /\ \E events \in LeftEvents(gone) :
             todo' = [persist |-> TRUE, events |-> events, settles |-> gone]
  /\ UNCHANGED <<board, air, marks, markFile, pins, pinFile, channel, resync, view,
                 brainStops, unsettled, replayable, taken, again>>

(* persist_announce_marks: written atomically, all of them. *)
PersistMarks ==
  /\ todo.persist
  /\ markFile' = marks
  /\ todo' = [todo EXCEPT !.persist = FALSE]
  /\ UNCHANGED <<board, air, registry, marks, pins, pinFile, channel, resync, view,
                 brainStops, unsettled, replayable, taken, again>>

HasRoom == Len(channel) < ChannelCap

(* Mutant: the flag goes down although the snapshot did not fit. *)
FlushResyncBlindly ==
  /\ resync' = FALSE
  /\ channel' = IF HasRoom THEN Append(channel, [kind |-> "snapshot", peers |-> ToolsOf(registry)])
                ELSE channel

(* flush_resync. *)
FlushResync ==
  IF HasRoom
  THEN /\ channel' = Append(channel, [kind |-> "snapshot", peers |-> ToolsOf(registry)])
       /\ resync' = FALSE
  ELSE UNCHANGED <<channel, resync>>

Settled(names) == [n \in Peers |-> IF n \in names THEN {} ELSE unsettled[n]]

(* emit, of the next event; with the last one the datagram or sweep is done. *)
Emit ==
  /\ ~todo.persist
  /\ todo.events # <<>>
  /\ IF resync THEN FlushResync
     ELSE IF HasRoom THEN channel' = Append(channel, Head(todo.events)) /\ UNCHANGED resync
     ELSE resync' = TRUE /\ UNCHANGED channel
  /\ unsettled' = Settled(todo.settles)
  /\ todo' = IF Len(todo.events) = 1 THEN NoWork
             ELSE [todo EXCEPT !.events = Tail(@), !.settles = {}]
  /\ UNCHANGED <<board, air, registry, marks, markFile, pins, pinFile, view, brainStops,
                 replayable, taken, again>>

(* The end of every sweep: a pending snapshot goes out when there is room. *)
SweepFlushes ==
  /\ todo = NoWork
  /\ resync
  /\ HasRoom
  /\ FlushResync
  /\ UNCHANGED <<board, air, registry, marks, markFile, pins, pinFile, todo, view,
                 brainStops, unsettled, replayable, taken, again>>

----------------------------------------------------------------------------
(* What an event does to the tools the listener has registered (PeerEvent). *)
Told(v, e) ==
  CASE e.kind = "joined"   -> [v EXCEPT ![e.id] = e.tools]
    [] e.kind = "left"     -> [v EXCEPT ![e.id] = None]
    [] e.kind = "snapshot" -> e.peers

Listen ==
  /\ channel # <<>>
  /\ view' = Told(view, Head(channel))
  /\ channel' = Tail(channel)
  /\ UNCHANGED <<board, air, registry, marks, markFile, pins, pinFile, todo, resync,
                 brainStops, unsettled, replayable, taken, again>>

(* The brain's process ends and starts again (P2pState::load); while it is *)
(* down the operator may strike out the pins of peers that were re-keyed.  *)
(* A peer has one mark, under the key last taken: what was taken under a   *)
(* key before that one is only kept out by the pin.                        *)
Forgotten(struck) ==
  {d \in taken : d \in unsettled[d.id] \/ (d.id \in struck /\ d.key # markFile[d.id].key)}

BrainRestarts(struck) ==
  /\ brainStops < MaxBrainStops
  /\ brainStops' = brainStops + 1
  /\ registry' = [n \in Peers |-> Offline]
  /\ marks' = markFile
  /\ pinFile' = [n \in Peers |-> IF n \in struck THEN 0 ELSE pinFile[n]]
  /\ pins' = pinFile'
  /\ todo' = NoWork
  /\ channel' = <<>>
  /\ resync' = FALSE
  /\ view' = [n \in Peers |-> None]
  /\ replayable' = replayable \cup Forgotten(struck)
  /\ unsettled' = [n \in Peers |-> {}]
  /\ UNCHANGED <<board, air, markFile, taken, again>>

P2pNext ==
  \/ \E n \in Peers, clock \in Clocks, written \in BOOLEAN : BoardBoots(n, clock, written)
  \/ \E n \in Peers : Reflash(n) \/ FallsSilent(n)
  \/ \E n \in Peers, tools \in Toolsets : Announce(n, tools)
  \/ \E d \in air : Pin(d) \/ Take(d)
  \/ Evict \/ PersistMarks \/ Emit \/ SweepFlushes \/ Listen
  \/ \E struck \in SUBSET Peers : BrainRestarts(struck)

----------------------------------------------------------------------------
(* What a listener that has v of a peer will have after the events: what   *)
(* the last of them that is about the peer says.                           *)
IsAbout(e, n) == e.kind = "snapshot" \/ e.id = n
Says(e, n) == IF e.kind = "snapshot" THEN e.peers[n] ELSE e.tools
WillHave(v, events, n, tools) ==
  \/ v = tools /\ \A i \in DOMAIN events : ~IsAbout(events[i], n)
  \/ \E i \in DOMAIN events :
       /\ IsAbout(events[i], n) /\ Says(events[i], n) = tools
       /\ \A j \in DOMAIN events : j > i => ~IsAbout(events[j], n)

(* What the listener has been told, with what waits in the channel and what *)
(* the task is about to tell it, is the registry; an event dropped in      *)
(* between is owed a snapshot.                                             *)
ViewFollows ==
  ~resync => \A n \in Peers : WillHave(view[n], channel \o todo.events, n, registry[n].tools)

(* An announcement is taken once, whatever is replayed and whoever falls   *)
(* silent or comes back. What was taken since the peer's last join or      *)
(* clean leave may be taken again once the process ended in between        *)
(* (node_identity.rs:523), and what was taken under an earlier key once    *)
(* the operator strikes out the pin of the next one.                       *)
ReplaysRefused == again \subseteq replayable

(* A board that starts again is heard: its next announcement is newer than *)
(* anything the brain remembers of it under that key, also on a board with *)
(* no clock, as long as its epoch file was written.                        *)
RestartedIsHeard ==
  \A n \in Peers :
    ~board[n].torn /\ board[n].epoch > 0 /\ marks[n].key = board[n].key =>
      /\ marks[n].seq < SeqNo(board[n].epoch, board[n].count + 1)
      /\ markFile[n].key = board[n].key =>
           markFile[n].seq < SeqNo(board[n].epoch, board[n].count + 1)

(* An announcement counts once, and a board that restarts is heard again. *)
AnnouncementsJudged == ReplaysRefused /\ RestartedIsHeard

(* The registry takes what the boards say, and the listener learns of it. *)
PeersFollowed == ViewFollows /\ AnnouncementsJudged
================================================================================
