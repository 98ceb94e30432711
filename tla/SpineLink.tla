------------------------------- MODULE SpineLink -------------------------------
(***************************************************************************)
(* The host's serial link to its base station (GatewayLink, GatewayHandle, *)
(* SerialCommandSink, supervise_gateway and the serial I/O thread of       *)
(* crates/obc-spine/src/lora_gateway.rs): what is lost and what is kept    *)
(* when the port goes away and comes back under a running process.  Every  *)
(* opening of the port starts an I/O thread, numbered by `gen`.            *)
(***************************************************************************)
EXTENDS Integers, Sequences

CONSTANTS Commands,   \* commands a caller may send, each once
          QueueCap,   \* capacity of the command channel (32)
          LineCap,    \* capacity of the line channel (256)
          MaxGen,     \* bound: openings of the port
          MaxFailures \* bound: reopens that fail with the port there

ASSUME LinkAssumption == QueueCap \in Nat \ {0} /\ LineCap \in Nat \ {0} /\ MaxGen \in Nat \ {0}

VARIABLES port,     \* is the device there?
          gen,      \* the last opening
          io,       \* its I/O thread: "none", "runs", "closing" (error to report), "exited"
          lines,    \* console events waiting for the RX loop: "line" or "closed"
          queue,    \* commands in the channel of that thread
          handle,   \* GatewayHandle: the link's state, and whose writer it holds
          fact,     \* spine.gateway
          sup,      \* where the supervisor is
          failures,
          sends,    \* command -> where its send is, on which writer
          written   \* commands written: which thread wrote it, whose writer took it

linkVars == <<port, gen, io, lines, queue, handle, fact, sup, failures, sends, written>>

Unsent == [at |-> "none", gen |-> 0]

(* The first open succeeded, or the process starts in an outage. *)
LinkInit ==
  /\ port \in BOOLEAN
  /\ gen = IF port THEN 1 ELSE 0
  /\ io = IF port THEN "runs" ELSE "none"
  /\ lines = <<>>
  /\ queue = <<>>
  /\ handle = IF port THEN [state |-> "open", gen |-> 1] ELSE [state |-> "lost", gen |-> 0]
  /\ fact = handle.state
  /\ sup = IF port THEN "rx" ELSE "lost"
  /\ failures = 0
  /\ sends = [c \in Commands |-> Unsent]
  /\ written = {}

----------------------------------------------------------------------------
(* The device. *)

Unplug == port /\ port' = FALSE /\ UNCHANGED <<gen, io, lines, queue, handle, fact, sup, failures, sends, written>>
Plug   == ~port /\ port' = TRUE /\ UNCHANGED <<gen, io, lines, queue, handle, fact, sup, failures, sends, written>>

----------------------------------------------------------------------------
(* The I/O thread. *)

(* One queued command goes out; a write that fails is logged, no more. *)
IoWrites ==
  /\ io = "runs"
  /\ queue # <<>>
  /\ queue' = Tail(queue)
  /\ written' = IF port THEN written \cup {[cmd |-> Head(queue).cmd, by |-> gen, of |-> Head(queue).gen]}
                ELSE written
  /\ UNCHANGED <<port, gen, io, lines, handle, fact, sup, failures, sends>>

(* A line is read; the thread waits while the channel is full. *)
IoReads ==
  /\ io = "runs"
  /\ port
  /\ Len(lines) < LineCap
  /\ lines' = Append(lines, "line")
  /\ UNCHANGED <<port, gen, io, queue, handle, fact, sup, failures, sends, written>>

(* A read error: the reason goes in-band, when there is room for it... *)
IoReadFails ==
  /\ io = "runs"
  /\ ~port
  /\ Len(lines) < LineCap
  /\ lines' = Append(lines, "closed")
  /\ io' = "closing"
  /\ UNCHANGED <<port, gen, queue, handle, fact, sup, failures, sends, written>>

(* ...and the thread ends, its command channel with what is in it. *)
IoExits ==
  /\ io = "closing"
  /\ io' = "exited"
  /\ queue' = <<>>
  /\ UNCHANGED <<port, gen, lines, handle, fact, sup, failures, sends, written>>

----------------------------------------------------------------------------
(* The supervisor: the RX loop, and the outage. *)

RxLine ==
  /\ sup = "rx"
  /\ lines # <<>>
  /\ lines' = Tail(lines)
  /\ sup' = IF Head(lines) = "closed" THEN "lost" ELSE "rx"
  /\ UNCHANGED <<port, gen, io, queue, handle, fact, failures, sends, written>>

(* reopen_until_open: "lost" in the handle, then in world memory... *)
OutageBegins ==
  /\ sup = "lost"
  /\ handle' = [state |-> "lost", gen |-> 0]
  /\ sup' = "lost recorded"
  /\ UNCHANGED <<port, gen, io, lines, queue, fact, failures, sends, written>>

RecordLost ==
  /\ sup = "lost recorded"
  /\ fact' = "lost"
  /\ sup' = "reopen"
  /\ UNCHANGED <<port, gen, io, lines, queue, handle, failures, sends, written>>

(* ...then, before every attempt, "reopening", and the backoff... *)
Reopening ==
  /\ sup = "reopen"
  /\ handle' = [state |-> "reopening", gen |-> 0]
  /\ fact' = "reopening"
  /\ sup' = "attempt"
  /\ UNCHANGED <<port, gen, io, lines, queue, failures, sends, written>>

(* Mutant: the first attempt that fails is the last. *)
AttemptFailsForGood ==
  /\ sup = "attempt"
  /\ \/ ~port /\ UNCHANGED failures
     \/ port /\ failures < MaxFailures /\ failures' = failures + 1
  /\ sup' = "gave up"
  /\ UNCHANGED <<port, gen, io, lines, queue, handle, fact, sends, written>>

(* ...an attempt that fails is followed by another... *)
AttemptFails ==
  /\ sup = "attempt"
  /\ \/ ~port /\ UNCHANGED failures
     \/ port /\ failures < MaxFailures /\ failures' = failures + 1
  /\ sup' = "reopen"
  /\ UNCHANGED <<port, gen, io, lines, queue, handle, fact, sends, written>>

(* Mutant: the commands the lost link had not written go to the next one. *)
AttemptOpensKeepingQueue ==
  /\ sup = "attempt"
  /\ port
  /\ gen < MaxGen
  /\ gen' = gen + 1
  /\ io' = "runs"
  /\ lines' = <<>>
  /\ \E c \in {d \in Commands : sends[d].at = "sent" /\ \A w \in written : w.cmd # d} :
       queue' = <<[cmd |-> c, gen |-> sends[c].gen]>>
  /\ handle' = [state |-> "open", gen |-> gen']
  /\ sup' = "opened"
  /\ UNCHANGED <<port, fact, failures, sends, written>>

(* ...one that succeeds has its writer put in the handle... *)
AttemptOpens ==
  /\ sup = "attempt"
  /\ port
  /\ gen < MaxGen
  /\ gen' = gen + 1
  /\ io' = "runs"
  /\ lines' = <<>>
  /\ queue' = <<>>
  /\ handle' = [state |-> "open", gen |-> gen']
  /\ sup' = "opened"
  /\ UNCHANGED <<port, fact, failures, sends, written>>

(* ...and is recorded; the RX loop runs again. *)
RecordOpen ==
  /\ sup = "opened"
  /\ fact' = "open"
  /\ sup' = "rx"
  /\ UNCHANGED <<port, gen, io, lines, queue, handle, failures, sends, written>>

----------------------------------------------------------------------------
(* SerialCommandSink::send_command: the writer is taken from the handle...  *)
TakeWriter(c) ==
  /\ sends[c] = Unsent
  /\ sends' = [sends EXCEPT ![c] = IF handle.state = "open"
                                   THEN [at |-> "sending", gen |-> handle.gen]
                                   ELSE [at |-> "refused", gen |-> 0]]
  /\ UNCHANGED <<port, gen, io, lines, queue, handle, fact, sup, failures, written>>

Listening(g) == g = gen /\ io \in {"runs", "closing"}

(* ...and the command sent on it, once there is room; or the thread behind *)
(* it has gone in the meantime.                                            *)
SendQueued(c) ==
  /\ sends[c].at = "sending"
  /\ Listening(sends[c].gen)
  /\ Len(queue) < QueueCap
  /\ queue' = Append(queue, [cmd |-> c, gen |-> sends[c].gen])
  /\ sends' = [sends EXCEPT ![c].at = "sent"]
  /\ UNCHANGED <<port, gen, io, lines, handle, fact, sup, failures, written>>

SendFails(c) ==
  /\ sends[c].at = "sending"
  /\ ~Listening(sends[c].gen)
  /\ sends' = [sends EXCEPT ![c].at = "refused"]
  /\ UNCHANGED <<port, gen, io, lines, queue, handle, fact, sup, failures, written>>

SupervisorStep ==
  \/ RxLine \/ OutageBegins \/ RecordLost \/ Reopening \/ AttemptFails \/ AttemptOpens
  \/ RecordOpen

IoStep == IoWrites \/ IoReadFails \/ IoExits

LinkNext ==
  \/ Unplug \/ Plug \/ IoStep \/ IoReads \/ SupervisorStep
  \/ \E c \in Commands : TakeWriter(c) \/ SendQueued(c) \/ SendFails(c)

----------------------------------------------------------------------------
(* A command goes out on the link it was accepted for or not at all, and   *)
(* one that was refused never does: nothing outlives an outage to be       *)
(* written into a mesh that has moved on.                                  *)
NothingCrossesAnOutage ==
  /\ \A w \in written : w.by = w.of /\ sends[w.cmd].at # "refused"
  /\ \A i \in DOMAIN queue : queue[i].gen = gen

(* A port that is there for good is opened for good, however long the      *)
(* outage was: no attempt is the last (reopen_backoff).  An open port that *)
(* does not answer is a bounded case here.                                 *)
LinkComesBack == <>[]port => <>[](handle.state = "open" \/ gen = MaxGen)
=================================================================================
