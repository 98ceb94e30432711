------------------------------- MODULE AuditLog -------------------------------
(***************************************************************************)
(* The audit log of physical actions (crates/obc-safety/src/audit.rs): an  *)
(* append-only file of records, each chained to the one before.  A record  *)
(* and its newline reach the file as two writes; either can fail, be cut   *)
(* short, or be the last thing the process does.  The MAC is modelled as   *)
(* what it covers: a value of its own for every record composed.           *)
(***************************************************************************)
EXTENDS Integers, Sequences, FiniteSets

CONSTANTS MaxWrites, \* bound: records composed
          MaxBreaks  \* bound: failed writes and process ends, together

HalfLine == [seq |-> -1, prev |-> 0, mac |-> 0]
Genesis == 0
NoAuditor == [open |-> FALSE, seq |-> 0, prev |-> 0]

VARIABLES log,      \* lines: what was written into each, record after record
          ended,    \* the last line has its newline
          auditor,  \* ActionAuditor: open, seq, prev_mac
          writing,  \* a record() call that has written its record, not its newline
          writes, breaks,
          acked,    \* the macs of records whose record() returned Ok, in order
          cut       \* a write or a process ended with a line half written

auditVars == <<log, ended, auditor, writing, writes, breaks, acked, cut>>

Idle == [mac |-> 0]

(* A line parses when it is one whole record. *)
Parses(line) == Len(line) = 1 /\ line[1] # HalfLine

(* verify: the lines parse, the sequence has no gap, the chain no break. *)
Verifies ==
  /\ \A i \in DOMAIN log : Parses(log[i]) /\ log[i][1].seq = i - 1
  /\ \A i \in DOMAIN log :
       log[i][1].prev = IF i = 1 THEN Genesis ELSE log[i - 1][1].mac

AuditInit ==
  /\ log = <<>>
  /\ ended = TRUE
  /\ auditor = NoAuditor
  /\ writing = Idle
  /\ writes = 0
  /\ breaks = 0
  /\ acked = <<>>
  /\ cut = FALSE

(* last_record reads every line: one that does not parse fails the open.   *)
OpenLog ==
  /\ ~auditor.open
  /\ \A i \in DOMAIN log : Parses(log[i])
  /\ auditor' = [open |-> TRUE,
                 seq |-> IF log = <<>> THEN 0 ELSE log[Len(log)][1].seq + 1,
                 prev |-> IF log = <<>> THEN Genesis ELSE log[Len(log)][1].mac]
  /\ UNCHANGED <<log, ended, writing, writes, breaks, acked, cut>>

Composed == [seq |-> auditor.seq, prev |-> auditor.prev, mac |-> writes + 1]

(* What an append does to the file: a new line, or more of an open one. *)
Appended(piece) ==
  IF ended THEN Append(log, <<piece>>)
  ELSE [log EXCEPT ![Len(log)] = Append(@, piece)]

CanWrite ==
  /\ auditor.open
  /\ writing = Idle
  /\ writes < MaxWrites

(* record: the record is in the file... *)
RecordWritten ==
  /\ CanWrite
  /\ writes' = writes + 1
  /\ log' = Appended(Composed)
  /\ ended' = FALSE
  /\ writing' = Composed
  /\ UNCHANGED <<auditor, breaks, acked, cut>>

(* ...its newline too: the chain moves on, and the call returns. *)
RecordReturns ==
  /\ writing # Idle
  /\ ended' = TRUE
  /\ auditor' = [auditor EXCEPT !.seq = @ + 1, !.prev = writing.mac]
  /\ acked' = Append(acked, writing.mac)
  /\ writing' = Idle
  /\ UNCHANGED <<log, writes, breaks, cut>>

(* Mutant: the chain moves on although the write failed. *)
RecordFailsCounted ==
  /\ CanWrite
  /\ breaks < MaxBreaks
  /\ breaks' = breaks + 1
  /\ writes' = writes + 1
  /\ auditor' = [auditor EXCEPT !.seq = @ + 1, !.prev = Composed.mac]
  /\ UNCHANGED <<log, ended, writing, acked, cut>>

(* The open or the write fails with nothing written, or with a part of the *)
(* record in the file; the action goes ahead, and the chain stays.         *)
RecordFails ==
  /\ CanWrite
  /\ breaks < MaxBreaks
  /\ breaks' = breaks + 1
  /\ writes' = writes + 1
  /\ \/ UNCHANGED <<log, ended, cut>>
     \/ /\ log' = Appended(HalfLine)
        /\ ended' = FALSE
        /\ cut' = TRUE
  /\ UNCHANGED <<auditor, writing, acked>>

(* The newline fails: the call does, with the whole record in the file. *)
NewlineFails ==
  /\ writing # Idle
  /\ breaks < MaxBreaks
  /\ breaks' = breaks + 1
  /\ cut' = TRUE
  /\ writing' = Idle
  /\ UNCHANGED <<log, ended, auditor, writes, acked>>

(* The process ends, also between a record and its newline. *)
ProcessEnds ==
  /\ auditor.open
  /\ breaks < MaxBreaks
  /\ breaks' = breaks + 1
  /\ cut' = (cut \/ ~ended)
  /\ auditor' = NoAuditor
  /\ writing' = Idle
  /\ UNCHANGED <<log, ended, writes, acked>>

AuditNext ==
  OpenLog \/ RecordWritten \/ RecordReturns \/ RecordFails \/ NewlineFails \/ ProcessEnds

----------------------------------------------------------------------------
(* The log verifies, and holds every record whose call returned in the     *)
(* order of the calls, through failed writes and restarts; only a line cut *)
(* short on its way to the file ends that (audit.rs:208 writes a record    *)
(* and its newline one after the other).                                   *)
AckedRecordsVerify ==
  ~cut /\ writing = Idle =>
    /\ Verifies
    /\ acked = [i \in DOMAIN log |-> log[i][1].mac]
=============================================================================
