------------------------------ MODULE Sightings -------------------------------
(***************************************************************************)
(* What the camera gateway detected becomes facts                           *)
(* (crates/obc-vision/src/clawcam_ingest.rs, under the gates of              *)
(* crates/obc-conscience): a poll re-reads the gateway's rows, drops the     *)
(* frames someone in did not consent to and the subjects no rule allows,     *)
(* stores every event once, and bumps a counter for what it stored.  Each    *)
(* of its statements takes the store for itself, may fail, and may be the    *)
(* last of the process.                                                      *)
(***************************************************************************)
EXTENDS Integers, Sequences, SequencesExt, FiniteSetsExt, InOrder

CONSTANTS
  Feed,        \* the gateway's rows, in order: [event, subject, class, token, sure]
  NoEvent,     \* the event id of a row that has none
  Restricted,  \* the class that needs consent (restricted_class)
  Captured,    \* the classes a consent rule lets through
  Until,       \* token -> the expiry of its grant; tokens outside have none
  WholeFrame,  \* ConsentPolicy::RequireAll, or Redact
  LastPoll,    \* bound: polls, which are also the clock
  MaxBreakOffs \* bound: failed statements and process ends

ASSUME FeedAssumption ==
  /\ \A i, j \in DOMAIN Feed :
       Feed[i].event = Feed[j].event /\ Feed[i].subject = Feed[j].subject => i = j
  /\ Feed \in Seq(ToSet(Feed))

VARIABLES
  polled,    \* polls so far
  permitted, \* the permitted detections of the poll yet to be stored
  wrote,     \* the subjects it stored and has not counted
  sightings, \* vision.subject.*: the facts ever stored
  tally,     \* subject -> vision.count.*, 0 where no fact is open
  brokeOff,  \* failed statements and process ends so far
  hurt       \* a stored sighting was lost to the tally

sightingVars == <<polled, permitted, wrote, sightings, tally, brokeOff, hurt>>

Subjects == {Feed[i].subject : i \in DOMAIN Feed}
RowsOf(s) == {r \in sightings : r.subject = s}
AtRest == permitted = << >> /\ wrote = << >>

SightingsInit ==
  /\ polled = 0
  /\ permitted = << >> /\ wrote = << >>
  /\ sightings = {}
  /\ tally = [s \in Subjects |-> 0]
  /\ brokeOff = 0 /\ hurt = FALSE

-----------------------------------------------------------------------------
(* The gates.                                                               *)

\* ConsentLedger::is_consented, for a purpose the grants name.
IsConsented(d, at) == d.token \in DOMAIN Until /\ at < Until[d.token]

\* Detections of one event are one frame; one without an event is its own.
Frame(d, reply) ==
  {e \in reply : e = d \/ (e.event = d.event /\ d.event # NoEvent)}

\* multiparty_filter: who is in the frame without consent.
Unconsented(frame, at) == {e \in frame : e.class = Restricted /\ ~IsConsented(e, at)}
FrameAllows(d, reply, at) ==
  LET without == Unconsented(Frame(d, reply), at)
  IN  IF WholeFrame THEN without = {} ELSE d \notin without

\* may_perceive_label: not unsure, and of a class that may be captured.
MayPerceive(d) == d.sure /\ d.class \in Captured

Permitted(d, reply, at) == FrameAllows(d, reply, at) /\ MayPerceive(d)

\* The gateway answers with whole frames.
FrameEnds(n) ==
  \A i \in 1 .. n, j \in n + 1 .. Len(Feed) : Feed[i].event = Feed[j].event => Feed[i].event = NoEvent

\* poll_clawcam_guarded: the rows so far, with or without the unsure ones
\* (min_confidence); a poll whose call fails changes nothing.
Poll(upTo, unsure) ==
  /\ AtRest /\ polled < LastPoll /\ FrameEnds(upTo)
  /\ polled' = polled + 1
  /\ LET asked == {i \in 1 .. upTo : unsure \/ Feed[i].sure}
         reply == {Feed[i] : i \in asked}
     IN  \E kept \in Ascending({i \in asked : Permitted(Feed[i], reply, polled + 1)}) :
           permitted' = [k \in DOMAIN kept |-> Feed[kept[k]]]
  /\ UNCHANGED <<wrote, sightings, tally, brokeOff, hurt>>

-----------------------------------------------------------------------------
(* ingest_clawcam_detections, one detection at a time.                      *)

\* Mutant: only the newest fact of the subject is asked for the event.
KnownNow(d) ==
  /\ d.event # NoEvent
  /\ \E r \in RowsOf(d.subject) : r.event = d.event /\ r.at = Max({q.at : q \in RowsOf(d.subject)})
\* has_value_field: the event is anywhere in the subject's history.
Known(d) == d.event # NoEvent /\ \E r \in RowsOf(d.subject) : r.event = d.event

Ingest ==
  /\ permitted # << >>
  /\ permitted' = Tail(permitted)
  /\ IF Known(Head(permitted)) THEN UNCHANGED <<sightings, wrote>>
     ELSE /\ sightings' = sightings \cup
               {[subject |-> Head(permitted).subject, event |-> Head(permitted).event, at |-> polled]}
          /\ wrote' = Append(wrote, Head(permitted).subject)
  /\ UNCHANGED <<polled, tally, brokeOff, hurt>>

\* record_subject_counts, once everything is stored.
Count ==
  /\ permitted = << >> /\ wrote # << >>
  /\ tally' = [tally EXCEPT ![Head(wrote)] = @ + 1]
  /\ wrote' = Tail(wrote)
  /\ UNCHANGED <<polled, permitted, sightings, brokeOff, hurt>>

\* A statement fails and `?` leaves the poll, or the process ends: what is
\* stored and not counted yet is known to the next poll, which passes it by.
BreaksOff ==
  /\ ~AtRest /\ brokeOff < MaxBreakOffs
  /\ brokeOff' = brokeOff + 1
  /\ permitted' = << >> /\ wrote' = << >>
  /\ hurt' = (hurt \/ wrote # << >>)
  /\ UNCHANGED <<polled, sightings, tally>>

\* The process ends between the UPDATE and the INSERT of a count: no fact of
\* it is open, and the next one starts from nothing.
EndsInCount ==
  /\ permitted = << >> /\ wrote # << >> /\ brokeOff < MaxBreakOffs
  /\ brokeOff' = brokeOff + 1
  /\ tally' = [tally EXCEPT ![Head(wrote)] = 0]
  /\ wrote' = << >> /\ hurt' = TRUE
  /\ UNCHANGED <<polled, permitted, sightings>>

\* recount_subjects, run by hand between polls: distinct events, and every
\* row that has none.
Recount ==
  /\ AtRest
  /\ tally' = [s \in Subjects |->
       Cardinality({r.event : r \in RowsOf(s)} \ {NoEvent})
         + Cardinality({r \in RowsOf(s) : r.event = NoEvent})]
  /\ hurt' = FALSE
  /\ UNCHANGED <<polled, permitted, wrote, sightings, brokeOff>>

SightingsNext ==
  \/ \E n \in DOMAIN Feed, unsure \in BOOLEAN : Poll(n, unsure)
  \/ Ingest \/ Count \/ BreaksOff \/ EndsInCount \/ Recount

-----------------------------------------------------------------------------
(* Properties.                                                              *)

\* The gateway repeats its rows at every poll: an event is stored once under
\* each subject it shows, over polls that broke off and processes that ended.
StoredOnce ==
  \A r, q \in sightings : r.subject = q.subject /\ r.event = q.event /\ r.event # NoEvent => r = q

\* No counter runs ahead of what is stored, and between polls it only trails
\* it where a poll broke off after storing and before counting.
TallyFollows ==
  \A s \in Subjects :
    /\ tally[s] <= Cardinality(RowsOf(s))
    /\ AtRest /\ ~hurt => tally[s] = Cardinality(RowsOf(s))

\* Nothing stored shows a person without consent at the time of the poll, nor,
\* where whole frames are refused, shares its event with one who is stored.
StoredWithConsent ==
  \A r \in sightings, d \in ToSet(Feed) :
    /\ d.class = Restricted /\ d.event = r.event /\ d.event # NoEvent
    /\ d.sure /\ (WholeFrame \/ d.subject = r.subject)
    => IsConsented(d, r.at)

\* Each sighting is stored once, counted once, and with consent.
SightingsCounted == StoredOnce /\ TallyFollows /\ StoredWithConsent
===============================================================================
