----------------------------- MODULE CameraHealth -----------------------------
(***************************************************************************)
(* One camera's health as a fact (crates/obc-vision/src/camera_health.rs):  *)
(* every capture is judged from how many frames came since the camera last  *)
(* restarted, the last real picture, and the runs of blank frames and of    *)
(* failures, and the judgement is written to world memory, with a second    *)
(* fact when something moved.  The pixels only choose what a capture is.    *)
(***************************************************************************)
EXTENDS Integers

CONSTANTS
  WarmupFrames,  \* WARMUP_FRAMES
  BlindRun,      \* BLIND_RUN
  FailedRun,     \* FAILED_RUN
  Sizes,         \* the frame sizes the camera is set to
  LastCapture    \* bound: captures, which are also the clock

ASSUME RunsAssumption ==
  {WarmupFrames, BlindRun, FailedRun} \subseteq Nat \ {0} /\ WarmupFrames < BlindRun

VARIABLES
  inner,     \* Inner: frames, prev (the size of the baseline), lowRun, failRun, failed
  mode,      \* the mode of the camera.{node} fact
  captures,  \* captures so far
  moved,     \* when camera.{node}.motion was written
  \* History, for the properties only:
  sightless, \* attempts without a picture since the last one, or since a restart
  said       \* "blind" or "failed" was written in that time

cameraVars == <<inner, mode, captures, moved, sightless, said>>

NoSize  == 0
NoMode  == "none"
Started == [frames |-> 0, prev |-> NoSize, lowRun |-> 0, failRun |-> 0, failed |-> FALSE]
Unusable == {"blind", "failed"}

CameraInit ==
  /\ inner = Started /\ mode = NoMode
  /\ captures = 0 /\ moved = {}
  /\ sightless = 0 /\ said = FALSE

-----------------------------------------------------------------------------
\* record: the fact, and the motion fact that rests on it.
Record(m, motion) ==
  /\ captures < LastCapture /\ captures' = captures + 1
  /\ mode' = m
  /\ moved' = IF motion THEN moved \cup {captures'} ELSE moved

Restarts(size) == inner.failed \/ inner.prev \notin {NoSize, size}
\* observe_frame's first lines: a frame after `failed`, or of another size,
\* starts over; it ends the run of failures and counts towards the warm-up.
Counted(size) ==
  LET s == IF Restarts(size) THEN Started ELSE inner
  IN  [s EXCEPT !.failRun = 0, !.frames = @ + 1]

\* A frame with contrast. What it is against the baseline is asked only past
\* the warm-up and with a baseline to compare.
Picture(size, class) ==
  LET s == Counted(size)
      judged == s.frames > WarmupFrames /\ s.prev # NoSize
  IN
  /\ ~judged => class = "quiet" \* nothing is classified
  /\ inner' = [s EXCEPT !.lowRun = 0, !.prev = size]
  /\ Record(CASE ~judged -> "warming"
              [] class = "light" -> "lighting_shift"
              [] class = "nudge" -> "nudged"
              [] OTHER -> "ok",
            judged /\ class = "motion")
  /\ sightless' = 0 /\ said' = FALSE

BlankMode(s) ==
  IF s.lowRun >= BlindRun THEN "blind"
  ELSE IF s.frames <= WarmupFrames THEN "warming" ELSE "ok"
\* A frame without contrast is no baseline.
Blank(size) ==
  LET s == Counted(size)
      next == [s EXCEPT !.lowRun = @ + 1]
  IN
  /\ inner' = next
  /\ Record(BlankMode(next), FALSE)
  /\ sightless' = IF Restarts(size) THEN 1 ELSE sightless + 1
  /\ said' = ((said /\ ~Restarts(size)) \/ BlankMode(next) \in Unusable)

\* Mutant: a failure ends the run of blank frames.
AfterFailureAnew == [inner EXCEPT !.failRun = @ + 1, !.lowRun = 0,
                                  !.failed = @ \/ inner.failRun + 1 >= FailedRun]
AfterFailure == [inner EXCEPT !.failRun = @ + 1,
                              !.failed = @ \/ inner.failRun + 1 >= FailedRun]
FailureMode(s) ==
  IF s.failed THEN "failed" ELSE IF s.frames <= WarmupFrames THEN "warming" ELSE "ok"
\* observe_failure: no capture, or one that does not decode.
Failure ==
  /\ inner' = AfterFailure
  /\ Record(FailureMode(inner'), FALSE)
  /\ sightless' = sightless + 1
  /\ said' = (said \/ FailureMode(inner') \in Unusable)

\* reset: the port was reopened, the sensor initialised again.
CameraReset ==
  /\ inner # Started
  /\ inner' = Started /\ sightless' = 0 /\ said' = FALSE
  /\ UNCHANGED <<mode, captures, moved>>

\* FrameClass: what motion::classify makes of two pictures.
Classes == {"quiet", "motion", "light", "nudge"}

CameraNext ==
  \/ \E size \in Sizes, class \in Classes : Picture(size, class)
  \/ \E size \in Sizes : Blank(size)
  \/ Failure
  \/ CameraReset

CameraSpec == CameraInit /\ [][CameraNext]_cameraVars

-----------------------------------------------------------------------------
(* Properties.                                                              *)

\* A camera that has no picture to show is called blind or failed in the end,
\* however blank frames and failures take turns: neither run hides the other.
SightlessIsTold == sightless >= BlindRun * FailedRun => said

\* Nothing moves in front of a camera that just restarted, nor between two
\* pictures of different sizes.
MotionIsCompared ==
  [][moved' # moved =>
       /\ inner.prev = inner'.prev /\ inner.prev # NoSize
       /\ ~inner.failed /\ inner'.frames > WarmupFrames]_cameraVars

\* What the camera says of itself, after every attempt, can be relied on.
CameraTold == [][SightlessIsTold']_cameraVars /\ MotionIsCompared
===============================================================================
