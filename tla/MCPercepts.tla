------------------------------ MODULE MCPercepts ------------------------------
(* A camera and the agent that notices what it says, each in its own thread: *)
(* no step is of both.                                                        *)
EXTENDS Percepts

PerceptSpec ==
  /\ CameraInit /\ PerceptInit
  /\ [][\/ CameraNext /\ UNCHANGED perceptVars
        \/ PerceptNext /\ UNCHANGED cameraVars]_<<cameraVars, perceptVars>>
===============================================================================
