----------------------- MODULE AcquisitionLifecycle -----------------------
(***************************************************************************)
(* What an acquisition promises to whoever watches digitizerStateChanged:  *)
(* the states follow the order in which primaryButtonClicked reads them,   *)
(* the device is started only for an acquisition whose record processors   *)
(* were started, records are handed to them only while it runs, the first  *)
(* perhaps before ACTIVE is announced, and READY is announced only when    *)
(* the device was told to stop and they are finished.                      *)
(* Threads, queues and timers are gone.                                    *)
(***************************************************************************)

VARIABLES
    phase,      \* what Digitizer::getDigitizerState returns
    recording,  \* the record processors are between start and finish
    streaming,  \* the device was started and not told to stop since
    walking     \* a record is in the hands of the record processors

lifecycleVars == <<phase, recording, streaming, walking>>

TypeOK ==
    /\ phase \in {"READY", "STARTING", "STABILIZING", "STOPPING", "ACTIVE"}
    /\ recording \in BOOLEAN
    /\ streaming \in BOOLEAN
    /\ walking \in BOOLEAN

Init ==
    /\ phase = "READY"
    /\ recording = FALSE /\ streaming = FALSE /\ walking = FALSE

Goes(from, to) == phase \in from /\ phase' = to

Request ==
    /\ Goes({"READY"}, "STARTING")
    /\ UNCHANGED <<recording, streaming, walking>>

\* Nobody else uses the processors while they are started or finished.
Prepare ==
    /\ Goes({"STARTING"}, "STABILIZING")
    /\ ~walking
    /\ recording' = TRUE
    /\ UNCHANGED <<streaming, walking>>

\* An acquisition that could not be configured is given up by whoever asked
\* for it; the button leaves it in STARTING.
GiveUp ==
    /\ Goes({"STARTING"}, "READY")
    /\ ~recording /\ ~streaming
    /\ UNCHANGED <<recording, streaming, walking>>

\* The device is started before the acquisition is announced as ACTIVE.
Launch ==
    /\ phase = "STABILIZING" /\ recording
    /\ ~streaming /\ streaming' = TRUE
    /\ UNCHANGED <<phase, recording, walking>>

GoLive ==
    /\ Goes({"STABILIZING"}, "ACTIVE")
    /\ streaming
    /\ UNCHANGED <<recording, streaming, walking>>

\* A record is taken for the processors, and they are done with it.
BeginWalk ==
    /\ phase \in {"STABILIZING", "ACTIVE"} /\ recording /\ streaming
    /\ ~walking /\ walking' = TRUE
    /\ UNCHANGED <<phase, recording, streaming>>

EndWalk ==
    /\ walking /\ walking' = FALSE
    /\ UNCHANGED <<phase, recording, streaming>>

Halt ==
    /\ streaming /\ streaming' = FALSE
    /\ UNCHANGED <<phase, recording, walking>>

Drain ==
    /\ Goes({"ACTIVE"}, "STOPPING")
    /\ ~streaming
    /\ UNCHANGED <<recording, streaming, walking>>

Close ==
    /\ phase \in {"STABILIZING", "ACTIVE", "STOPPING"}
    /\ recording /\ ~streaming /\ ~walking
    /\ recording' = FALSE
    /\ UNCHANGED <<phase, streaming, walking>>

Complete ==
    /\ Goes({"STABILIZING", "ACTIVE", "STOPPING"}, "READY")
    /\ ~recording /\ ~streaming
    /\ UNCHANGED <<recording, streaming, walking>>

Next ==
    \/ Request \/ Prepare \/ GiveUp \/ Launch \/ GoLive \/ BeginWalk \/ EndWalk
    \/ Halt \/ Drain \/ Close \/ Complete

Spec == Init /\ [][Next]_lifecycleVars

=============================================================================
