--------------------------- MODULE PluginLifecycle ---------------------------
(***************************************************************************)
(* What the plugin protocol promises about one scan (spec.md sections 3,   *)
(* 4.2 and 6), independent of threads and HTTP: the scanner leaves READY   *)
(* once, for RUNNING; while RUNNING its output file may be truncated and    *)
(* written; it ends in DONE, with a complete result document in the file,  *)
(* or in FAILED, whatever the file holds; DONE and FAILED are final; and a  *)
(* scan does not stay RUNNING for ever.                                     *)
(***************************************************************************)
VARIABLES
    state,      \* the Status.state the plugin reports
    output      \* the output file: "absent", "partial" or "complete"

vars == <<state, output>>

Init ==
    /\ state = "Ready"
    /\ output = "absent"

\* A configure is accepted and the scan begins.
Start ==
    /\ state = "Ready"
    /\ state' = "Running"
    /\ UNCHANGED output

\* The scan opens its output file for writing, truncating it.
Truncate ==
    /\ state = "Running"
    /\ output' = "partial"
    /\ UNCHANGED state

\* The scan writes its whole result document.
Persist ==
    /\ state = "Running"
    /\ output = "partial"
    /\ output' = "complete"
    /\ UNCHANGED state

\* The scan ends successfully, its result in place.
Succeed ==
    /\ state = "Running"
    /\ output = "complete"
    /\ state' = "Done"
    /\ UNCHANGED output

\* The scan ends in failure, leaving the file as it is.
Fail ==
    /\ state = "Running"
    /\ state' = "Failed"
    /\ UNCHANGED output

Next == Start \/ Truncate \/ Persist \/ Succeed \/ Fail

\* A running scan ends: Fail is enabled throughout RUNNING, so this rules
\* out staying RUNNING for ever and nothing else.
Spec == Init /\ [][Next]_vars /\ WF_vars(Succeed \/ Fail)

\* spec 6: the scanner reports Done only when a complete result document
\* is in its output file.
DoneComplete == state = "Done" => output = "complete"
=============================================================================
