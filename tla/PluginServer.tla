---------------------------- MODULE PluginServer ----------------------------
(***************************************************************************)
(* The scanner plugin process of the VMClarity plugin SDK: the Flask      *)
(* control surface of plugin/server/server.py (_Server) driving the        *)
(* ExampleScanner of example/scanner.py.                                   *)
(*                                                                         *)
(* Flask's development server is threaded, so every request runs on a      *)
(* thread of its own; a client of this model is one such request context,  *)
(* issuing one request at a time.  post_config and post_stop each start a  *)
(* Thread that runs scanner.start / scanner.stop on a fresh event loop.    *)
(* The scanner's status is a reference replaced whole by set_status, so a  *)
(* read sees one Status; only its state is kept (the message is fixed by   *)
(* the state in ExampleScanner).                                           *)
(***************************************************************************)
EXTENDS Naturals, Sequences, FiniteSets

CONSTANTS
    Clients,            \* concurrent HTTP request contexts
    OutputFiles,        \* paths a Config.output_file may name
    NoConfig,           \* marks a request context with no configure pending
    MaxConfigRequests,  \* bound on POST /config requests in a behaviour
    MaxStopRequests     \* bound on POST /stop requests in a behaviour

ASSUME ConstantsAssumption ==
    /\ Clients # {}
    /\ NoConfig \notin OutputFiles
    /\ MaxConfigRequests \in Nat
    /\ MaxStopRequests \in Nat

\* plugin.models.State
NOTREADY == "NotReady"
READY    == "Ready"
RUNNING  == "Running"
DONE     == "Done"
FAILED   == "Failed"
States   == {NOTREADY, READY, RUNNING, DONE, FAILED}
Terminal == {DONE, FAILED}

\* server.py API_VERSION
API_VERSION == "1.0.0"

\* Program counter of a scan thread running ExampleScanner.start:
\*   "start"  spawned, not yet run        "sleep"  RUNNING set, awaiting sleep
\*   "dump"   output file opened (truncated) and json.dump in progress
\*   "done"   export_result returned      "ok" / "failed"  thread finished
ScanPCs   == {"start", "sleep", "dump", "done", "ok", "failed"}
FileStates == {"absent", "partial", "complete"}
Ops       == {"none", "healthz", "metadata", "status", "config", "stop"}
Responses == [op : Ops, code : {0, 200, 201, 400, 409, 503},
              body : States \cup {"none", "error", API_VERSION}]
NoResponse == [op |-> "none", code |-> 0, body |-> "none"]

VARIABLES
    status,     \* ExampleScanner.status.state
    pending,    \* [Clients -> OutputFiles \cup {NoConfig}]: post_config past its READY check
    resp,       \* [Clients -> Responses]: the last response each client received
    scans,      \* sequence of scan threads [pc, file], in spawn order
    stops,      \* number of stop threads not yet finished
    files,      \* [OutputFiles -> FileStates]
    cfgReqs,    \* POST /config requests handled so far
    stopReqs    \* POST /stop requests handled so far

vars == <<status, pending, resp, scans, stops, files, cfgReqs, stopReqs>>

-----------------------------------------------------------------------------
\* ExampleScanner.__init__ sets READY; nothing has been requested yet.
Init ==
    /\ status = READY
    /\ pending = [c \in Clients |-> NoConfig]
    /\ resp = [c \in Clients |-> NoResponse]
    /\ scans = <<>>
    /\ stops = 0
    /\ files = [f \in OutputFiles |-> "absent"]
    /\ cfgReqs = 0
    /\ stopReqs = 0

\* A request context is free to start a new request.
Idle(c) == pending[c] = NoConfig

Reply(c, op, code, body) ==
    resp' = [resp EXCEPT ![c] = [op |-> op, code |-> code, body |-> body]]

\* _Server.get_healthz: 503 iff the scanner reports NOTREADY.
GetHealthz(c) ==
    /\ Idle(c)
    /\ Reply(c, "healthz", IF status # NOTREADY THEN 200 ELSE 503, "none")
    /\ UNCHANGED <<status, pending, scans, stops, files, cfgReqs, stopReqs>>

\* _Server.get_metadata: api_version overwritten with the server's own.
GetMetadata(c) ==
    /\ Idle(c)
    /\ Reply(c, "metadata", 200, API_VERSION)
    /\ UNCHANGED <<status, pending, scans, stops, files, cfgReqs, stopReqs>>

\* _Server.get_status: the current status, verbatim.
GetStatus(c) ==
    /\ Idle(c)
    /\ Reply(c, "status", 200, status)
    /\ UNCHANGED <<status, pending, scans, stops, files, cfgReqs, stopReqs>>

\* _Server.post_config, request.get_json() failing on a body that is not
\* JSON: Flask answers 400 before the handler body runs.
PostConfigMalformed(c) ==
    /\ Idle(c)
    /\ Reply(c, "config", 400, "error")
    /\ UNCHANGED <<status, pending, scans, stops, files, cfgReqs, stopReqs>>

\* _Server.post_config up to its check of the scanner state: 409 when not
\* READY, otherwise the handler goes on to start the scan thread.
PostConfigCheck(c, f) ==
    /\ Idle(c)
    /\ cfgReqs < MaxConfigRequests
    /\ cfgReqs' = cfgReqs + 1
    /\ IF status # READY
         THEN /\ Reply(c, "config", 409, "error")
              /\ UNCHANGED pending
         ELSE /\ pending' = [pending EXCEPT ![c] = f]
              /\ UNCHANGED resp
    /\ UNCHANGED <<status, scans, stops, files, stopReqs>>

\* _Server.post_config after the check: Thread(target=start_scanner).start()
\* and 201, without waiting for the thread.
PostConfigSpawn(c) ==
    /\ pending[c] # NoConfig
    /\ scans' = Append(scans, [pc |-> "start", file |-> pending[c]])
    /\ pending' = [pending EXCEPT ![c] = NoConfig]
    /\ Reply(c, "config", 201, "none")
    /\ UNCHANGED <<status, stops, files, cfgReqs, stopReqs>>

\* _Server.post_stop on a body that is not JSON.
PostStopMalformed(c) ==
    /\ Idle(c)
    /\ Reply(c, "stop", 400, "error")
    /\ UNCHANGED <<status, pending, scans, stops, files, cfgReqs, stopReqs>>

\* _Server.post_stop: start a thread running scanner.stop, answer 201.
PostStop(c) ==
    /\ Idle(c)
    /\ stopReqs < MaxStopRequests
    /\ stopReqs' = stopReqs + 1
    /\ stops' = stops + 1
    /\ Reply(c, "stop", 201, "none")
    /\ UNCHANGED <<status, pending, scans, files, cfgReqs>>

-----------------------------------------------------------------------------
\* The scan thread i (start_scanner running ExampleScanner.start).
SetPC(i, p) == scans' = [scans EXCEPT ![i].pc = p]

\* Mutant of ScanStart: the set_status(RUNNING) before the sleep is dropped.
ScanStartNoRunning(i) ==
    /\ scans[i].pc = "start"
    /\ SetPC(i, "sleep")
    /\ UNCHANGED <<status, pending, resp, stops, files, cfgReqs, stopReqs>>

\* start: set_status(RUNNING), then await asyncio.sleep(5).
ScanStart(i) ==
    /\ scans[i].pc = "start"
    /\ status' = RUNNING
    /\ SetPC(i, "sleep")
    /\ UNCHANGED <<pending, resp, stops, files, cfgReqs, stopReqs>>

\* Mutant of ScanOpen: the failure path returns without set_status(FAILED).
ScanOpenSilentFailure(i) ==
    /\ scans[i].pc = "sleep"
    /\ \/ /\ SetPC(i, "failed")
          /\ UNCHANGED <<files, status>>
       \/ /\ files' = [files EXCEPT ![scans[i].file] = "partial"]
          /\ SetPC(i, "dump")
          /\ UNCHANGED status
    /\ UNCHANGED <<pending, resp, stops, cfgReqs, stopReqs>>

\* export_result: open(output_file, 'w') either fails (FAILED, return) or
\* truncates the file, leaving it without a complete document.
ScanOpen(i) ==
    /\ scans[i].pc = "sleep"
    /\ \/ /\ status' = FAILED
          /\ SetPC(i, "failed")
          /\ UNCHANGED files
       \/ /\ files' = [files EXCEPT ![scans[i].file] = "partial"]
          /\ SetPC(i, "dump")
          /\ UNCHANGED status
    /\ UNCHANGED <<pending, resp, stops, cfgReqs, stopReqs>>

\* Mutant of ScanDump: the except branch logs and returns, dropping the
\* set_status(FAILED).
ScanDumpNoFailedStatus(i) ==
    /\ scans[i].pc = "dump"
    /\ \/ /\ files' = [files EXCEPT ![scans[i].file] = "complete"]
          /\ SetPC(i, "done")
       \/ /\ SetPC(i, "failed")
          /\ UNCHANGED files
    /\ UNCHANGED <<status, pending, resp, stops, cfgReqs, stopReqs>>

\* export_result: json.dump and close either write the whole document (in
\* one buffered write at offset 0) or raise, leaving the file as it is;
\* the except branch sets FAILED and returns.
ScanDump(i) ==
    /\ scans[i].pc = "dump"
    /\ \/ /\ files' = [files EXCEPT ![scans[i].file] = "complete"]
          /\ SetPC(i, "done")
          /\ UNCHANGED status
       \/ /\ status' = FAILED
          /\ SetPC(i, "failed")
          /\ UNCHANGED files
    /\ UNCHANGED <<pending, resp, stops, cfgReqs, stopReqs>>

\* Mutant of ScanDone: DONE is set while export_result is still writing.
ScanDoneBeforeExport(i) ==
    /\ scans[i].pc \in {"dump", "done"}
    /\ status' = DONE
    /\ SetPC(i, "ok")
    /\ UNCHANGED <<pending, resp, stops, files, cfgReqs, stopReqs>>

\* start: set_status(DONE) after export_result returned.
ScanDone(i) ==
    /\ scans[i].pc = "done"
    /\ status' = DONE
    /\ SetPC(i, "ok")
    /\ UNCHANGED <<pending, resp, stops, files, cfgReqs, stopReqs>>

ScanStep(i) == ScanStart(i) \/ ScanOpen(i) \/ ScanDump(i) \/ ScanDone(i)

\* A stop thread: ExampleScanner.stop returns at once, the loop is closed.
StopRun ==
    /\ stops > 0
    /\ stops' = stops - 1
    /\ UNCHANGED <<status, pending, resp, scans, files, cfgReqs, stopReqs>>

-----------------------------------------------------------------------------
Next ==
    \/ \E c \in Clients :
          \/ GetHealthz(c) \/ GetMetadata(c) \/ GetStatus(c)
          \/ PostConfigMalformed(c) \/ PostConfigSpawn(c)
          \/ \E f \in OutputFiles : PostConfigCheck(c, f)
          \/ PostStopMalformed(c) \/ PostStop(c)
    \/ \E i \in DOMAIN scans : ScanStep(i)
    \/ StopRun

\* Started threads are scheduled, and a handler past its check finishes;
\* clients are free never to send another request.
Fairness ==
    /\ \A c \in Clients : WF_vars(PostConfigSpawn(c))
    /\ \A i \in 1..MaxConfigRequests : WF_vars(i \in DOMAIN scans /\ ScanStep(i))
    /\ WF_vars(StopRun)

Spec == Init /\ [][Next]_vars /\ Fairness

-----------------------------------------------------------------------------
(***************************************************************************)
(* Properties.                                                             *)
(***************************************************************************)
TypeOK ==
    /\ status \in States
    /\ pending \in [Clients -> OutputFiles \cup {NoConfig}]
    /\ resp \in [Clients -> Responses]
    /\ scans \in Seq([pc : ScanPCs, file : OutputFiles])
    /\ stops \in Nat
    /\ files \in [OutputFiles -> FileStates]
    /\ cfgReqs \in Nat
    /\ stopReqs \in Nat

\* A scan thread that has not returned from ExampleScanner.start.
Live(i) == scans[i].pc \in {"start", "sleep", "dump", "done"}

\* Every scan thread that was started has returned.
Quiescent == scans # <<>> /\ \A i \in DOMAIN scans : ~Live(i)

\* Once every scan thread started by post_config has returned, the scanner
\* reports DONE or FAILED: no path through ExampleScanner.start, however the
\* threads interleave and whichever I/O step fails, leaves the status at
\* RUNNING (or READY) with nobody left to change it.
QuiescentTerminal == Quiescent => status \in Terminal

\* The status the host polls tells the truth about the scan threads however
\* many configures raced: it is READY exactly until some thread has run the
\* set_status(RUNNING) at the top of ExampleScanner.start, and a DONE or
\* FAILED was written by a thread that really ended that way (export_result
\* succeeded, or the open or dump failed) and never runs again.
StatusReflectsScans ==
    /\ status = READY <=> \A i \in DOMAIN scans : scans[i].pc = "start"
    /\ status = DONE => \E i \in DOMAIN scans : scans[i].pc = "ok"
    /\ status = FAILED => \E i \in DOMAIN scans : scans[i].pc = "failed"

\* Every step that ends a scan thread (returns from ExampleScanner.start,
\* whichever way) writes DONE or FAILED in that same step: no path out of
\* start, failure paths included, leaves the status as the thread found it.
RetiresTerminal ==
    [][\A i \in DOMAIN scans : Live(i) /\ ~Live(i)' => status' \in Terminal]_vars

\* After a configure has been accepted, the scanner eventually reports DONE
\* or FAILED for good: the scan threads run to completion and nothing sets
\* the status back to READY or RUNNING afterwards.
EventuallyTerminal == (scans # <<>>) ~> [](status \in Terminal)

\* spec 4.3: at most one configure is accepted (and one scan started) per
\* plugin process, because post_config's READY check and the move to
\* RUNNING are atomic.
ConfigAcceptedOnce == Len(scans) <= 1

\* spec 5: once post_config has answered 201, a status read never returns
\* READY, because READY -> RUNNING happens before the 201.
AcceptedNotReady == (scans # <<>>) => status # READY

\* spec 6: when the plugin reports DONE and no scan is left running, the
\* output file of every scan that finished successfully holds a complete
\* result document for the host to read.
DoneResultIntact ==
    (Quiescent /\ status = DONE) =>
        \A i \in DOMAIN scans :
            scans[i].pc = "ok" => files[scans[i].file] = "complete"

\* However many configures race, a scan whose export_result has returned
\* keeps its complete result document unless another accepted configure
\* named the same output_file: the truncation DoneResultIntact runs into
\* comes only from a second open(output_file, 'w') on that path.
UnsharedResultIntact ==
    \A i \in DOMAIN scans :
        /\ scans[i].pc \in {"done", "ok"}
        /\ \A j \in DOMAIN scans \ {i} : scans[j].file # scans[i].file
        => files[scans[i].file] = "complete"

-----------------------------------------------------------------------------
(***************************************************************************)
(* Refinement of the abstract lifecycle: the status is the abstract state  *)
(* and the output file of the first accepted configure is the abstract     *)
(* output.                                                                 *)
(***************************************************************************)
ResultFile == IF scans = <<>> THEN "absent" ELSE files[scans[1].file]

Lifecycle == INSTANCE PluginLifecycle WITH state <- status, output <- ResultFile

\* The plugin process implements the protocol's lifecycle of one scan:
\* post_config's check, the scan thread's set_status calls and
\* export_result's open and dump map to Start, Fail, Succeed, Truncate and
\* Persist, and every other handler to a stutter; the scan thread's
\* weak fairness gives the abstract progress.
ImplementsLifecycle == Lifecycle!Spec

=============================================================================
