---------------------------- MODULE GenericScanner ----------------------------
(***************************************************************************)
(* The plugin server driving an AbstractScanner other than ExampleScanner: *)
(* the same steps, plus an exception escaping scanner.start at any point   *)
(* of the scan.  start_scanner (server.py) wraps run_until_complete in     *)
(* try/finally with no except, so the exception closes the loop and ends   *)
(* the thread; nothing records it in the scanner's status.                 *)
(***************************************************************************)
EXTENDS PluginServer

\* start_scanner: scanner.start raises; finally: loop.close(); the thread
\* ends with the status as the scanner last set it.
ScanRaise(i) ==
    /\ Live(i)
    /\ SetPC(i, "raised")
    /\ UNCHANGED <<status, pending, resp, stops, files, cfgReqs, stopReqs>>

NextG == Next \/ \E i \in DOMAIN scans : ScanRaise(i)

SpecG == Init /\ [][NextG]_vars /\ Fairness
=============================================================================
