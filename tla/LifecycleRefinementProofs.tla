---------------------- MODULE LifecycleRefinementProofs ----------------------
(***************************************************************************)
(* A plugin process that accepts one configure implements the safety part  *)
(* of PluginLifecycle under the mapping state <- status,                   *)
(* output <- ResultFile, for every set of request contexts and paths and   *)
(* every bound on stop requests; and, through the refinement, that DONE   *)
(* is reported only with a complete result file.                           *)
(***************************************************************************)
EXTENDS PluginServerProofs

\* What the one scan thread's pc says of the status and of its output file.
PhaseOK(s, st, fs) ==
    /\ s.pc = "start"  => st = READY /\ fs[s.file] = "absent"
    /\ s.pc = "sleep"  => st = RUNNING
    /\ s.pc = "dump"   => st = RUNNING /\ fs[s.file] = "partial"
    /\ s.pc = "done"   => st = RUNNING /\ fs[s.file] = "complete"
    /\ s.pc = "ok"     => st = DONE /\ fs[s.file] = "complete"
    /\ s.pc = "failed" => st = FAILED

PhaseMatches(s) == PhaseOK(s, status, files)

(***************************************************************************)
(* With one configure allowed, at most one request context is past its     *)
(* READY check, at most one scan thread exists, and before it exists the   *)
(* status is READY and every file untouched; afterwards PhaseMatches.      *)
(***************************************************************************)
RInv ==
    /\ TypeOK
    /\ cfgReqs \in 0..1
    /\ Len(scans) <= 1
    /\ \A c \in Clients : pending[c] # NoConfig =>
          /\ cfgReqs = 1 /\ scans = <<>>
          /\ \A d \in Clients \ {c} : pending[d] = NoConfig
    /\ scans = <<>> => status = READY /\ \A f \in OutputFiles : files[f] = "absent"
    /\ scans # <<>> => cfgReqs = 1 /\ PhaseMatches(scans[1])

\* A scan thread of a state satisfying RInv is the first and only one.
LEMMA OnlyScan ==
    ASSUME RInv, NEW i \in DOMAIN scans
    PROVE  /\ i = 1
           /\ Len(scans) = 1
           /\ scans # <<>>
  <1>1. scans \in Seq(ScanRec)
    BY DEF RInv, TypeOK, ScanRec
  <1>2. DOMAIN scans = 1..Len(scans) /\ Len(scans) <= 1
    BY <1>1 DEF RInv
  <1>3. QED
    BY <1>2

\* A step of the thread that sets its pc keeps it the only thread, with its
\* file, and leaves no request context past its check.
LEMMA ScanStepShape ==
    ASSUME RInv, NEW i \in DOMAIN scans, NEW p \in ScanPCs, SetPC(i, p)
    PROVE  /\ Len(scans') = 1
           /\ scans'[1] = [pc |-> p, file |-> scans[1].file]
           /\ scans' # <<>>
           /\ \A c \in Clients : pending[c] = NoConfig
           /\ cfgReqs = 1
  <1>1. i = 1 /\ Len(scans) = 1 /\ scans # <<>>
    BY OnlyScan
  <1>2. scans \in Seq(ScanRec)
    BY DEF RInv, TypeOK, ScanRec
  <1>3. /\ scans' \in Seq(ScanRec)
        /\ DOMAIN scans' = DOMAIN scans
        /\ scans'[1].pc = p
        /\ scans'[1].file = scans[1].file
    BY <1>1, <1>2, SetPCFacts DEF SetPC
  <1>4. scans'[1] \in ScanRec
    BY <1>1, <1>3
  <1>5. \A c \in Clients : pending[c] = NoConfig
    BY <1>1 DEF RInv
  <1>6. cfgReqs = 1
    BY <1>1 DEF RInv
  <1>7. Len(scans') = 1 /\ scans' # <<>>
    BY <1>1, <1>3
  <1>8. QED
    BY <1>3, <1>4, <1>5, <1>6, <1>7 DEF ScanRec

\* Handlers that leave the status, the threads, the files, the pending
\* checks and the configure counter alone.
ReadOnly ==
    UNCHANGED <<status, pending, scans, files, cfgReqs>>

LEMMA ReadOnlySteps ==
    ASSUME NEW c \in Clients,
           \/ GetHealthz(c) \/ GetMetadata(c) \/ GetStatus(c)
           \/ PostConfigMalformed(c) \/ PostStopMalformed(c) \/ PostStop(c)
           \/ StopRun \/ UNCHANGED vars
    PROVE  ReadOnly
  BY DEF ReadOnly, GetHealthz, GetMetadata, GetStatus, PostConfigMalformed,
         PostStopMalformed, PostStop, StopRun, vars

\* RInv is an inductive invariant of a process that accepts one configure.
LEMMA RInvStep ==
    ASSUME MaxConfigRequests = 1, RInv, [Next]_vars
    PROVE  RInv'
  <1>0. TypeOK'
    BY TypeOKStep DEF RInv
  <1>1. ASSUME ReadOnly PROVE RInv'
    BY <1>0, <1>1 DEF RInv, ReadOnly, PhaseMatches
  <1>2. ASSUME NEW c \in Clients, NEW f \in OutputFiles, PostConfigCheck(c, f)
        PROVE  RInv'
    <2>1. cfgReqs = 0
      BY <1>2 DEF PostConfigCheck, RInv
    <2>2. scans = <<>> /\ status = READY /\ \A d \in Clients : pending[d] = NoConfig
      BY <2>1 DEF RInv
    <2>3. /\ pending' = [pending EXCEPT ![c] = f]
          /\ cfgReqs' = 1
          /\ UNCHANGED <<status, scans, files>>
      BY <1>2, <2>1, <2>2 DEF PostConfigCheck
    <2>4. f # NoConfig
      BY ConstantsAssumption
    <2>5. QED
      BY <1>0, <2>2, <2>3, <2>4 DEF RInv, TypeOK
  <1>3. ASSUME NEW c \in Clients, PostConfigSpawn(c)
        PROVE  RInv'
    <2>1. /\ cfgReqs = 1 /\ scans = <<>>
          /\ \A d \in Clients \ {c} : pending[d] = NoConfig
          /\ status = READY /\ \A f \in OutputFiles : files[f] = "absent"
      BY <1>3 DEF PostConfigSpawn, RInv
    <2>2. pending[c] \in OutputFiles
      BY <1>3 DEF PostConfigSpawn, RInv, TypeOK
    <2>3. /\ scans' = <<[pc |-> "start", file |-> pending[c]]>>
          /\ \A d \in Clients : pending'[d] = NoConfig
          /\ UNCHANGED <<status, files, cfgReqs>>
      <3>1. scans' = Append(<<>>, [pc |-> "start", file |-> pending[c]])
        BY <1>3, <2>1 DEF PostConfigSpawn
      <3>2. pending' = [pending EXCEPT ![c] = NoConfig]
        BY <1>3 DEF PostConfigSpawn
      <3>3. pending \in [Clients -> OutputFiles \cup {NoConfig}]
        BY DEF RInv, TypeOK
      <3>4. QED
        BY <1>3, <2>1, <3>1, <3>2, <3>3 DEF PostConfigSpawn
    <2>4. PhaseOK(scans'[1], status', files')
      BY <2>1, <2>2, <2>3 DEF PhaseOK
    <2>5. QED
      BY <1>0, <2>1, <2>3, <2>4 DEF RInv, PhaseMatches
  <1>4. ASSUME NEW i \in DOMAIN scans, ScanStep(i)
        PROVE  RInv'
    <2> DEFINE s == scans[1]
    <2>1. UNCHANGED <<pending, cfgReqs>>
      BY <1>4 DEF ScanStep, ScanStart, ScanOpen, ScanDump, ScanDone
    <2>2. i = 1 /\ scans # <<>>
      BY OnlyScan
    <2>3. s \in ScanRec /\ PhaseMatches(s)
      <3>1. scans \in Seq(ScanRec)
        BY DEF RInv, TypeOK, ScanRec
      <3>2. QED
        BY <2>2, <3>1 DEF RInv
    <2>4. \A p \in ScanPCs : SetPC(i, p) =>
             /\ Len(scans') = 1 /\ scans' # <<>>
             /\ \A c \in Clients : pending'[c] = NoConfig
             /\ cfgReqs' = 1
             /\ scans'[1] = [pc |-> p, file |-> s.file]
      BY <2>1, ScanStepShape
    \* RInv' follows once the new pc and the status and file it implies are known.
    <2>5. ASSUME NEW p \in ScanPCs, SetPC(i, p), PhaseOK([pc |-> p, file |-> s.file], status', files')
          PROVE  RInv'
      BY <1>0, <2>4, <2>5 DEF RInv, PhaseMatches
    <2>6. CASE ScanStart(i)
      <3>1. status' = RUNNING /\ SetPC(i, "sleep")
        BY <2>6 DEF ScanStart
      <3>2. PhaseOK([pc |-> "sleep", file |-> s.file], status', files')
        BY <3>1 DEF PhaseOK
      <3>3. QED
        BY <3>1, <3>2, <2>5 DEF ScanPCs
    <2>7. CASE ScanOpen(i)
      <3>1. s.pc = "sleep"
        BY <2>7, <2>2 DEF ScanOpen
      <3>2. CASE status' = FAILED /\ SetPC(i, "failed")
        <4>1. PhaseOK([pc |-> "failed", file |-> s.file], status', files')
          BY <3>2 DEF PhaseOK
        <4>2. QED
          BY <3>2, <4>1, <2>5 DEF ScanPCs
      <3>3. CASE files' = [files EXCEPT ![s.file] = "partial"] /\ SetPC(i, "dump")
                 /\ UNCHANGED status
        <4>1. status = RUNNING
          BY <2>3, <3>1 DEF PhaseMatches, PhaseOK
        <4>2. files' [s.file] = "partial"
          BY <2>3, <3>3 DEF RInv, TypeOK, ScanRec
        <4>3. PhaseOK([pc |-> "dump", file |-> s.file], status', files')
          BY <3>3, <4>1, <4>2 DEF PhaseOK
        <4>4. QED
          BY <3>3, <4>3, <2>5 DEF ScanPCs
      <3>4. QED
        BY <2>7, <2>2, <3>2, <3>3 DEF ScanOpen
    <2>8. CASE ScanDump(i)
      <3>1. s.pc = "dump"
        BY <2>8, <2>2 DEF ScanDump
      <3>2. CASE files' = [files EXCEPT ![s.file] = "complete"] /\ SetPC(i, "done")
                 /\ UNCHANGED status
        <4>1. status = RUNNING
          BY <2>3, <3>1 DEF PhaseMatches, PhaseOK
        <4>2. files'[s.file] = "complete"
          BY <2>3, <3>2 DEF RInv, TypeOK, ScanRec
        <4>3. PhaseOK([pc |-> "done", file |-> s.file], status', files')
          BY <3>2, <4>1, <4>2 DEF PhaseOK
        <4>4. QED
          BY <3>2, <4>3, <2>5 DEF ScanPCs
      <3>3. CASE status' = FAILED /\ SetPC(i, "failed")
        <4>1. PhaseOK([pc |-> "failed", file |-> s.file], status', files')
          BY <3>3 DEF PhaseOK
        <4>2. QED
          BY <3>3, <4>1, <2>5 DEF ScanPCs
      <3>4. QED
        BY <2>8, <2>2, <3>2, <3>3 DEF ScanDump
    <2>9. CASE ScanDone(i)
      <3>1. status' = DONE /\ SetPC(i, "ok") /\ files' = files /\ s.pc = "done"
        BY <2>9, <2>2 DEF ScanDone
      <3>2. PhaseOK([pc |-> "ok", file |-> s.file], status', files')
        \* ScanDone writes no file: the one export_result finished stays complete.
        BY <3>1, <2>3 DEF PhaseOK, PhaseMatches
      <3>3. QED
        BY <3>1, <3>2, <2>5 DEF ScanPCs
    <2>10. QED
      BY <1>4, <2>6, <2>7, <2>8, <2>9 DEF ScanStep
  <1>5. QED
    <2>1. CASE \E c \in Clients :
                 \/ GetHealthz(c) \/ GetMetadata(c) \/ GetStatus(c)
                 \/ PostConfigMalformed(c) \/ PostStopMalformed(c) \/ PostStop(c)
      BY <2>1, <1>1, ReadOnlySteps
    <2>2. CASE StopRun \/ UNCHANGED vars
      <3>1. PICK c \in Clients : TRUE
        BY ConstantsAssumption
      <3>2. QED
        BY <2>2, <1>1, ReadOnlySteps
    <2>3. QED
      BY <2>1, <2>2, <1>2, <1>3, <1>4 DEF Next

\* The output file the abstract lifecycle sees, before and after a step of
\* the one scan thread.
LEMMA ResultFileOfScan ==
    ASSUME RInv, NEW i \in DOMAIN scans, NEW p \in ScanPCs, SetPC(i, p)
    PROVE  /\ ResultFile = files[scans[1].file]
           /\ ResultFile' = files'[scans[1].file]
  <1>1. scans # <<>> /\ scans' # <<>>
    BY ScanStepShape, OnlyScan
  <1>2. scans'[1] = [pc |-> p, file |-> scans[1].file]
    BY ScanStepShape
  <1>3. scans'[1].file = scans[1].file
    BY <1>2
  <1>4. QED
    BY <1>1, <1>3 DEF ResultFile

(***************************************************************************)
(* A plugin process that accepts one configure implements the lifecycle of *)
(* spec.md: its status starts at READY with no output, and every handler   *)
(* or thread step is a lifecycle step or leaves the status and the output  *)
(* file alone.  So post_config's check and spawn, ScanStart's RUNNING,     *)
(* export_result's open and dump and the final DONE or FAILED happen in    *)
(* the protocol's order, and DONE is only reported over a complete result. *)
(***************************************************************************)
THEOREM RefinesLifecycle ==
    ASSUME MaxConfigRequests = 1
    PROVE  Spec => Lifecycle!Init /\ [][Lifecycle!Next]_Lifecycle!vars
  <1>1. Init => RInv
    BY DEF Init, RInv, TypeOK, NoResponse, Responses, Ops, States, FileStates
  <1>2. Init => Lifecycle!Init
    BY DEF Init, Lifecycle!Init, ResultFile, READY
  <1>3. RInv /\ [Next]_vars => [Lifecycle!Next]_Lifecycle!vars
    <2> SUFFICES ASSUME RInv, [Next]_vars
                 PROVE  [Lifecycle!Next]_Lifecycle!vars
      OBVIOUS
    <2>1. ASSUME UNCHANGED <<status, scans, files>>
          PROVE  [Lifecycle!Next]_Lifecycle!vars
      BY <2>1 DEF Lifecycle!vars, ResultFile
    <2>2. ASSUME NEW c \in Clients, NEW f \in OutputFiles, PostConfigCheck(c, f)
          PROVE  [Lifecycle!Next]_Lifecycle!vars
      BY <2>2, <2>1 DEF PostConfigCheck
    <2>3. ASSUME NEW c \in Clients, PostConfigSpawn(c)
          PROVE  [Lifecycle!Next]_Lifecycle!vars
      <3>1. scans = <<>> /\ status = READY /\ \A f \in OutputFiles : files[f] = "absent"
        BY <2>3 DEF PostConfigSpawn, RInv
      <3>2. pending[c] \in OutputFiles
        BY <2>3 DEF PostConfigSpawn, RInv, TypeOK
      <3>3. scans' = <<[pc |-> "start", file |-> pending[c]]>> /\ UNCHANGED <<status, files>>
        BY <2>3, <3>1 DEF PostConfigSpawn
      <3>4. ResultFile = "absent" /\ ResultFile' = "absent"
        BY <3>1, <3>2, <3>3 DEF ResultFile
      <3>5. QED
        BY <3>3, <3>4 DEF Lifecycle!vars
    <2>4. ASSUME NEW i \in DOMAIN scans, ScanStep(i)
          PROVE  [Lifecycle!Next]_Lifecycle!vars
      <3> DEFINE s == scans[1]
      <3>1. s \in ScanRec /\ PhaseMatches(s) /\ i = 1
        <4>1. scans \in Seq(ScanRec)
          BY DEF RInv, TypeOK, ScanRec
        <4>2. QED
          BY <4>1, OnlyScan DEF RInv
      <3>2. CASE ScanStart(i)
        <4>1. s.pc = "start" /\ status' = RUNNING /\ SetPC(i, "sleep")
              /\ UNCHANGED files
          BY <3>1, <3>2 DEF ScanStart
        <4>2. status = READY
          BY <3>1, <4>1 DEF PhaseMatches, PhaseOK
        <4>3. ResultFile' = ResultFile
          BY <4>1, ResultFileOfScan DEF ScanPCs
        <4>4. QED
          BY <4>1, <4>2, <4>3 DEF Lifecycle!Next, Lifecycle!Start,
                 READY, RUNNING, DONE, FAILED
      <3>3. CASE ScanOpen(i)
        <4>1. s.pc = "sleep" /\ status = RUNNING
          BY <3>1, <3>3 DEF ScanOpen, PhaseMatches, PhaseOK
        <4>2. CASE status' = FAILED /\ SetPC(i, "failed") /\ UNCHANGED files
          <5>1. ResultFile' = ResultFile
            BY <4>2, ResultFileOfScan DEF ScanPCs
          <5>2. QED
            BY <4>1, <4>2, <5>1 DEF Lifecycle!Next, Lifecycle!Fail,
                 READY, RUNNING, DONE, FAILED
        <4>3. CASE files' = [files EXCEPT ![s.file] = "partial"] /\ SetPC(i, "dump")
                   /\ UNCHANGED status
          <5>1. ResultFile' = "partial"
            BY <3>1, <4>3, ResultFileOfScan DEF ScanPCs, RInv, TypeOK, ScanRec
          <5>2. QED
            BY <4>1, <4>3, <5>1 DEF Lifecycle!Next, Lifecycle!Truncate,
                 READY, RUNNING, DONE, FAILED
        <4>4. QED
          BY <3>1, <3>3, <4>2, <4>3 DEF ScanOpen
      <3>4. CASE ScanDump(i)
        <4>1. s.pc = "dump" /\ status = RUNNING /\ files[s.file] = "partial"
          BY <3>1, <3>4 DEF ScanDump, PhaseMatches, PhaseOK
        <4>2. CASE files' = [files EXCEPT ![s.file] = "complete"] /\ SetPC(i, "done")
                   /\ UNCHANGED status
          <5>1. ResultFile = "partial" /\ ResultFile' = "complete"
            BY <3>1, <4>1, <4>2, ResultFileOfScan DEF ScanPCs, RInv, TypeOK, ScanRec
          <5>2. QED
            BY <4>1, <4>2, <5>1 DEF Lifecycle!Next, Lifecycle!Persist,
                 READY, RUNNING, DONE, FAILED
        <4>3. CASE status' = FAILED /\ SetPC(i, "failed") /\ UNCHANGED files
          <5>1. ResultFile' = ResultFile
            BY <4>3, ResultFileOfScan DEF ScanPCs
          <5>2. QED
            BY <4>1, <4>3, <5>1 DEF Lifecycle!Next, Lifecycle!Fail,
                 READY, RUNNING, DONE, FAILED
        <4>4. QED
          BY <3>1, <3>4, <4>2, <4>3 DEF ScanDump
      <3>5. CASE ScanDone(i)
        <4>1. /\ s.pc = "done" /\ status' = DONE /\ SetPC(i, "ok")
              /\ UNCHANGED files
          BY <3>1, <3>5 DEF ScanDone
        <4>2. status = RUNNING /\ files[s.file] = "complete"
          BY <3>1, <4>1 DEF PhaseMatches, PhaseOK
        <4>3. ResultFile = "complete" /\ ResultFile' = ResultFile
          BY <4>1, <4>2, ResultFileOfScan DEF ScanPCs
        <4>4. QED
          BY <4>1, <4>2, <4>3 DEF Lifecycle!Next, Lifecycle!Succeed,
                 READY, RUNNING, DONE, FAILED
      <3>6. QED
        BY <2>4, <3>2, <3>3, <3>4, <3>5 DEF ScanStep
    <2>5. QED
      <3>1. ASSUME NEW c \in Clients,
                   \/ GetHealthz(c) \/ GetMetadata(c) \/ GetStatus(c)
                   \/ PostConfigMalformed(c) \/ PostStopMalformed(c) \/ PostStop(c)
            PROVE  [Lifecycle!Next]_Lifecycle!vars
        BY <3>1, <2>1, ReadOnlySteps DEF ReadOnly
      <3>2. ASSUME StopRun \/ UNCHANGED vars
            PROVE  [Lifecycle!Next]_Lifecycle!vars
        BY <3>2, <2>1 DEF StopRun, vars
      <3>3. QED
        BY <3>1, <3>2, <2>2, <2>3, <2>4 DEF Next
  <1>4. RInv /\ [Next]_vars => RInv'
    BY RInvStep
  <1>5. QED
    BY <1>1, <1>2, <1>3, <1>4, PTL DEF Spec

-----------------------------------------------------------------------------
\* Every step of the abstract lifecycle keeps DoneComplete: only Succeed
\* writes Done, and it requires the complete document, which no step on
\* from Done can change (Truncate and Persist need Running).
LEMMA LifecycleKeepsDoneComplete ==
    Lifecycle!DoneComplete /\ [Lifecycle!Next]_Lifecycle!vars => Lifecycle!DoneComplete'
  BY DEF Lifecycle!DoneComplete, Lifecycle!Next, Lifecycle!vars,
         Lifecycle!Start, Lifecycle!Truncate, Lifecycle!Persist,
         Lifecycle!Succeed, Lifecycle!Fail

\* A plugin process that accepts one configure reports DONE only with a
\* complete result in the output file of its scan: spec 6's guarantee,
\* obtained from the abstract lifecycle through the refinement alone.
THEOREM DoneReportsResult ==
    ASSUME MaxConfigRequests = 1
    PROVE  Spec => []Lifecycle!DoneComplete
  <1>1. Spec => Lifecycle!Init /\ [][Lifecycle!Next]_Lifecycle!vars
    BY RefinesLifecycle
  <1>2. Lifecycle!Init => Lifecycle!DoneComplete
    BY DEF Lifecycle!Init, Lifecycle!DoneComplete
  <1>3. Lifecycle!Init /\ [][Lifecycle!Next]_Lifecycle!vars => []Lifecycle!DoneComplete
    BY <1>2, LifecycleKeepsDoneComplete, PTL
  <1>4. QED
    BY <1>1, <1>3
=============================================================================
