------------------------- MODULE PluginServerProofs -------------------------
(***************************************************************************)
(* Proofs about PluginServer for every set of request contexts and output  *)
(* paths and every bound on the requests.                                  *)
(***************************************************************************)
EXTENDS PluginServer, TLAPS

ScanRec == [pc : ScanPCs, file : OutputFiles]

\* Setting one scan thread's pc keeps scans a sequence of scan records of
\* the same length, changes only that thread's pc, and no other thread.
LEMMA SetPCFacts ==
    ASSUME NEW s \in Seq(ScanRec), NEW i \in DOMAIN s, NEW p \in ScanPCs
    PROVE  LET t == [s EXCEPT ![i].pc = p] IN
             /\ t \in Seq(ScanRec)
             /\ DOMAIN t = DOMAIN s
             /\ t[i].pc = p
             /\ t[i].file = s[i].file
             /\ \A j \in DOMAIN s : j # i => t[j] = s[j]
  <1> DEFINE t == [s EXCEPT ![i].pc = p]
  <1>1. s[i] \in ScanRec
    OBVIOUS
  <1>2. t[i] = [pc |-> p, file |-> s[i].file]
    BY <1>1 DEF ScanRec
  <1>3. t[i] \in ScanRec
    BY <1>1, <1>2 DEF ScanRec
  <1>4. \A j \in DOMAIN s : j # i => t[j] = s[j]
    OBVIOUS
  <1>5. t \in Seq(ScanRec)
    BY <1>3, <1>4
  <1>6. QED
    BY <1>2, <1>4, <1>5

\* Every handler and thread step keeps the variables in their types.
LEMMA TypeOKStep == TypeOK /\ [Next]_vars => TypeOK'
    <2> SUFFICES ASSUME TypeOK, [Next]_vars PROVE TypeOK'
      OBVIOUS
    <2>1. ASSUME NEW c \in Clients,
                 \/ GetHealthz(c) \/ GetMetadata(c) \/ GetStatus(c)
                 \/ PostConfigMalformed(c) \/ PostStopMalformed(c)
          PROVE  TypeOK'
      BY <2>1 DEF TypeOK, GetHealthz, GetMetadata, GetStatus,
                  PostConfigMalformed, PostStopMalformed, Reply, Responses,
                  Ops, States
    <2>2. ASSUME NEW c \in Clients, NEW f \in OutputFiles, PostConfigCheck(c, f)
          PROVE  TypeOK'
      <3>1. CASE status # READY
        BY <2>2, <3>1 DEF TypeOK, PostConfigCheck, Reply, Responses, Ops, States
      <3>2. CASE status = READY
        BY <2>2, <3>2 DEF TypeOK, PostConfigCheck
      <3>3. QED
        BY <3>1, <3>2
    <2>3. ASSUME NEW c \in Clients, PostConfigSpawn(c)
          PROVE  TypeOK'
      BY <2>3 DEF TypeOK, PostConfigSpawn, Reply, Responses, Ops, ScanPCs
    <2>4. ASSUME NEW c \in Clients, PostStop(c)
          PROVE  TypeOK'
      BY <2>4 DEF TypeOK, PostStop, Reply, Responses, Ops
    <2>5. ASSUME NEW i \in DOMAIN scans, ScanStep(i)
          PROVE  TypeOK'
      <3> USE DEF TypeOK, States, FileStates
      <3>1. \A p \in ScanPCs : [scans EXCEPT ![i].pc = p] \in Seq(ScanRec)
        BY SetPCFacts DEF ScanRec
      <3>2. QED
        BY <2>5, <3>1 DEF ScanStep, ScanStart, ScanOpen, ScanDump, ScanDone,
                          SetPC, ScanRec, ScanPCs
    <2>6. CASE StopRun
      BY <2>6 DEF TypeOK, StopRun
    <2>7. CASE UNCHANGED vars
      BY <2>7 DEF TypeOK, vars
    <2>8. QED
      BY <2>1, <2>2, <2>3, <2>4, <2>5, <2>6, <2>7 DEF Next

\* The variables of the plugin process always have their types.
THEOREM TypeCorrect == Spec => []TypeOK
  <1>1. Init => TypeOK
    BY DEF Init, TypeOK, NoResponse, Responses, Ops, States, FileStates
  <1>2. QED
    BY <1>1, TypeOKStep, PTL DEF Spec

(***************************************************************************)
(* QuiescentTerminal is inductive together with TypeOK: the only step that *)
(* sets RUNNING (ScanStart) leaves its own thread live, every step that     *)
(* retires a thread writes DONE or FAILED, and a newly spawned thread is    *)
(* live; no other step writes the status.                                   *)
(***************************************************************************)
IInv == TypeOK /\ QuiescentTerminal

\* Once every scan thread has returned, the status is DONE or FAILED.
THEOREM QuiescentTerminalHolds == Spec => []QuiescentTerminal
  <1>1. Init => IInv
    BY DEF Init, IInv, TypeOK, QuiescentTerminal, Quiescent, NoResponse,
           Responses, Ops, States, FileStates
  <1>2. IInv /\ [Next]_vars => IInv'
    <2> SUFFICES ASSUME IInv, [Next]_vars PROVE IInv'
      OBVIOUS
    <2>0. TypeOK'
      BY TypeOKStep DEF IInv
    <2> USE DEF IInv
    <2> SUFFICES QuiescentTerminal'
      BY <2>0
    <2>1. CASE UNCHANGED <<status, scans>>
      BY <2>1 DEF QuiescentTerminal, Quiescent, Live
    <2>2. ASSUME NEW c \in Clients, PostConfigSpawn(c)
          PROVE  QuiescentTerminal'
      <3>1. scans'[Len(scans')].pc = "start"
        BY <2>2 DEF PostConfigSpawn, TypeOK
      <3>2. Len(scans') \in DOMAIN scans'
        BY <2>2 DEF PostConfigSpawn, TypeOK
      <3>3. QED
        BY <3>1, <3>2 DEF QuiescentTerminal, Quiescent, Live
    <2>3. ASSUME NEW i \in DOMAIN scans, ScanStep(i)
          PROVE  QuiescentTerminal'
      <3>1. \A p \in ScanPCs : SetPC(i, p) =>
                /\ DOMAIN scans' = DOMAIN scans
                /\ scans'[i].pc = p
        <4>1. scans \in Seq(ScanRec)
          BY DEF TypeOK, ScanRec
        <4>2. QED
          BY <4>1, SetPCFacts DEF SetPC
      <3>2. DOMAIN scans' = DOMAIN scans
        BY <2>3, <3>1 DEF ScanStep, ScanStart, ScanOpen, ScanDump, ScanDone,
                          ScanPCs
      <3>3. status' \in Terminal \/ Live(i)'
        <4>1. CASE ScanStart(i)
          BY <4>1, <3>1 DEF ScanStart, Live, ScanPCs
        <4>2. CASE ScanOpen(i)
          BY <4>2, <3>1 DEF ScanOpen, Live, ScanPCs, Terminal
        <4>3. CASE ScanDump(i)
          BY <4>3, <3>1 DEF ScanDump, Live, ScanPCs, Terminal
        <4>4. CASE ScanDone(i)
          BY <4>4 DEF ScanDone, Terminal
        <4>5. QED
          BY <2>3, <4>1, <4>2, <4>3, <4>4 DEF ScanStep
      <3>4. QED
        BY <3>2, <3>3 DEF QuiescentTerminal, Quiescent
    <2>4. QED
      <3>1. ASSUME NEW c \in Clients,
                   \/ GetHealthz(c) \/ GetMetadata(c) \/ GetStatus(c)
                   \/ PostConfigMalformed(c) \/ PostStopMalformed(c)
                   \/ \E f \in OutputFiles : PostConfigCheck(c, f)
                   \/ PostStop(c)
            PROVE  UNCHANGED <<status, scans>>
        BY <3>1 DEF GetHealthz, GetMetadata, GetStatus, PostConfigMalformed,
                    PostStopMalformed, PostConfigCheck, PostStop
      <3>2. StopRun \/ UNCHANGED vars => UNCHANGED <<status, scans>>
        BY DEF StopRun, vars
      <3>3. QED
        BY <3>1, <3>2, <2>1, <2>2, <2>3 DEF Next
  <1>3. QED
    BY <1>1, <1>2, PTL DEF Spec, IInv

-----------------------------------------------------------------------------
\* The step formula of RetiresTerminal.
Retire == \A i \in DOMAIN scans : Live(i) /\ ~Live(i)' => status' \in Terminal

\* A step that leaves scans alone, or only appends a thread, retires none.
LEMMA NoRetireWhenScansKept ==
    ASSUME TypeOK,
           \/ scans' = scans
           \/ \E r \in ScanRec : scans' = Append(scans, r)
    PROVE  Retire
<1> SUFFICES ASSUME NEW i \in DOMAIN scans PROVE scans'[i] = scans[i]
  BY DEF Retire, Live
<1>. QED  BY DEF TypeOK, ScanRec

\* Every step of the plugin process that ends a scan thread writes DONE or
\* FAILED.
LEMMA RetireStep == TypeOK /\ [Next]_vars => Retire
<1> SUFFICES ASSUME TypeOK, [Next]_vars PROVE Retire
  OBVIOUS
<1>1. ASSUME NEW c \in Clients,
             \/ GetHealthz(c) \/ GetMetadata(c) \/ GetStatus(c)
             \/ PostConfigMalformed(c) \/ PostStopMalformed(c)
             \/ \E f \in OutputFiles : PostConfigCheck(c, f)
             \/ PostStop(c)
      PROVE  Retire
  <2>1. scans' = scans
    BY <1>1 DEF GetHealthz, GetMetadata, GetStatus, PostConfigMalformed,
                PostStopMalformed, PostConfigCheck, PostStop
  <2>. QED  BY <2>1, NoRetireWhenScansKept
<1>2. ASSUME NEW c \in Clients, PostConfigSpawn(c)
      PROVE  Retire
  <2>1. [pc |-> "start", file |-> pending[c]] \in ScanRec
    BY <1>2 DEF PostConfigSpawn, TypeOK, ScanRec, ScanPCs
  <2>. QED  BY <1>2, <2>1, NoRetireWhenScansKept DEF PostConfigSpawn
<1>3. ASSUME NEW j \in DOMAIN scans, ScanStep(j)
      PROVE  Retire
  <2> SUFFICES ASSUME NEW i \in DOMAIN scans, Live(i), ~Live(i)'
               PROVE  status' \in Terminal
    BY DEF Retire
  <2>1. \A p \in ScanPCs : SetPC(j, p) =>
            /\ scans'[j].pc = p
            /\ \A k \in DOMAIN scans : k # j => scans'[k] = scans[k]
    <3>1. scans \in Seq(ScanRec)
      BY DEF TypeOK, ScanRec
    <3>. QED  BY <3>1, SetPCFacts DEF SetPC
  <2>2. CASE i # j
    <3>1. \E p \in ScanPCs : SetPC(j, p)
      BY <1>3 DEF ScanStep, ScanStart, ScanOpen, ScanDump, ScanDone, ScanPCs
    <3>2. scans'[i] = scans[i]
      BY <2>1, <2>2, <3>1
    <3>. QED  BY <3>2 DEF Live
  <2>3. CASE i = j
    <3>1. CASE ScanStart(j)
      BY <2>1, <2>3, <3>1 DEF ScanStart, Live, ScanPCs
    <3>2. CASE ScanOpen(j)
      BY <2>1, <2>3, <3>2 DEF ScanOpen, Live, ScanPCs, Terminal
    <3>3. CASE ScanDump(j)
      BY <2>1, <2>3, <3>3 DEF ScanDump, Live, ScanPCs, Terminal
    <3>4. CASE ScanDone(j)
      BY <3>4 DEF ScanDone, Terminal
    <3>. QED  BY <1>3, <3>1, <3>2, <3>3, <3>4 DEF ScanStep
  <2>. QED  BY <2>2, <2>3
<1>4. CASE StopRun \/ UNCHANGED vars
  BY <1>4, NoRetireWhenScansKept DEF StopRun, vars
<1>. QED  BY <1>1, <1>2, <1>3, <1>4 DEF Next

\* No step of the plugin process returns from ExampleScanner.start without
\* writing DONE or FAILED in that step (RetiresTerminal).
THEOREM RetiresTerminalHolds == Spec => RetiresTerminal
<1>1. TypeOK /\ [Next]_vars => [Retire]_vars
  BY RetireStep
<1>. QED  BY <1>1, TypeCorrect, PTL DEF Spec, RetiresTerminal, Retire

-----------------------------------------------------------------------------
(***************************************************************************)
(* StatusReflectsScans is inductive together with TypeOK.  A scan step     *)
(* that writes the status takes its own thread past "start" and, when it   *)
(* writes DONE or FAILED, to "ok" or "failed", a pc no step leaves; a scan  *)
(* step that leaves the status alone moves a thread already past "start"   *)
(* between two live pcs; a spawn appends a thread at "start"; no other     *)
(* step touches status or scans.                                           *)
(***************************************************************************)
SInv == TypeOK /\ StatusReflectsScans

\* A scan step of thread i to pc p that writes a status other than READY,
\* DONE only when p is "ok" and FAILED only when p is "failed".
LEMMA ScanWritesStatus ==
    ASSUME TypeOK, StatusReflectsScans,
           NEW i \in DOMAIN scans, NEW p \in ScanPCs \ {"start"}, SetPC(i, p),
           status' # READY,
           status' = DONE => p = "ok",
           status' = FAILED => p = "failed"
    PROVE  StatusReflectsScans'
<1>1. /\ DOMAIN scans' = DOMAIN scans
      /\ scans'[i].pc = p
  <2>1. scans \in Seq(ScanRec)
    BY DEF TypeOK, ScanRec
  <2>. QED  BY <2>1, SetPCFacts DEF SetPC
<1>. QED  BY <1>1 DEF StatusReflectsScans

\* A scan step that moves thread i from a live pc past "start" to another
\* such pc, leaving the status alone.
LEMMA ScanKeepsStatus ==
    ASSUME TypeOK, StatusReflectsScans,
           NEW i \in DOMAIN scans, scans[i].pc \in {"sleep", "dump"},
           NEW p \in {"dump", "done"}, SetPC(i, p), UNCHANGED status
    PROVE  StatusReflectsScans'
<1>1. /\ DOMAIN scans' = DOMAIN scans
      /\ scans'[i].pc = p
      /\ \A j \in DOMAIN scans : j # i => scans'[j] = scans[j]
  <2>1. scans \in Seq(ScanRec)
    BY DEF TypeOK, ScanRec
  <2>2. p \in ScanPCs
    BY DEF ScanPCs
  <2>. QED  BY <2>1, <2>2, SetPCFacts DEF SetPC
<1>2. status # READY
  BY DEF StatusReflectsScans
<1>3. (status = DONE => \E j \in DOMAIN scans' : scans'[j].pc = "ok")
      /\ (status = FAILED => \E j \in DOMAIN scans' : scans'[j].pc = "failed")
  \* The witness is not thread i, whose pc is live.
  BY <1>1 DEF StatusReflectsScans
<1>. QED  BY <1>1, <1>2, <1>3 DEF StatusReflectsScans

\* post_config's spawn appends a thread at "start" and writes no status.
LEMMA SpawnKeepsStatus ==
    ASSUME TypeOK, StatusReflectsScans, NEW c \in Clients, PostConfigSpawn(c)
    PROVE  StatusReflectsScans'
<1> DEFINE r == [pc |-> "start", file |-> pending[c]]
<1>1. /\ scans' = Append(scans, r)
      /\ status' = status
  BY DEF PostConfigSpawn
<1>2. /\ DOMAIN scans' = DOMAIN scans \cup {Len(scans) + 1}
      /\ Len(scans) + 1 \notin DOMAIN scans
      /\ scans'[Len(scans) + 1].pc = "start"
      /\ \A j \in DOMAIN scans : scans'[j] = scans[j]
  BY <1>1 DEF TypeOK
<1>. QED  BY <1>1, <1>2 DEF StatusReflectsScans

\* However many configures race, READY means no scan thread has started,
\* and DONE or FAILED means some thread ended that way.
THEOREM StatusReflectsScansHolds == Spec => []StatusReflectsScans
<1>1. Init => SInv
  BY DEF Init, SInv, TypeOK, StatusReflectsScans, NoResponse, Responses,
         Ops, States, FileStates, READY, DONE, FAILED
<1>2. SInv /\ [Next]_vars => SInv'
  <2> SUFFICES ASSUME TypeOK, StatusReflectsScans, [Next]_vars
               PROVE  StatusReflectsScans'
    BY TypeOKStep DEF SInv
  <2>1. CASE UNCHANGED <<status, scans>>
    BY <2>1 DEF StatusReflectsScans
  <2>2. ASSUME NEW c \in Clients, PostConfigSpawn(c)
        PROVE  StatusReflectsScans'
    BY <2>2, SpawnKeepsStatus
  <2>3. ASSUME NEW i \in DOMAIN scans, ScanStep(i)
        PROVE  StatusReflectsScans'
    <3>1. CASE ScanStart(i)
      BY <3>1, ScanWritesStatus DEF ScanStart, ScanPCs, READY, RUNNING,
                                    DONE, FAILED
    <3>2. CASE ScanOpen(i)
      <4>1. CASE status' = FAILED /\ SetPC(i, "failed")
        BY <4>1, ScanWritesStatus DEF ScanPCs, READY, DONE, FAILED
      <4>2. CASE SetPC(i, "dump") /\ UNCHANGED status
        BY <3>2, <4>2, ScanKeepsStatus DEF ScanOpen
      <4>. QED  BY <3>2, <4>1, <4>2 DEF ScanOpen
    <3>3. CASE ScanDump(i)
      <4>1. CASE status' = FAILED /\ SetPC(i, "failed")
        BY <4>1, ScanWritesStatus DEF ScanPCs, READY, DONE, FAILED
      <4>2. CASE SetPC(i, "done") /\ UNCHANGED status
        BY <3>3, <4>2, ScanKeepsStatus DEF ScanDump
      <4>. QED  BY <3>3, <4>1, <4>2 DEF ScanDump
    <3>4. CASE ScanDone(i)
      BY <3>4, ScanWritesStatus DEF ScanDone, ScanPCs, READY, DONE, FAILED
    <3>. QED  BY <2>3, <3>1, <3>2, <3>3, <3>4 DEF ScanStep
  <2>4. QED
    <3>1. ASSUME NEW c \in Clients,
                 \/ GetHealthz(c) \/ GetMetadata(c) \/ GetStatus(c)
                 \/ PostConfigMalformed(c) \/ PostStopMalformed(c)
                 \/ \E f \in OutputFiles : PostConfigCheck(c, f)
                 \/ PostStop(c)
          PROVE  UNCHANGED <<status, scans>>
      BY <3>1 DEF GetHealthz, GetMetadata, GetStatus, PostConfigMalformed,
                  PostStopMalformed, PostConfigCheck, PostStop
    <3>2. StopRun \/ UNCHANGED vars => UNCHANGED <<status, scans>>
      BY DEF StopRun, vars
    <3>. QED  BY <3>1, <3>2, <2>1, <2>2, <2>3 DEF Next
<1>. QED  BY <1>1, <1>2, PTL DEF Spec, SInv

-----------------------------------------------------------------------------
(***************************************************************************)
(* UnsharedResultIntact is inductive together with TypeOK.  A scan step of *)
(* thread k keeps every thread's output path and writes at most the file  *)
(* of k; so a thread i # k whose path no other thread shares keeps its     *)
(* file, and k itself reaches "done" only by writing "complete" and "ok"   *)
(* only from "done", writing nothing.  A spawned thread is at "start", and *)
(* sharing a path only makes the hypothesis false.                         *)
(***************************************************************************)
\* No thread of scans other than i writes to i's output path.
Unshared(s, i) == \A j \in DOMAIN s \ {i} : s[j].file # s[i].file

UInv == TypeOK /\ UnsharedResultIntact

\* A scan thread's output path is one of the configured paths.
LEMMA ScanFileType ==
    ASSUME TypeOK, NEW j \in DOMAIN scans
    PROVE  scans[j].file \in OutputFiles
<1>1. scans \in Seq(ScanRec)
  BY DEF TypeOK, ScanRec
<1>2. scans[j] \in ScanRec
  BY <1>1
<1>. QED  BY <1>2 DEF ScanRec

\* A scan step of thread k changes the file of k, if any.
LEMMA ScanStepFiles ==
    ASSUME TypeOK, NEW k \in DOMAIN scans, ScanStep(k)
    PROVE  \/ files' = files
           \/ \E v \in FileStates : files' = [files EXCEPT ![scans[k].file] = v]
  BY DEF ScanStep, ScanStart, ScanOpen, ScanDump, ScanDone, FileStates

\* A scan step of thread k keeps the output paths of all threads and the
\* records of all threads but k.
LEMMA ScanStepScans ==
    ASSUME TypeOK, NEW k \in DOMAIN scans, ScanStep(k)
    PROVE  /\ DOMAIN scans' = DOMAIN scans
           /\ \A j \in DOMAIN scans : scans'[j].file = scans[j].file
           /\ \A j \in DOMAIN scans \ {k} : scans'[j] = scans[j]
           /\ scans'[k].pc \in ScanPCs
<1>1. PICK p \in ScanPCs : SetPC(k, p)
  BY DEF ScanStep, ScanStart, ScanOpen, ScanDump, ScanDone, ScanPCs
<1>2. scans \in Seq(ScanRec)
  BY DEF TypeOK, ScanRec
<1>. QED  BY <1>1, <1>2, SetPCFacts DEF SetPC

\* A scan step keeps UnsharedResultIntact.
LEMMA ScanKeepsResults ==
    ASSUME TypeOK, UnsharedResultIntact, NEW k \in DOMAIN scans, ScanStep(k)
    PROVE  UnsharedResultIntact'
<1> SUFFICES ASSUME NEW i \in DOMAIN scans',
                    scans'[i].pc \in {"done", "ok"}, Unshared(scans', i)
             PROVE  files'[scans'[i].file] = "complete"
  BY DEF UnsharedResultIntact, Unshared
<1>1. /\ DOMAIN scans' = DOMAIN scans
      /\ \A j \in DOMAIN scans : scans'[j].file = scans[j].file
      /\ \A j \in DOMAIN scans \ {k} : scans'[j] = scans[j]
  BY ScanStepScans
<1>2. i \in DOMAIN scans /\ Unshared(scans, i)
  BY <1>1 DEF Unshared
<1>3. CASE i # k
  <2>1. scans[k].file # scans[i].file /\ scans'[i] = scans[i]
    BY <1>1, <1>2, <1>3 DEF Unshared
  <2>2. files[scans[i].file] = "complete"
    BY <1>2, <2>1 DEF UnsharedResultIntact, Unshared
  <2>3. files'[scans[i].file] = files[scans[i].file]
    <3>1. scans[i].file \in OutputFiles
      BY <1>2, ScanFileType
    <3>. QED  BY <2>1, <3>1, ScanStepFiles DEF TypeOK
  <2>. QED  BY <2>1, <2>2, <2>3
<1>4. CASE i = k
  <2>1. /\ scans'[k].file = scans[k].file
        /\ DOMAIN scans' = DOMAIN scans
    BY <1>1
  <2>2. \A p \in ScanPCs : SetPC(k, p) => scans'[k].pc = p
    <3>1. scans \in Seq(ScanRec)
      BY DEF TypeOK, ScanRec
    <3>. QED  BY <3>1, SetPCFacts DEF SetPC
  <2>3. CASE ScanStart(k)
    BY <1>4, <2>2, <2>3 DEF ScanStart, ScanPCs
  <2>4. CASE ScanOpen(k)
    BY <1>4, <2>2, <2>4 DEF ScanOpen, ScanPCs
  <2>5. CASE ScanDump(k)
    <3>1. CASE files' = [files EXCEPT ![scans[k].file] = "complete"] /\ SetPC(k, "done")
      <4>1. scans[k].file \in OutputFiles
        BY ScanFileType
      <4>. QED  BY <1>4, <2>1, <3>1, <4>1 DEF TypeOK
    <3>2. CASE SetPC(k, "failed")
      BY <1>4, <2>2, <3>2 DEF ScanPCs
    <3>. QED  BY <2>5, <3>1, <3>2 DEF ScanDump
  <2>6. CASE ScanDone(k)
    <3>1. scans[k].pc = "done" /\ files' = files
      BY <2>6 DEF ScanDone
    <3>. QED  BY <1>2, <1>4, <2>1, <3>1 DEF UnsharedResultIntact, Unshared
  <2>. QED  BY <2>3, <2>4, <2>5, <2>6 DEF ScanStep
<1>. QED  BY <1>3, <1>4

\* However many configures race, a scan that finished export_result keeps
\* its complete result unless another scan was given the same output path.
THEOREM UnsharedResultIntactHolds == Spec => []UnsharedResultIntact
<1>1. Init => UInv
  BY DEF Init, UInv, TypeOK, UnsharedResultIntact, NoResponse, Responses,
         Ops, States, FileStates
<1>2. UInv /\ [Next]_vars => UInv'
  <2> SUFFICES ASSUME TypeOK, UnsharedResultIntact, [Next]_vars
               PROVE  UnsharedResultIntact'
    BY TypeOKStep DEF UInv
  <2>1. CASE UNCHANGED <<scans, files>>
    BY <2>1 DEF UnsharedResultIntact
  <2>2. ASSUME NEW c \in Clients, PostConfigSpawn(c)
        PROVE  UnsharedResultIntact'
    <3> DEFINE r == [pc |-> "start", file |-> pending[c]]
    <3>1. scans' = Append(scans, r) /\ files' = files
      BY <2>2 DEF PostConfigSpawn
    <3>2. /\ DOMAIN scans' = DOMAIN scans \cup {Len(scans) + 1}
          /\ scans'[Len(scans) + 1].pc = "start"
          /\ \A j \in DOMAIN scans : scans'[j] = scans[j]
      BY <3>1 DEF TypeOK
    <3>. QED  BY <3>1, <3>2 DEF UnsharedResultIntact
  <2>3. ASSUME NEW k \in DOMAIN scans, ScanStep(k)
        PROVE  UnsharedResultIntact'
    BY <2>3, ScanKeepsResults
  <2>4. QED
    <3>1. ASSUME NEW c \in Clients,
                 \/ GetHealthz(c) \/ GetMetadata(c) \/ GetStatus(c)
                 \/ PostConfigMalformed(c) \/ PostStopMalformed(c)
                 \/ \E f \in OutputFiles : PostConfigCheck(c, f)
                 \/ PostStop(c)
          PROVE  UNCHANGED <<scans, files>>
      BY <3>1 DEF GetHealthz, GetMetadata, GetStatus, PostConfigMalformed,
                  PostStopMalformed, PostConfigCheck, PostStop
    <3>2. StopRun \/ UNCHANGED vars => UNCHANGED <<scans, files>>
      BY DEF StopRun, vars
    <3>. QED  BY <3>1, <3>2, <2>1, <2>2, <2>3 DEF Next
<1>. QED  BY <1>1, <1>2, PTL DEF Spec, UInv
=============================================================================
