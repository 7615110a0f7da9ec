--------------------------- MODULE ArtifactProofs ---------------------------
(***************************************************************************)
(* The safety properties of the artifacts: of ArtifactBuild for any        *)
(* artifacts, builders, requests, queue size and number of failures; of    *)
(* ArtifactPull for any artifacts, versions, workers, commands and kills;  *)
(* and of PackageExport for any object keys, boxes and items.              *)
(***************************************************************************)
EXTENDS ArtifactBuild, ArtifactPull, PackageExport,
        FiniteSetTheorems, FunctionTheorems, SequenceTheorems, WellFoundedInduction, TLAPS

(***************************************************************************)
(* ArtifactBuild. The versions that two processes store at a time are left *)
(* out of what is said of the directories.                                 *)
(***************************************************************************)

(* Of the processes storing a version that was not overlapped there is one at a time. *)
ExclusiveInv ==
  \A p, q \in Procs :
    /\ proc[p].pc \in Storing /\ proc[q].pc \in Storing
    /\ Version[proc[p].art] = Version[proc[q].art]
    /\ Version[proc[p].art] \notin overlapped
    => p = q

(* It finds its own archive in the temporary directory until the rename, and then in the   *)
(* final one.                                                                              *)
OwnInv ==
  \A p \in Procs : Version[proc[p].art] \notin overlapped =>
    /\ proc[p].pc \in {"manifest", "rename"} => Archive(proc[p].art) \in temp[Version[proc[p].art]]
    /\ proc[p].pc \in {"cleanup_ok", "ready"} => Archive(proc[p].art) \in final[Version[proc[p].art]]

IInv == TypeOK /\ ExclusiveInv /\ OwnInv /\ ReadyHoldsItsPackage /\ NoBuildForgotten

ProcType == [pc : Pcs, art : Artifacts \cup {0}]

-----------------------------------------------------------------------------
(* A builder or completer that is busy has an artifact, and its version has directories. *)
LEMMA BusyTyped ==
  ASSUME TypeOK, NEW p \in Procs, proc[p].pc # "idle"
  PROVE  Art(p) \in Artifacts /\ Ver(p) \in Versions
BY DEF TypeOK, Art, Ver, Versions

(* Going on with the same artifact keeps the record in its type. *)
LEMMA GotoTyped ==
  ASSUME TypeOK, NEW p \in Procs, NEW pc \in Pcs, proc[p].pc # "idle", Goto(p, pc)
  PROVE  /\ proc' \in [Procs -> ProcType]
         /\ \A q \in Procs : proc'[q].pc # "idle" => proc'[q].art \in Artifacts
         /\ proc'[p].pc = pc /\ proc'[p].art = proc[p].art
         /\ \A q \in Procs \ {p} : proc'[q] = proc[q]
BY DEF TypeOK, Goto, ProcType

(* Being done is always possible. *)
LEMMA DoneTyped ==
  ASSUME TypeOK, NEW p \in Procs, Done(p)
  PROVE  /\ proc' \in [Procs -> ProcType]
         /\ \A q \in Procs : proc'[q].pc # "idle" => proc'[q].art \in Artifacts
         /\ proc'[p] = Idle
         /\ \A q \in Procs \ {p} : proc'[q] = proc[q]
BY DEF TypeOK, Done, ProcType, Idle, Pcs

(* The files a build writes are files. *)
LEMMA FilesTyped ==
  ASSUME NEW a \in Artifacts
  PROVE  Dir \in File /\ Archive(a) \in File
BY DEF File, Dir, Archive, Formats

(* A step of StoreBuild and what follows it: the process goes on, or is done. *)
LEMMA StoreStepMoves ==
  ASSUME TypeOK, NEW p \in Procs, StoreStep(p)
  PROVE  /\ proc[p].pc # "idle"
         /\ proc' \in [Procs -> ProcType]
         /\ \A q \in Procs : proc'[q].pc # "idle" => proc'[q].art \in Artifacts
         /\ \A q \in Procs \ {p} : proc'[q] = proc[q]
         /\ \/ MarkReady(p) \/ failBuild(p)
            \/ /\ proc'[p].pc # "idle" /\ proc'[p].art = proc[p].art
               /\ status' = status
         /\ UNCHANGED <<up, creating, queue, crashes, failures>>
<1>1. proc[p].pc # "idle"
  BY DEF StoreStep, CheckVersion, RemoveTemp, MakeTemp, CopyPackage, CopyArchive, CopyManifest,
         Rename, StoreFails, Cleanup, MarkReady, failBuild, At
<1>2. UNCHANGED <<up, creating, queue, crashes, failures>>
  BY DEF StoreStep, CheckVersion, RemoveTemp, MakeTemp, CopyPackage, CopyArchive, CopyManifest,
         Rename, StoreFails, Cleanup, MarkReady, failBuild
<1>3. CASE MarkReady(p) \/ failBuild(p)
  <2>1. Done(p)
    BY <1>3 DEF MarkReady, failBuild
  <2> QED
    BY <1>1, <1>2, <1>3, <2>1, DoneTyped
<1>4. CASE ~(MarkReady(p) \/ failBuild(p))
  <2>1. status' = status
    BY <1>4 DEF StoreStep, CheckVersion, RemoveTemp, MakeTemp, CopyPackage, CopyArchive,
                CopyManifest, Rename, StoreFails, Cleanup
  <2>2. PICK pc \in Pcs \ {"idle"} : Goto(p, pc)
    BY <1>4 DEF StoreStep, CheckVersion, RemoveTemp, MakeTemp, CopyPackage, CopyArchive,
                CopyManifest, Rename, StoreFails, Cleanup, Pcs
  <2> QED
    BY <1>1, <1>2, <2>1, <2>2, GotoTyped
<1> QED
  BY <1>3, <1>4

(* The directories stay directories, and what is in a final directory stays there. *)
LEMMA StoreStepDirs ==
  ASSUME TypeOK, NEW p \in Procs, StoreStep(p)
  PROVE  /\ temp' \in [Versions -> SUBSET File]
         /\ final' \in [Versions -> SUBSET File]
         /\ overlapped \subseteq overlapped' /\ overlapped' \subseteq Versions
         /\ \A v \in Versions : final[v] \subseteq final'[v]
<1>1. Art(p) \in Artifacts /\ Ver(p) \in Versions
  BY StoreStepMoves, BusyTyped
<1>2. Dir \in File /\ Archive(Art(p)) \in File
  BY <1>1, FilesTyped
<1> HIDE DEF Art, Ver, File, Dir, Archive
<1>3. CASE Rename(p)
  BY <1>1, <1>3 DEF Rename, TypeOK, diskVars
<1>4. CASE ~Rename(p)
  <2>1. final' = final
    BY <1>4 DEF StoreStep, CheckVersion, RemoveTemp, MakeTemp, CopyPackage, CopyArchive,
                CopyManifest, StoreFails, Cleanup, MarkReady, failBuild, diskVars
  <2>2. overlapped \subseteq overlapped' /\ overlapped' \subseteq Versions
    BY <1>1, <1>4 DEF StoreStep, CheckVersion, RemoveTemp, MakeTemp, CopyPackage, CopyArchive,
       CopyManifest, StoreFails, Cleanup, MarkReady, failBuild, diskVars, TypeOK
  <2>3. CASE temp' = temp
    BY <2>1, <2>2, <2>3 DEF TypeOK
  <2>4. CASE RemoveTemp(p) \/ Cleanup(p)
    BY <1>1, <2>1, <2>2, <2>4 DEF RemoveTemp, Cleanup, RemoveAll, TypeOK
  <2>5. CASE MakeTemp(p) \/ CopyPackage(p) \/ CopyManifest(p)
    BY <1>1, <1>2, <2>1, <2>5 DEF MakeTemp, CopyPackage, CopyManifest, TypeOK
  <2>6. CASE CopyArchive(p)
    BY <1>1, <1>2, <2>1, <2>6 DEF CopyArchive, TypeOK
  <2> QED
    BY <1>4, <2>3, <2>4, <2>5, <2>6 DEF StoreStep, CheckVersion, StoreFails, MarkReady, failBuild,
                                        diskVars
<1> QED
  BY <1>3, <1>4

(* Every step keeps rows, channel, processes and directories in their types. *)
LEMMA TypeStep == TypeOK /\ [Next]_vars => TypeOK'
<1> SUFFICES ASSUME TypeOK, [Next]_vars PROVE TypeOK'
  OBVIOUS
<1> USE ArtifactAssumption
<1>1. ASSUME NEW a \in Artifacts, CreatePackageJob(a) PROVE TypeOK'
  BY <1>1 DEF CreatePackageJob, TypeOK, diskVars
<1>2. ASSUME NEW a \in Artifacts, Enqueue(a) PROVE TypeOK'
  BY <1>2 DEF Enqueue, HasRoom, TypeOK, diskVars
<1>3. ASSUME NEW b \in Builders, Receive(b) PROVE TypeOK'
  <2>1. Head(queue) \in Artifacts /\ Tail(queue) \in Seq(Artifacts) /\ Len(Tail(queue)) <= QueueSize
    BY <1>3 DEF Receive, TypeOK
  <2>2. b \in Procs /\ "start" \in Pcs
    BY DEF Procs, Pcs
  <2> QED
    BY <1>3, <2>1, <2>2 DEF Receive, TypeOK, diskVars
<1>4. ASSUME NEW b \in Builders, StartBuild(b) PROVE TypeOK'
  <2>1. b \in Procs /\ proc[b].pc # "idle" /\ Art(b) \in Artifacts
    BY <1>4, BusyTyped DEF StartBuild, At, Procs
  <2>2. PICK pc \in {"check", "fail"} : Goto(b, pc)
    BY <1>4 DEF StartBuild
  <2>3. /\ proc' \in [Procs -> ProcType]
        /\ \A q \in Procs : proc'[q].pc # "idle" => proc'[q].art \in Artifacts
    BY <2>1, <2>2, GotoTyped DEF Pcs
  <2> HIDE DEF Art
  <2>4. status' \in [Artifacts -> {"absent", "pending", "building", "ready", "failed"}]
    BY <1>4, <2>1 DEF StartBuild, TypeOK
  <2> QED
    BY <1>4, <2>3, <2>4 DEF StartBuild, TypeOK, diskVars, ProcType
<1>5. ASSUME NEW c \in Completers, NEW a \in Artifacts, CompleteArtifact(c, a) PROVE TypeOK'
  <2>1. c \in Procs /\ "check" \in Pcs
    BY DEF Procs, Pcs
  <2> QED
    BY <1>5, <2>1 DEF CompleteArtifact, TypeOK, diskVars
<1>6. ASSUME NEW p \in Procs, StoreStep(p) PROVE TypeOK'
  <2>1. Art(p) \in Artifacts
    BY <1>6, StoreStepMoves, BusyTyped
  <2>2. status' \in [Artifacts -> {"absent", "pending", "building", "ready", "failed"}]
    BY <1>6, <2>1, StoreStepMoves DEF MarkReady, failBuild, FailureRecorded, TypeOK
  <2> QED
    BY <1>6, <2>2, StoreStepMoves, StoreStepDirs DEF TypeOK, ProcType
<1>7. ASSUME NEW p \in Procs, UpdateFails(p) PROVE TypeOK'
  BY <1>7, DoneTyped DEF UpdateFails, TypeOK, diskVars, ProcType
<1>8. CASE Crash
  <2>1. queue' \in Seq(Artifacts) /\ Len(queue') <= QueueSize
    BY <1>8 DEF Crash
  <2>2. /\ proc' \in [Procs -> [pc : Pcs, art : Artifacts \cup {0}]]
        /\ \A p \in Procs : proc'[p].pc # "idle" => proc'[p].art \in Artifacts
    BY <1>8 DEF Crash, Idle, Pcs
  <2>3. up' \in BOOLEAN /\ creating' \in SUBSET Artifacts
    BY <1>8, Zenon DEF Crash
  <2>4. crashes' \in Nat
    BY <1>8 DEF Crash, TypeOK
  <2> QED
    BY <1>8, <2>1, <2>2, <2>3, <2>4 DEF Crash, TypeOK, diskVars
<1>9. CASE Restart
  BY <1>9 DEF Restart, TypeOK, diskVars
<1>10. CASE UNCHANGED vars
  BY <1>10 DEF vars, TypeOK
<1> QED
  BY <1>1, <1>2, <1>3, <1>4, <1>5, <1>6, <1>7, <1>8, <1>9, <1>10 DEF Next, BuilderStep

(* Steps outside StoreBuild leave the directories alone, and put nobody into StoreBuild or *)
(* before a ready row.                                                                     *)
LEMMA OtherSteps ==
  ASSUME TypeOK, [Next]_vars, ~\E p \in Procs : StoreStep(p)
  PROVE  /\ temp' = temp /\ final' = final /\ overlapped' = overlapped
         /\ \A q \in Procs : \/ proc'[q] = proc[q]
                             \/ proc'[q].pc \notin Storing \cup {"ready"}
<1> USE DEF Storing
<1>1. ASSUME NEW b \in Builders, BuilderStep(b)
      PROVE  \A q \in Procs : proc'[q] = proc[q] \/ proc'[q].pc \notin Storing \cup {"ready"}
  <2>1. b \in Procs
    BY DEF Procs
  <2> QED
    BY <1>1, <2>1 DEF BuilderStep, Receive, StartBuild, Goto, TypeOK
<1>2. ASSUME NEW c \in Completers, NEW a \in Artifacts, CompleteArtifact(c, a)
      PROVE  \A q \in Procs : proc'[q] = proc[q] \/ proc'[q].pc \notin Storing \cup {"ready"}
  <2>1. c \in Procs
    BY DEF Procs
  <2> QED
    BY <1>2, <2>1 DEF CompleteArtifact, TypeOK
<1>3. ASSUME NEW p \in Procs, UpdateFails(p)
      PROVE  \A q \in Procs : proc'[q] = proc[q] \/ proc'[q].pc \notin Storing \cup {"ready"}
  BY <1>3 DEF UpdateFails, Done, Idle, TypeOK
<1>4. CASE Crash
  BY <1>4 DEF Crash, Idle, diskVars
<1>5. CASE Restart \/ UNCHANGED vars \/ \E a \in Artifacts : CreatePackageJob(a) \/ Enqueue(a)
  BY <1>5 DEF Restart, vars, CreatePackageJob, Enqueue, diskVars
<1>6. temp' = temp /\ final' = final /\ overlapped' = overlapped
  BY DEF Next, CreatePackageJob, Enqueue, BuilderStep, Receive, StartBuild, CompleteArtifact,
         UpdateFails, Crash, Restart, vars, diskVars
<1> QED
  BY <1>1, <1>2, <1>3, <1>4, <1>5, <1>6 DEF Next

(* A process enters StoreBuild through the check of the version only, which records that   *)
(* it is not alone.                                                                        *)
LEMMA ExclusiveStep == TypeOK /\ ExclusiveInv /\ [Next]_vars => ExclusiveInv'
<1> SUFFICES ASSUME TypeOK, ExclusiveInv, [Next]_vars,
                    NEW q \in Procs, NEW r \in Procs,
                    proc'[q].pc \in Storing, proc'[r].pc \in Storing,
                    Version[proc'[q].art] = Version[proc'[r].art],
                    Version[proc'[q].art] \notin overlapped'
             PROVE  q = r
  BY DEF ExclusiveInv
<1>1. CASE ~\E p \in Procs : StoreStep(p)
  BY <1>1, OtherSteps DEF ExclusiveInv
<1>2. CASE \E p \in Procs : StoreStep(p)
  <2>1. PICK p \in Procs : StoreStep(p)
    BY <1>2
  <2>2. overlapped \subseteq overlapped' /\ \A s \in Procs \ {p} : proc'[s] = proc[s]
    BY <2>1, StoreStepMoves, StoreStepDirs
  <2>3. CASE proc[p].pc \in Storing /\ (proc'[p].pc \in Storing => proc'[p].art = proc[p].art)
    BY <2>2, <2>3 DEF ExclusiveInv
  <2>4. CASE proc'[p].pc \notin Storing
    BY <2>2, <2>4 DEF ExclusiveInv
  <2>5. CASE CheckVersion(p)
    <3>1. proc'[p].art = proc[p].art
      BY <2>5 DEF CheckVersion, Goto, TypeOK
    <3>2. CASE Shared(p) /\ Goto(p, "remove")
      <4>1. Version[proc[p].art] \in overlapped'
        <5>1. proc'[p].pc = "remove"
          BY <3>2 DEF Goto, TypeOK
        <5>2. ~Goto(p, "fail")
          BY <5>1 DEF Goto, TypeOK
        <5> QED
          BY <2>5, <3>2, <5>2 DEF CheckVersion, Ver, Art
      <4> QED
        BY <2>2, <3>1, <4>1 DEF ExclusiveInv
    <3>3. CASE ~Shared(p)
      <4>1. \A s \in Procs \ {p} : proc[s].pc \in Storing => Version[proc[s].art] # Version[proc[p].art]
        BY <3>3 DEF Shared, Ver, Art
      <4> QED
        BY <2>2, <3>1, <4>1 DEF ExclusiveInv
    <3>4. CASE Goto(p, "fail")
      <4>1. proc'[p].pc = "fail"
        BY <3>4 DEF Goto, TypeOK
      <4> QED
        BY <2>4, <4>1 DEF Storing
    <3> QED
      BY <2>5, <3>2, <3>3, <3>4 DEF CheckVersion
  <2>6. \/ proc[p].pc \in Storing /\ (proc'[p].pc \in Storing => proc'[p].art = proc[p].art)
        \/ proc'[p].pc \notin Storing
        \/ CheckVersion(p)
    BY <2>1 DEF StoreStep, RemoveTemp, MakeTemp, CopyPackage, CopyArchive, CopyManifest, Rename,
       StoreFails, Cleanup, MarkReady, failBuild, Goto, Done, Idle, At, Storing, TypeOK
  <2> QED
    BY <2>3, <2>4, <2>5, <2>6
<1> QED
  BY <1>1, <1>2

(* Nobody else touches the directories of a version that one process is storing. *)
LEMMA TempBelongs ==
  ASSUME TypeOK, ExclusiveInv, NEW p \in Procs, StoreStep(p),
         NEW q \in Procs \ {p}, proc[q].pc \in Storing,
         Version[proc[q].art] \notin overlapped
  PROVE  temp'[Version[proc[q].art]] = temp[Version[proc[q].art]]
<1>1. CASE temp' = temp
  BY <1>1
<1>2. CASE temp' # temp
  <2>1. proc[p].pc \in Storing
    BY <1>2 DEF StoreStep, CheckVersion, RemoveTemp, MakeTemp, CopyPackage, CopyArchive,
       CopyManifest, Rename, StoreFails, Cleanup, MarkReady, failBuild, At, Storing, diskVars
  <2>2. Ver(p) # Version[proc[q].art]
    BY <2>1 DEF ExclusiveInv, Ver, Art
  <2>3. Version[proc[q].art] \in Versions
    BY DEF TypeOK, Storing, Versions
  <2> HIDE DEF Ver, Dir, Archive
  <2> QED
    BY <1>2, <2>2, <2>3 DEF StoreStep, CheckVersion, RemoveTemp, RemoveAll, MakeTemp, CopyPackage,
       CopyArchive, CopyManifest, Rename, StoreFails, Cleanup, MarkReady, failBuild, diskVars, TypeOK
<1> QED
  BY <1>1, <1>2

(* Along StoreBuild the archive is put in place, kept by the copy of the manifest, renamed *)
(* with the directory, and stays.                                                          *)
LEMMA OwnStep == TypeOK /\ ExclusiveInv /\ OwnInv /\ [Next]_vars => OwnInv'
<1> SUFFICES ASSUME TypeOK, ExclusiveInv, OwnInv, [Next]_vars,
                    NEW q \in Procs, Version[proc'[q].art] \notin overlapped'
             PROVE  /\ proc'[q].pc \in {"manifest", "rename"}
                         => Archive(proc'[q].art) \in temp'[Version[proc'[q].art]]
                    /\ proc'[q].pc \in {"cleanup_ok", "ready"}
                         => Archive(proc'[q].art) \in final'[Version[proc'[q].art]]
  BY DEF OwnInv, Archive
<1>1. CASE ~\E p \in Procs : StoreStep(p)
  BY <1>1, OtherSteps DEF OwnInv, Storing
<1>2. CASE \E p \in Procs : StoreStep(p)
  <2>1. PICK p \in Procs : StoreStep(p)
    BY <1>2
  <2>2. /\ overlapped \subseteq overlapped' /\ \A s \in Procs \ {p} : proc'[s] = proc[s]
        /\ \A v \in Versions : final[v] \subseteq final'[v]
        /\ \A s \in Procs : proc'[s].pc # "idle" => proc'[s].art \in Artifacts
    BY <2>1, StoreStepMoves, StoreStepDirs
  <2>3. CASE q # p
    <3>1. proc'[q] = proc[q] /\ Version[proc[q].art] \notin overlapped
      BY <2>2, <2>3
    <3>2. CASE proc[q].pc \in {"manifest", "rename"}
      <4>1. temp'[Version[proc[q].art]] = temp[Version[proc[q].art]]
        BY <2>1, <2>3, <3>1, <3>2, TempBelongs DEF Storing
      <4> QED
        BY <3>1, <3>2, <4>1 DEF OwnInv
    <3>3. CASE proc[q].pc \in {"cleanup_ok", "ready"}
      <4>1. Version[proc[q].art] \in Versions
        BY <2>2, <3>1, <3>3 DEF Versions
      <4> QED
        BY <2>2, <3>1, <3>3, <4>1 DEF OwnInv
    <3> QED
      BY <3>1, <3>2, <3>3
  <2>4. CASE q = p
    <3>1. proc[p].pc # "idle" /\ Art(p) \in Artifacts /\ Ver(p) \in Versions
      BY <2>1, StoreStepMoves, BusyTyped
    <3>2. ASSUME proc'[p].pc # "idle" PROVE proc'[p].art = Art(p) /\ Ver(p) \notin overlapped
      <4>1. proc'[p].art = proc[p].art
        BY <2>1, <3>2, StoreStepMoves, DoneTyped DEF MarkReady, failBuild, Idle
      <4> QED
        BY <2>2, <2>4, <4>1 DEF Art, Ver
    <3>3. CASE proc'[p].pc \in {"manifest", "rename"}
      <4>1. CopyArchive(p) \/ CopyManifest(p)
        BY <2>1, <3>3 DEF StoreStep, CheckVersion, RemoveTemp, MakeTemp, CopyPackage, Rename,
           StoreFails, Cleanup, MarkReady, failBuild, Goto, Done, Idle, TypeOK
      <4>2. CASE CopyArchive(p)
        <5>1. Archive(Art(p)) \in temp'[Ver(p)]
          BY <3>1, <4>2 DEF CopyArchive, TypeOK
        <5> QED
          BY <2>4, <3>2, <3>3, <5>1 DEF Ver
      <4>3. CASE CopyManifest(p)
        <5>1. Archive(Art(p)) \in temp[Ver(p)]
          BY <3>2, <3>3, <4>3 DEF CopyManifest, At, OwnInv, Art, Ver
        <5>2. temp[Ver(p)] \subseteq temp'[Ver(p)]
          BY <3>1, <4>3 DEF CopyManifest, TypeOK
        <5> QED
          BY <2>4, <3>2, <3>3, <5>1, <5>2 DEF Ver
      <4> QED
        BY <4>1, <4>2, <4>3
    <3>4. CASE proc'[p].pc \in {"cleanup_ok", "ready"}
      <4>1. Rename(p) \/ Cleanup(p)
        BY <2>1, <3>4 DEF StoreStep, CheckVersion, RemoveTemp, MakeTemp, CopyPackage, CopyArchive,
           CopyManifest, StoreFails, MarkReady, failBuild, Goto, Done, Idle, TypeOK
      <4>2. CASE Rename(p)
        <5>1. Archive(Art(p)) \in temp[Ver(p)]
          BY <3>2, <3>4, <4>2 DEF Rename, At, OwnInv, Art, Ver
        <5>2. final'[Ver(p)] = temp[Ver(p)]
          BY <3>1, <3>4, <4>2 DEF Rename, Goto, TypeOK
        <5> QED
          BY <2>4, <3>2, <3>4, <5>1, <5>2 DEF Ver
      <4>3. CASE Cleanup(p)
        <5>1. proc[p].pc = "cleanup_ok"
          BY <3>4, <4>3 DEF Cleanup, Goto, At, TypeOK
        <5>2. Archive(Art(p)) \in final[Ver(p)]
          BY <3>2, <3>4, <5>1 DEF OwnInv, Art, Ver
        <5> QED
          BY <2>2, <2>4, <3>1, <3>2, <3>4, <5>2 DEF Ver
      <4> QED
        BY <4>1, <4>2, <4>3
    <3> QED
      BY <2>4, <3>3, <3>4
  <2> QED
    BY <2>3, <2>4
<1> QED
  BY <1>1, <1>2

(* A row becomes ready only after its process promoted the archive, which stays. *)
LEMMA ReadyStep ==
  TypeOK /\ OwnInv /\ ReadyHoldsItsPackage /\ [Next]_vars => ReadyHoldsItsPackage'
<1> SUFFICES ASSUME TypeOK, OwnInv, ReadyHoldsItsPackage, [Next]_vars,
                    NEW a \in Artifacts, status'[a] = "ready", Version[a] \notin overlapped'
             PROVE  Archive(a) \in final'[Version[a]]
  BY DEF ReadyHoldsItsPackage, Archive
<1>1. Version[a] \in Versions
  BY DEF Versions
<1>2. CASE \E p \in Procs : StoreStep(p)
  <2>1. PICK p \in Procs : StoreStep(p)
    BY <1>2
  <2>2. final[Version[a]] \subseteq final'[Version[a]] /\ Version[a] \notin overlapped
    BY <1>1, <2>1, StoreStepDirs
  <2>3. CASE status[a] = "ready"
    BY <2>2, <2>3 DEF ReadyHoldsItsPackage
  <2>4. CASE status[a] # "ready"
    <3>1. MarkReady(p) /\ a = Art(p)
      BY <2>1, <2>4, StoreStepMoves DEF MarkReady, failBuild, FailureRecorded, TypeOK
    <3>2. Archive(a) \in final[Version[a]]
      BY <2>2, <3>1 DEF MarkReady, At, Art, OwnInv
    <3> QED
      BY <2>2, <3>2
  <2> QED
    BY <2>3, <2>4
<1>3. CASE ~\E p \in Procs : StoreStep(p)
  <2>1. final' = final /\ overlapped' = overlapped
    BY <1>3, OtherSteps
  <2>2. status[a] = "ready"
    <3>1. CASE \E b \in Builders : StartBuild(b)
      BY <3>1 DEF StartBuild, TypeOK
    <3>2. CASE \E x \in Artifacts : CreatePackageJob(x)
      BY <3>2 DEF CreatePackageJob, TypeOK
    <3>3. CASE Restart
      BY <3>3 DEF Restart, TypeOK
    <3>4. CASE status' = status
      BY <3>4
    <3> QED
      BY <1>3, <3>1, <3>2, <3>3, <3>4 DEF Next, Enqueue, BuilderStep, Receive, CompleteArtifact,
         UpdateFails, Crash, vars
  <2> QED
    BY <2>1, <2>2 DEF ReadyHoldsItsPackage
<1> QED
  BY <1>2, <1>3

(* Whoever a build is with hands it on or finishes it, or the failure is counted. *)
LEMMA NotForgottenStep == TypeOK /\ NoBuildForgotten /\ [Next]_vars => NoBuildForgotten'
<1> SUFFICES ASSUME TypeOK, NoBuildForgotten, [Next]_vars,
                    NEW a \in Artifacts, status'[a] \in {"pending", "building"}
             PROVE  OnIt(a)' \/ ~up' \/ failures' > 0
  BY DEF NoBuildForgotten
<1> USE ArtifactAssumption
<1>1. ASSUME status[a] \in {"pending", "building"}, up' = up, failures' = failures,
             OnIt(a) => OnIt(a)'
      PROVE  OnIt(a)' \/ ~up' \/ failures' > 0
  BY <1>1 DEF NoBuildForgotten
<1>2. ASSUME NEW x \in Artifacts, CreatePackageJob(x) PROVE OnIt(a)' \/ ~up' \/ failures' > 0
  <2>1. CASE x = a
    BY <1>2, <2>1 DEF CreatePackageJob, OnIt
  <2>2. CASE x # a
    BY <1>1, <1>2, <2>2 DEF CreatePackageJob, OnIt, TypeOK
  <2> QED
    BY <2>1, <2>2
<1>3. ASSUME NEW x \in Artifacts, Enqueue(x) PROVE OnIt(a)' \/ ~up' \/ failures' > 0
  <2>1. /\ Len(queue') = Len(queue) + 1 /\ queue'[Len(queue) + 1] = x
        /\ \A i \in 1 .. Len(queue) : queue'[i] = queue[i]
        /\ Len(queue) \in Nat
    BY <1>3 DEF Enqueue, TypeOK
  <2>2. OnIt(a) => OnIt(a)'
    <3>1. CASE a \in creating
      BY <1>3, <2>1, <3>1 DEF Enqueue, OnIt
    <3>2. CASE \E i \in 1 .. Len(queue) : queue[i] = a
      BY <2>1, <3>2 DEF OnIt
    <3>3. CASE \E b \in Builders : proc[b].pc # "idle" /\ proc[b].art = a
      BY <1>3, <3>3 DEF Enqueue, OnIt
    <3> QED
      BY <3>1, <3>2, <3>3 DEF OnIt
  <2> QED
    BY <1>1, <1>3, <2>2 DEF Enqueue
<1>4. ASSUME NEW b \in Builders, Receive(b) PROVE OnIt(a)' \/ ~up' \/ failures' > 0
  <2>1. /\ Len(queue') = Len(queue) - 1 /\ Len(queue) \in Nat \ {0}
        /\ \A i \in 1 .. Len(queue) - 1 : queue'[i] = queue[i + 1]
        /\ Head(queue) = queue[1]
    BY <1>4 DEF Receive, TypeOK
  <2>2. b \in Procs /\ Builders \subseteq Procs
    BY DEF Procs
  <2>3. /\ proc[b].pc = "idle" /\ proc'[b].pc = "start" /\ proc'[b].art = queue[1]
        /\ \A q \in Procs \ {b} : proc'[q] = proc[q]
    BY <1>4, <2>1, <2>2 DEF Receive, At, TypeOK
  <2>4. OnIt(a) => OnIt(a)'
    <3>1. CASE a \in creating
      BY <1>4, <3>1 DEF Receive, OnIt
    <3>2. CASE \E i \in 1 .. Len(queue) : queue[i] = a
      <4>1. PICK i \in 1 .. Len(queue) : queue[i] = a
        BY <3>2
      <4>2. CASE i = 1
        BY <2>3, <4>1, <4>2 DEF OnIt
      <4>3. CASE i # 1
        <5>1. i - 1 \in 1 .. Len(queue') /\ queue'[i - 1] = a
          BY <2>1, <4>1, <4>3
        <5> QED
          BY <5>1 DEF OnIt
      <4> QED
        BY <4>2, <4>3
    <3>3. CASE \E c \in Builders : proc[c].pc # "idle" /\ proc[c].art = a
      BY <2>2, <2>3, <3>3 DEF OnIt
    <3> QED
      BY <3>1, <3>2, <3>3 DEF OnIt
  <2> QED
    BY <1>1, <1>4, <2>4 DEF Receive
<1>5. ASSUME NEW p \in Procs, creating' = creating, queue' = queue,
             \A q \in Procs \ {p} : proc'[q] = proc[q],
             p \in Builders /\ proc[p].pc # "idle" /\ proc[p].art = a
               => proc'[p].pc # "idle" /\ proc'[p].art = a
      PROVE  OnIt(a) => OnIt(a)'
  <2>1. Builders \subseteq Procs
    BY DEF Procs
  <2> QED
    BY <1>5, <2>1 DEF OnIt
<1>6. ASSUME NEW b \in Builders, StartBuild(b) PROVE OnIt(a)' \/ ~up' \/ failures' > 0
  <2>1. b \in Procs /\ proc[b].pc # "idle"
    BY <1>6 DEF StartBuild, At, Procs
  <2>2. PICK pc \in {"check", "fail"} : Goto(b, pc)
    BY <1>6 DEF StartBuild
  <2>3. /\ proc'[b].pc # "idle" /\ proc'[b].art = proc[b].art
        /\ \A q \in Procs \ {b} : proc'[q] = proc[q]
    BY <2>1, <2>2, GotoTyped DEF Pcs
  <2>4. CASE proc[b].art = a
    BY <2>3, <2>4 DEF OnIt
  <2>5. CASE proc[b].art # a
    <3>1. status[a] \in {"pending", "building"}
      BY <1>6, <2>5 DEF StartBuild, Art, TypeOK
    <3> QED
      BY <1>1, <1>5, <1>6, <2>1, <2>3, <2>5, <3>1 DEF StartBuild
  <2> QED
    BY <2>4, <2>5
<1>7. ASSUME NEW c \in Completers, NEW x \in Artifacts, CompleteArtifact(c, x)
      PROVE  OnIt(a)' \/ ~up' \/ failures' > 0
  <2>1. c \in Procs /\ c \notin Builders
    BY DEF Procs
  <2>2. \A q \in Procs \ {c} : proc'[q] = proc[q]
    BY <1>7, <2>1 DEF CompleteArtifact, TypeOK
  <2> QED
    BY <1>1, <1>5, <1>7, <2>1, <2>2 DEF CompleteArtifact
<1>8. ASSUME NEW p \in Procs, StoreStep(p) PROVE OnIt(a)' \/ ~up' \/ failures' > 0
  <2>1. /\ proc[p].pc # "idle"
        /\ \A q \in Procs \ {p} : proc'[q] = proc[q]
        /\ \/ MarkReady(p) \/ failBuild(p)
           \/ proc'[p].pc # "idle" /\ proc'[p].art = proc[p].art /\ status' = status
        /\ UNCHANGED <<up, creating, queue, crashes, failures>>
    BY <1>8, StoreStepMoves
  <2>2. status[a] \in {"pending", "building"}
    BY <2>1 DEF MarkReady, failBuild, FailureRecorded, TypeOK
  <2>3. p \in Builders /\ proc[p].art = a => ~MarkReady(p) /\ ~failBuild(p)
    BY DEF MarkReady, failBuild, FailureRecorded, Art, TypeOK
  <2> QED
    BY <1>1, <1>5, <2>1, <2>2, <2>3
<1>9. ASSUME NEW p \in Procs, UpdateFails(p) PROVE OnIt(a)' \/ ~up' \/ failures' > 0
  BY <1>9 DEF UpdateFails, TypeOK
<1>10. CASE Crash
  BY <1>10 DEF Crash
<1>11. CASE Restart
  BY <1>11 DEF Restart, Stale, TypeOK
<1>12. CASE UNCHANGED vars
  BY <1>1, <1>12 DEF vars, OnIt
<1> QED
  BY <1>2, <1>3, <1>4, <1>6, <1>7, <1>8, <1>9, <1>10, <1>11, <1>12 DEF Next, BuilderStep

-----------------------------------------------------------------------------
(* The inductive invariant of artifact builds. *)
THEOREM Invariance == Spec => []IInv
<1>1. Init => IInv
  <2> SUFFICES ASSUME Init PROVE IInv
    OBVIOUS
  <2>1. queue \in Seq(Artifacts) /\ Len(queue) <= QueueSize
    BY ArtifactAssumption DEF Init
  <2>2. /\ proc \in [Procs -> [pc : Pcs, art : Artifacts \cup {0}]]
        /\ \A p \in Procs : proc[p].pc = "idle"
    BY DEF Init, Idle, Pcs
  <2>3. TypeOK
    BY <2>1, <2>2 DEF Init, TypeOK
  <2>4. ExclusiveInv /\ OwnInv
    BY <2>2 DEF ExclusiveInv, OwnInv, Storing
  <2>5. ReadyHoldsItsPackage /\ NoBuildForgotten
    BY DEF Init, ReadyHoldsItsPackage, NoBuildForgotten
  <2> QED
    BY <2>3, <2>4, <2>5 DEF IInv
<1>2. IInv /\ [Next]_vars => IInv'
  BY TypeStep, ExclusiveStep, OwnStep, ReadyStep, NotForgottenStep DEF IInv
<1> QED
  BY <1>1, <1>2, PTL DEF Spec

(* Rows, channel, processes and directories keep their types, and the channel its bound. *)
THEOREM TypeCorrect == Spec => []TypeOK
BY Invariance, PTL DEF IInv

(* Any number of artifacts, builders and completions, crashes and file system errors: what *)
(* is marked ready is its own archive, promoted, unless stores of its version overlapped.   *)
THEOREM ReadyHoldsItsPackageHolds == Spec => []ReadyHoldsItsPackage
BY Invariance, PTL DEF IInv

(* An unfinished artifact is always in somebody's hands, or the start will mark it failed. *)
THEOREM NoBuildForgottenHolds == Spec => []NoBuildForgotten
BY Invariance, PTL DEF IInv

-----------------------------------------------------------------------------
(***************************************************************************)
(* ArtifactPull. What the workers of one verification hold and have found  *)
(* is tied to the manifest they read, and the last report to the directory *)
(* as it has been left since.                                              *)
(***************************************************************************)

Verifying == {"verify", "report"}

Extracting == {"extract", "manifest"} \union Verifying

(***************************************************************************)
(* From its removal to the report a directory counts as replaced.          *)
(***************************************************************************)
DirReplaced == pull.pc \in Extracting => version \in replaced

(***************************************************************************)
(* While workers verify there is a manifest, each of its entries is with   *)
(* one worker or has one result at most, and what is called passed is in   *)
(* the directory.                                                          *)
(***************************************************************************)
HeldOnce ==
  \A w \in Workers : held[w] # 0 =>
    /\ held[w] \in Entries(manifest)
    /\ \A x \in results : x[1] # held[w]
    /\ \A u \in Workers : held[u] = held[w] => u = w

ResultOnce ==
  \A x \in results :
    /\ x[1] \in Entries(manifest)
    /\ x[2] = "passed" => BlockOf(manifest, x[1]) \in dir[version]
    /\ \A y \in results : x[1] = y[1] => x = y

VerifyInv ==
  /\ pull.pc \in Verifying => Manifests # {} /\ HeldOnce /\ ResultOnce
  /\ IsAt("report") => {x[1] : x \in results} = Entries(manifest)

(***************************************************************************)
(* A download that resumed nothing foreign is a beginning of the artifact, *)
(* then all of it; what has been extracted of it are its files.  Of an old *)
(* directory that could not be removed other files may be left, but not a  *)
(* manifest once the artifact's own is written over it.                    *)
(***************************************************************************)
Extracted(a, i) == {BlockOf(a, j) : j \in 1..(i - 1)}

OwnCopy == IsPrefixOf(part[version], pull.artifact) /\ Len(part[version]) <= Size(pull.artifact)

OwnArchive == IsPrefixOf(part[version], pull.artifact) /\ Len(part[version]) = Size(pull.artifact)

OnlyOwnManifest ==
  \A b \in Served : BlockOf(b, ManifestAt[b]) \in dir[version] => b = pull.artifact

OwnFilesBefore(i) ==
  /\ i \in 1..Size(pull.artifact)
  /\ Extracted(pull.artifact, i) \subseteq dir[version]
  /\ "unremoved" \notin pull.flags => dir[version] = Extracted(pull.artifact, i)
  /\ ManifestAt[pull.artifact] < i => OnlyOwnManifest

OwnDownload ==
  "foreign" \notin pull.flags =>
    /\ IsAt("copy") => OwnCopy
    /\ pull.pc \in {"remove", "extract"} => OwnArchive
    /\ IsAt("extract") => OwnFilesBefore(pull.at)
    /\ pull.pc \in {"manifest", "verify", "report"} => OwnFilesBefore(Size(pull.artifact))

OwnPullInv == pull # NoPull => OwnDownload

PullInv ==
  /\ PullTypeOK /\ DirReplaced /\ VerifyInv /\ OwnPullInv
  /\ ReportIsTrue /\ PulledIsVerified

PullPcs == {"resolve", "wait", "request", "copy", "remove", "extract", "manifest", "verify", "report"}

-----------------------------------------------------------------------------
(* A running command has an artifact, a version and a place. *)
LEMMA RunningTyped ==
  ASSUME PullTypeOK, pull.pc # "idle"
  PROVE  /\ pull \in Command /\ pull # NoPull
         /\ pull.artifact \in Served /\ version \in SnapshotVersions
         /\ pull.pc \in PullPcs /\ pull.flags \in SUBSET Flags /\ pull.at \in Nat
BY ArtifactPullAssumption DEF PullTypeOK, NoPull, Command, version, PullPcs

(* The manifest that is found in the directory is one of a served artifact. *)
LEMMA ManifestFound ==
  ASSUME Manifests # {}
  PROVE  /\ manifest \in Served
         /\ BlockOf(manifest, ManifestAt[manifest]) \in dir[version]
<1>1. manifest \in Manifests
  BY DEF manifest
<1> QED
  BY <1>1 DEF Manifests

(* The entries of a manifest are finitely many. *)
LEMMA EntriesFinite ==
  ASSUME NEW a \in Served
  PROVE  /\ IsFiniteSet(Entries(a)) /\ Cardinality(Entries(a)) \in Nat
         /\ Entries(a) \subseteq Nat \ {0}
<1>1. IsFiniteSet(1..FilesOf[a]) /\ Entries(a) \subseteq 1..FilesOf[a]
  BY FS_Interval, ArtifactPullAssumption DEF Entries
<1>2. IsFiniteSet(Entries(a))
  BY <1>1, FS_Subset
<1> QED
  BY <1>1, <1>2, FS_CardinalityType, ArtifactPullAssumption

(* Which manifest counts depends on the directory and the command's artifact alone. *)
LEMMA SameManifest ==
  ASSUME dir' = dir, pull'.artifact = pull.artifact
  PROVE  version' = version /\ Manifests' = Manifests /\ manifest' = manifest
BY DEF version, Manifests, manifest

(* Results that name every entry once are as many as the entries. *)
LEMMA OneResultEach ==
  ASSUME NEW E, IsFiniteSet(E), NEW R \in SUBSET Result,
         {x[1] : x \in R} = E,
         \A x, y \in R : x[1] = y[1] => x = y
  PROVE  Cardinality(R) = Cardinality(E)
<1> DEFINE f == [x \in R |-> x[1]]
<1>1. f \in Bijection(R, E)
  <2>1. f \in [R -> E]
    OBVIOUS
  <2>2. \A x, y \in R : f[x] = f[y] => x = y
    OBVIOUS
  <2>3. \A e \in E : \E x \in R : f[x] = e
    OBVIOUS
  <2> QED
    BY <2>1, <2>2, <2>3 DEF Bijection, Injection, Surjection, IsInjective
<1>2. ExistsBijection(R, E)
  BY <1>1 DEF ExistsBijection
<1>3. ExistsBijection(E, R)
  BY <1>2, Fun_ExistsBijSymmetric
<1> QED
  BY <1>3, FS_Bijection

-----------------------------------------------------------------------------
(* Starting out, nothing is claimed. *)
LEMMA PullInitInv == PullInit => PullInv
<1> SUFFICES ASSUME PullInit PROVE PullInv
  OBVIOUS
<1>1. PullTypeOK
  BY EmptySeq DEF PullInit, PullTypeOK
<1> QED
  BY <1>1 DEF PullInit, PullInv, DirReplaced, VerifyInv, OwnPullInv, ReportIsTrue, PulledIsVerified,
     NoPull, Extracting, Verifying, IsAt

(* A command that ends in an error or is killed leaves directory and report as they are. *)
LEMMA EndsBadlyInv ==
  ASSUME PullInv, pull.pc # "idle", pull' = NoPull,
         NEW outcome \in {"error", "killed"},
         last' = {[artifact |-> pull.artifact, flags |-> pull.flags \ Passing, outcome |-> outcome]},
         part' = part \/ part' = RemovedPart,
         NoneVerified, UNCHANGED <<ready, dir, report, pulls, replaced>>,
         kills' \in Nat
  PROVE  PullInv'
<1> USE RunningTyped DEF PullInv
<1>1. PullTypeOK'
  <2>1. part' \in [SnapshotVersions -> Seq(Block)]
    BY EmptySeq DEF PullTypeOK, RemovedPart
  <2>2. last' \subseteq Ended
    BY DEF Ended
  <2>3. held' \in [Workers -> Nat] /\ results' \subseteq Result
    BY DEF NoneVerified
  <2> QED
    BY <2>1, <2>2, <2>3 DEF PullTypeOK
<1>2. DirReplaced' /\ VerifyInv' /\ OwnPullInv'
  BY DEF DirReplaced, VerifyInv, OwnPullInv, NoPull, Extracting, Verifying, IsAt
<1>3. ReportIsTrue'
  BY DEF ReportIsTrue
<1>4. PulledIsVerified'
  BY DEF PulledIsVerified
<1> QED
  BY <1>1, <1>2, <1>3, <1>4

(* Each error return ends badly. *)
LEMMA FailsInv ==
  ASSUME PullInv, pull.pc # "idle", Fails
  PROVE  PullInv'
<1>1. kills' \in Nat
  BY DEF PullInv, PullTypeOK, Fails, Return
<1> QED
  BY <1>1, EndsBadlyInv DEF Fails, Return

(* While a command runs, nothing is said about the one before it. *)
LEMMA NothingPulledYet ==
  ASSUME pull'.pc # "idle"
  PROVE  PulledIsVerified'
BY DEF PulledIsVerified, IsAt

(* A command that starts has read and written nothing. *)
LEMMA StartInv ==
  ASSUME PullInv, NEW a \in Served, NEW flags \in SUBSET {"partial"}, Start(a, flags)
  PROVE  PullInv'
<1> USE DEF PullInv
<1>0. pull'.pc = "resolve" /\ UNCHANGED <<ready, part, dir, report, held, results, kills, last, replaced>>
  BY DEF Start, files, verification
<1>1. PullTypeOK'
  <2>1. pull' \in Command
    BY DEF Start, Command, Flags
  <2> QED
    BY <1>0, <2>1 DEF PullTypeOK, Start
<1>2. DirReplaced' /\ VerifyInv' /\ OwnPullInv'
  BY <1>0 DEF DirReplaced, VerifyInv, OwnPullInv, OwnDownload, Extracting, Verifying, IsAt
<1>3. ReportIsTrue'
  BY <1>0 DEF ReportIsTrue
<1> QED
  BY <1>0, <1>1, <1>2, <1>3, NothingPulledYet

(* An artifact that becomes ready changes nothing on the client's side. *)
LEMMA BecomesReadyInv ==
  ASSUME PullInv, NEW a \in Served, BecomesReady(a)
  PROVE  PullInv'
<1> USE DEF PullInv
<1>0. UNCHANGED <<pull, part, dir, report, held, results, pulls, kills, last, replaced>>
  BY DEF BecomesReady, files, verification
<1>1. PullTypeOK'
  BY <1>0 DEF PullTypeOK, BecomesReady
<1>2. version' = version /\ Manifests' = Manifests /\ manifest' = manifest
  BY <1>0, SameManifest
<1>3. DirReplaced' /\ VerifyInv' /\ OwnPullInv'
  BY <1>0, <1>2 DEF DirReplaced, VerifyInv, HeldOnce, ResultOnce, OwnPullInv, OwnDownload, OwnCopy,
     OwnArchive, OwnFilesBefore, OnlyOwnManifest, IsAt
<1>4. ReportIsTrue' /\ PulledIsVerified'
  BY <1>0 DEF ReportIsTrue, PulledIsVerified, IsAt
<1> QED
  BY <1>1, <1>3, <1>4

(* Up to the removal of the old directory only the temporary file matters. *)
LEMMA DownloadingInv ==
  ASSUME PullInv, pull.pc # "idle",
         pull' \in Command, pull'.artifact = pull.artifact,
         pull'.pc \in {"resolve", "wait", "request", "copy", "remove"},
         part' \in [SnapshotVersions -> Seq(Block)],
         UNCHANGED <<ready, dir, report, held, results, pulls, kills, last, replaced>>,
         OwnDownload'
  PROVE  PullInv'
<1> USE DEF PullInv
<1>1. PullTypeOK'
  BY DEF PullTypeOK
<1>2. DirReplaced' /\ VerifyInv'
  BY DEF DirReplaced, VerifyInv, Extracting, Verifying, IsAt
<1>3. ReportIsTrue'
  BY DEF ReportIsTrue
<1> QED
  BY <1>1, <1>2, <1>3, NothingPulledYet DEF OwnPullInv

(* Resolving asks the server and touches no file. *)
LEMMA ResolvingInv ==
  ASSUME PullInv, ResolveArtifact \/ ArtifactUnavailable \/ PollAgain
  PROVE  PullInv'
<1>0. pull.pc \in {"resolve", "wait"} /\ PullTypeOK
  BY DEF ResolveArtifact, ArtifactUnavailable, PollAgain, IsAt, PullInv
<1>1. pull \in Command
  BY <1>0, RunningTyped
<1>2. /\ pull' \in Command /\ pull'.artifact = pull.artifact
      /\ pull'.pc \in {"resolve", "wait", "request"}
  BY <1>0, <1>1 DEF ResolveArtifact, ArtifactUnavailable, PollAgain, GoesTo, Command
<1>3. OwnDownload'
  BY <1>2 DEF OwnDownload, IsAt
<1>4. UNCHANGED <<ready, part, dir, report, held, results, pulls, kills, last, replaced>>
  BY DEF ResolveArtifact, ArtifactUnavailable, PollAgain, files, verification
<1> QED
  BY <1>0, <1>2, <1>3, <1>4, DownloadingInv DEF PullTypeOK

(* A resumed file that is not the artifact's is marked as foreign, and one that is resumed is *)
(* shorter than the artifact.                                                                 *)
LEMMA RequestInv ==
  ASSUME PullInv, downloadArchiveToTemp
  PROVE  PullInv'
<1> DEFINE found == part[version]
           code == ServeContent(pull.artifact, Len(found))
<1>0. pull.pc = "request" /\ PullTypeOK
  BY DEF downloadArchiveToTemp, IsAt, PullInv
<1>1. /\ pull.artifact \in Served /\ version \in SnapshotVersions
      /\ found \in Seq(Block) /\ pull \in Command
      /\ Kept(code, found) \in Seq(Block)
  BY <1>0, RunningTyped, EmptySeq DEF PullTypeOK, Kept
<1>2. /\ part' = [part EXCEPT ![version] = Kept(code, found)]
      /\ pull' = [pull EXCEPT !.pc = IF code = 416 THEN "request" ELSE "copy",
                              !.flags = @ \union (IF code = 206 THEN Marked(found) ELSE {})]
  BY DEF downloadArchiveToTemp
<1>3. /\ pull' \in Command /\ pull'.artifact = pull.artifact /\ pull'.pc \in {"request", "copy"}
      /\ part' \in [SnapshotVersions -> Seq(Block)]
  <2>1. pull.flags \union (IF code = 206 THEN Marked(found) ELSE {}) \in SUBSET Flags
    BY <1>1 DEF Command, Marked, Flags
  <2>2. pull' \in Command /\ pull'.artifact = pull.artifact /\ pull'.pc \in {"request", "copy"}
    BY <1>1, <1>2, <2>1 DEF Command
  <2> QED
    BY <1>0, <1>1, <1>2, <2>2 DEF PullTypeOK
<1>4. version' = version /\ part'[version] = Kept(code, found)
  BY <1>0, <1>1, <1>2, <1>3 DEF version, PullTypeOK
<1>5. OwnDownload'
  <2> SUFFICES ASSUME "foreign" \notin pull'.flags, pull'.pc = "copy" PROVE OwnCopy'
    BY <1>3 DEF OwnDownload, IsAt
  <2>1. CASE code = 206
    <3>1. IsPrefixOf(found, pull.artifact)
      BY <2>1, <1>1, <1>2 DEF Marked, Command
    <3>2. Len(found) < Size(pull.artifact)
      BY <2>1 DEF ServeContent
    <3>3. Len(found) \in Nat /\ Size(pull.artifact) \in Nat
      BY <1>1, ArtifactPullAssumption, LenProperties DEF Size
    <3> QED
      BY <2>1, <3>1, <3>2, <3>3, <1>3, <1>4 DEF OwnCopy, Kept, IsPrefixOf
  <2>2. CASE code # 206
    <3>1. part'[version] = << >> /\ Size(pull.artifact) \in Nat
      BY <2>2, <1>1, <1>4, ArtifactPullAssumption DEF Kept, Size
    <3> QED
      BY <3>1, <1>3, <1>4 DEF OwnCopy, IsPrefixOf
  <2> QED
    BY <2>1, <2>2
<1> QED
  BY <1>0, <1>3, <1>5, DownloadingInv DEF downloadArchiveToTemp, verification

(* The copy goes on block by block, and ends when the artifact's size is reached. *)
LEMMA CopyInv ==
  ASSUME PullInv, Copy
  PROVE  PullInv'
<1> DEFINE found == part[version]
<1>0. pull.pc = "copy" /\ PullTypeOK /\ (pull # NoPull => OwnDownload)
  BY DEF Copy, IsAt, PullInv, OwnPullInv
<1>1. /\ pull.artifact \in Served /\ version \in SnapshotVersions /\ pull # NoPull
      /\ found \in Seq(Block) /\ pull \in Command
  BY <1>0, RunningTyped DEF PullTypeOK
<1>2. Len(found) \in Nat /\ Size(pull.artifact) \in Nat
  BY <1>1, ArtifactPullAssumption, LenProperties DEF Size
<1>3. "foreign" \notin pull.flags => OwnCopy
  BY <1>0, <1>1 DEF OwnDownload, IsAt
<1>4. CASE Len(found) < Size(pull.artifact)
  <2> DEFINE b == BlockOf(pull.artifact, Len(found) + 1)
  <2>1. part' = [part EXCEPT ![version] = Append(found, b)] /\ pull' = pull
    BY <1>4 DEF Copy
  <2>2. b \in Block
    BY <1>1, <1>2 DEF Block, BlockOf
  <2>3. /\ Append(found, b) \in Seq(Block) /\ Len(Append(found, b)) = Len(found) + 1
        /\ \A i \in 1..Len(found) : Append(found, b)[i] = found[i]
        /\ Append(found, b)[Len(found) + 1] = b
    BY <1>1, <2>2, AppendProperties
  <2>4. part' \in [SnapshotVersions -> Seq(Block)] /\ part'[version] = Append(found, b) /\ version' = version
    BY <1>0, <1>1, <2>1, <2>3 DEF PullTypeOK, version
  <2>5. ASSUME OwnCopy PROVE OwnCopy'
    <3>1. \A i \in 1..(Len(found) + 1) : Append(found, b)[i] = BlockOf(pull.artifact, i)
      BY <1>1, <1>2, <2>3, <2>5 DEF OwnCopy, IsPrefixOf
    <3>2. DOMAIN Append(found, b) = 1..(Len(found) + 1)
      BY <2>3, LenProperties
    <3>3. Len(found) + 1 <= Size(pull.artifact)
      BY <1>2, <1>4
    <3> QED
      BY <2>1, <2>3, <2>4, <3>1, <3>2, <3>3 DEF OwnCopy, IsPrefixOf
  <2>6. OwnDownload'
    BY <1>0, <1>3, <2>1, <2>5 DEF OwnDownload, IsAt
  <2> QED
    BY <1>0, <1>1, <2>1, <2>4, <2>6, DownloadingInv DEF Copy, verification
<1>5. CASE ~(Len(found) < Size(pull.artifact))
  <2>1. part' = part /\ pull' = [pull EXCEPT !.pc = "remove"]
    BY <1>5 DEF Copy, GoesTo
  <2>2. pull' \in Command /\ pull'.artifact = pull.artifact /\ pull'.pc = "remove" /\ pull'.flags = pull.flags
    BY <1>1, <2>1 DEF Command
  <2>3. version' = version
    BY <2>2 DEF version
  <2>4. OwnCopy => OwnArchive'
    BY <1>2, <1>5, <2>1, <2>2, <2>3 DEF OwnCopy, OwnArchive, IsPrefixOf
  <2>5. OwnDownload'
    BY <1>3, <2>2, <2>4 DEF OwnDownload, IsAt
  <2> QED
    BY <1>0, <2>1, <2>2, <2>5, DownloadingInv DEF Copy, verification, PullTypeOK
<1> QED
  BY <1>4, <1>5

(* While the directory is written the report on it does not count. *)
LEMMA ReplacingInv ==
  ASSUME PullInv, pull.pc # "idle",
         pull' \in Command, pull'.artifact = pull.artifact,
         pull'.pc \in {"extract", "manifest"},
         dir' \in [SnapshotVersions -> SUBSET PulledFile],
         \A v \in SnapshotVersions \ {version} : dir'[v] = dir[v],
         replaced' = replaced \union {version},
         UNCHANGED <<ready, part, report, held, results, pulls, kills, last>>,
         OwnDownload'
  PROVE  PullInv'
<1> USE DEF PullInv
<1>0. version \in SnapshotVersions /\ version' = version
  BY RunningTyped DEF version
<1>1. PullTypeOK'
  BY <1>0 DEF PullTypeOK
<1>2. DirReplaced' /\ VerifyInv'
  BY <1>0 DEF DirReplaced, VerifyInv, Verifying, IsAt
<1>3. ReportIsTrue'
  BY <1>0 DEF ReportIsTrue, PullTypeOK, Report
<1> QED
  BY <1>1, <1>2, <1>3, NothingPulledYet DEF OwnPullInv

(* The old directory is removed, or some of it, before the first file is extracted. *)
LEMMA RemoveArtifactDirInv ==
  ASSUME PullInv, RemoveArtifactDir \/ RemoveAllFails
  PROVE  PullInv'
<1>0. pull.pc = "remove" /\ PullTypeOK /\ (pull # NoPull => OwnDownload)
  BY DEF RemoveArtifactDir, RemoveAllFails, IsAt, PullInv, OwnPullInv
<1>1. /\ pull.artifact \in Served /\ version \in SnapshotVersions /\ pull # NoPull /\ pull \in Command
  BY <1>0, RunningTyped
<1>2. PICK left \in SUBSET dir[version], marks \in SUBSET {"unremoved"} :
        /\ dir' = [dir EXCEPT ![version] = left]
        /\ pull' = [pull EXCEPT !.pc = "extract", !.at = 1, !.flags = @ \union marks]
        /\ marks = {} => left = {}
  <2>1. CASE RemoveArtifactDir
    <3>1. dir' = [dir EXCEPT ![version] = {}]
      BY <2>1 DEF RemoveArtifactDir, Emptied
    <3>2. pull' = [pull EXCEPT !.pc = "extract", !.at = 1, !.flags = @ \union {}]
      BY <1>1, <2>1 DEF RemoveArtifactDir, Command
    <3> QED
      BY <3>1, <3>2
  <2>2. CASE RemoveAllFails
    BY <2>2 DEF RemoveAllFails
  <2> QED
    BY <2>1, <2>2
<1>3. /\ pull' \in Command /\ pull'.artifact = pull.artifact /\ pull'.pc = "extract"
      /\ pull'.flags = pull.flags \union marks /\ pull'.at = 1
      /\ dir' \in [SnapshotVersions -> SUBSET PulledFile]
      /\ \A v \in SnapshotVersions \ {version} : dir'[v] = dir[v]
      /\ dir'[version] = left
  BY <1>0, <1>1, <1>2 DEF Command, Flags, PullTypeOK
<1>4. version' = version /\ part' = part
  BY <1>3 DEF version, RemoveArtifactDir, RemoveAllFails
<1>5. OwnDownload'
  <2> SUFFICES ASSUME "foreign" \notin pull.flags
               PROVE  OwnArchive' /\ OwnFilesBefore(1)'
    BY <1>3, <1>4 DEF OwnDownload, IsAt
  <2>1. OwnArchive'
    BY <1>0, <1>1, <1>3, <1>4 DEF OwnDownload, OwnArchive, IsAt
  <2>2. 1 \in 1..Size(pull.artifact) /\ ~(ManifestAt[pull.artifact] < 1)
    BY <1>1, ArtifactPullAssumption DEF Size
  <2>3. Extracted(pull.artifact, 1) = {}
    BY DEF Extracted
  <2>4. "unremoved" \notin pull'.flags => left = {}
    BY <1>2, <1>3
  <2> QED
    BY <1>3, <1>4, <2>1, <2>2, <2>3, <2>4 DEF OwnFilesBefore
<1> QED
  BY <1>0, <1>3, <1>5, ReplacingInv DEF RemoveArtifactDir, RemoveAllFails, verification

(* A block of the artifact's own archive is the file it was made from, and its end mark is    *)
(* the end: all files are then there.                                                          *)
LEMMA ExtractInv ==
  ASSUME PullInv, extractTarGz
  PROVE  PullInv'
<1> DEFINE archive == part[version]
           i == pull.at
           file == IF Intact(archive, i) THEN archive[i] ELSE BlockOf(Damaged, i)
<1>0. pull.pc = "extract" /\ PullTypeOK /\ (pull # NoPull => OwnDownload) /\ DirReplaced
  BY DEF extractTarGz, IsAt, PullInv, OwnPullInv
<1>1. /\ pull.artifact \in Served /\ version \in SnapshotVersions /\ pull # NoPull /\ pull \in Command
      /\ i \in Nat /\ archive \in Seq(Block) /\ replaced = replaced \union {version}
  BY <1>0, RunningTyped DEF PullTypeOK, DirReplaced, Extracting
<1>2. i \in DOMAIN archive /\ archive[i] \in Block
  BY <1>1, ElementOfSeq, LenProperties DEF extractTarGz
<1>3. file \in PulledFile
  BY <1>1, <1>2 DEF PulledFile, Block, BlockOf
<1>4. Size(pull.artifact) \in Nat /\ FilesOf[pull.artifact] \in Nat /\ Size(pull.artifact) = FilesOf[pull.artifact] + 1
  BY <1>1, ArtifactPullAssumption DEF Size
<1>5. ASSUME "foreign" \notin pull.flags
      PROVE  /\ OwnArchive /\ OwnFilesBefore(i) /\ i \in 1..Size(pull.artifact)
             /\ \A j \in 1..i : archive[j] = BlockOf(pull.artifact, j)
             /\ IsEnd(archive[i]) <=> i = Size(pull.artifact)
  <2>1. /\ OwnArchive /\ OwnFilesBefore(i) /\ i \in 1..Size(pull.artifact)
        /\ \A j \in 1..i : archive[j] = BlockOf(pull.artifact, j)
    BY <1>0, <1>1, <1>2, <1>4, <1>5, LenProperties
    DEF OwnDownload, OwnArchive, OwnFilesBefore, IsAt, IsPrefixOf
  <2>2. archive[i] = BlockOf(pull.artifact, i)
    BY <1>1, <1>4, <2>1
  <2>3. archive[i].at = i /\ archive[i].of = pull.artifact
    BY <2>2 DEF BlockOf
  <2> QED
    BY <2>1, <2>3 DEF IsEnd
<1>6. CASE IsEnd(archive[i])
  <2>1. pull' = [pull EXCEPT !.pc = "manifest"] /\ dir' = dir /\ part' = part
    BY <1>6 DEF extractTarGz, GoesTo
  <2>2. pull' \in Command /\ pull'.artifact = pull.artifact /\ pull'.pc = "manifest" /\ pull'.flags = pull.flags
    BY <1>1, <2>1 DEF Command
  <2>3. version' = version
    BY <2>2 DEF version
  <2>4. OwnDownload'
    <3> SUFFICES ASSUME "foreign" \notin pull.flags PROVE OwnFilesBefore(Size(pull.artifact))'
      BY <2>2, <2>3 DEF OwnDownload, IsAt
    <3>1. i = Size(pull.artifact)
      BY <1>5, <1>6
    <3> QED
      BY <1>5, <2>1, <2>2, <2>3, <3>1 DEF OwnFilesBefore, OnlyOwnManifest
  <2> QED
    BY <1>0, <1>1, <2>1, <2>2, <2>4, ReplacingInv DEF extractTarGz, verification, PullTypeOK
<1>7. CASE ~IsEnd(archive[i])
  <2>1. PICK gone \in SUBSET dir[version] :
          /\ IsOverwritten(file, gone, dir[version])
          /\ dir' = [dir EXCEPT ![version] = (@ \ gone) \union {file}]
    BY <1>7 DEF extractTarGz
  <2>2. pull' = [pull EXCEPT !.at = i + 1] /\ part' = part
    BY <1>7 DEF extractTarGz
  <2>3. /\ pull' \in Command /\ pull'.artifact = pull.artifact /\ pull'.pc = "extract" /\ pull'.flags = pull.flags
        /\ pull'.at = i + 1 /\ version' = version
    BY <1>0, <1>1, <2>2 DEF Command, version
  <2>4. /\ dir' \in [SnapshotVersions -> SUBSET PulledFile]
        /\ \A v \in SnapshotVersions \ {version} : dir'[v] = dir[v]
        /\ dir'[version] = (dir[version] \ gone) \union {file}
    BY <1>0, <1>1, <1>3, <2>1 DEF PullTypeOK
  <2>5. OwnDownload'
    <3> SUFFICES ASSUME "foreign" \notin pull.flags
                 PROVE  OwnArchive' /\ OwnFilesBefore(pull.at)'
      BY <2>3 DEF OwnDownload, IsAt
    <3>1. OwnArchive' /\ OwnFilesBefore(i)
      BY <1>5, <2>2, <2>3 DEF OwnArchive, IsPrefixOf
    <3>2. i # Size(pull.artifact) /\ i >= 1 /\ i <= Size(pull.artifact)
      BY <1>1, <1>4, <1>5, <1>7
    <3>3. archive[1] = BlockOf(pull.artifact, 1)
      BY <1>1, <1>5, <3>2
    <3>4. file = BlockOf(pull.artifact, i) /\ file.of = pull.artifact /\ file.at = i
      BY <1>1, <1>5, <3>2, <3>3 DEF Intact, BlockOf
    <3>5. i \in 1..FilesOf[pull.artifact] /\ i + 1 \in 1..Size(pull.artifact)
      BY <1>1, <1>4, <3>2
    <3>6. Extracted(pull.artifact, i + 1) = Extracted(pull.artifact, i) \union {file}
      <4>1. 1..((i + 1) - 1) = 1..(i - 1) \union {i}
        BY <1>1, <3>2
      <4> QED
        BY <3>4, <4>1 DEF Extracted
    <3>7. \A g \in dir[version] : g.of \in Served => (g \in gone <=> SamePath(file, g))
      BY <1>1, <2>1, <3>4, ArtifactPullAssumption DEF IsOverwritten
    <3>8. Extracted(pull.artifact, i) \intersect gone = {}
      <4> SUFFICES ASSUME NEW j \in 1..(i - 1), BlockOf(pull.artifact, j) \in gone PROVE FALSE
        BY DEF Extracted
      <4>1. SamePath(file, BlockOf(pull.artifact, j))
        BY <1>1, <3>7 DEF BlockOf
      <4>2. PathOf[pull.artifact][i] = PathOf[pull.artifact][j]
        BY <3>4, <4>1 DEF SamePath, BlockOf
      <4>3. j \in 1..FilesOf[pull.artifact] /\ j # i
        BY <1>1, <1>4, <3>5
      <4> QED
        BY <1>1, <3>5, <4>2, <4>3, ArtifactPullAssumption
    <3>9. Extracted(pull.artifact, i + 1) \subseteq dir'[version]
      BY <2>4, <3>1, <3>6, <3>8 DEF OwnFilesBefore
    <3>10. "unremoved" \notin pull.flags => dir'[version] = Extracted(pull.artifact, i + 1)
      BY <2>4, <3>1, <3>6, <3>8 DEF OwnFilesBefore
    <3>11. ASSUME ManifestAt[pull.artifact] < i + 1, NEW b \in Served,
                  BlockOf(b, ManifestAt[b]) \in dir'[version]
           PROVE  b = pull.artifact
      <4> DEFINE g == BlockOf(b, ManifestAt[b])
      <4>1. g.of = b /\ g.at = ManifestAt[b]
        BY DEF BlockOf
      <4>2. CASE g = file
        BY <3>4, <4>1, <4>2
      <4>3. CASE g # file /\ ManifestAt[pull.artifact] < i
        BY <2>4, <3>1, <3>11, <4>3 DEF OwnFilesBefore, OnlyOwnManifest
      <4>4. CASE g # file /\ ~(ManifestAt[pull.artifact] < i)
        <5>1. ManifestAt[pull.artifact] = i
          BY <1>1, <3>11, <4>4, ArtifactPullAssumption
        <5>2. SamePath(file, g)
          BY <1>1, <3>4, <4>1, <5>1, ArtifactPullAssumption DEF SamePath
        <5> QED
          BY <2>4, <3>7, <3>11, <4>1, <4>4, <5>2
      <4> QED
        BY <4>2, <4>3, <4>4
    <3>12. ManifestAt[pull.artifact] < i + 1 => OnlyOwnManifest'
      BY <2>3, <3>11 DEF OnlyOwnManifest
    <3> QED
      BY <2>3, <3>1, <3>5, <3>9, <3>10, <3>12 DEF OwnFilesBefore
  <2> QED
    BY <1>0, <1>1, <2>2, <2>3, <2>4, <2>5, ReplacingInv DEF extractTarGz, verification
<1> QED
  BY <1>6, <1>7

(* From the manifest to the report the directory stays as it is. *)
LEMMA VerifyingInv ==
  ASSUME PullInv, pull.pc \in {"manifest", "verify", "report"},
         pull' \in Command, pull'.artifact = pull.artifact, pull'.pc \in Verifying,
         pull'.flags = pull.flags,
         UNCHANGED <<ready, part, dir, report, pulls, kills, last, replaced>>,
         held' \in [Workers -> Nat], results' \subseteq Result,
         VerifyInv'
  PROVE  PullInv'
<1> USE DEF PullInv
<1>0. pull # NoPull /\ version' = version
  BY RunningTyped DEF version
<1>1. PullTypeOK'
  BY DEF PullTypeOK
<1>2. DirReplaced'
  BY <1>0 DEF DirReplaced, Extracting, Verifying
<1>3. ReportIsTrue'
  BY DEF ReportIsTrue
<1>4. OwnPullInv'
  BY <1>0 DEF OwnPullInv, OwnDownload, OwnFilesBefore, OnlyOwnManifest, Verifying, IsAt
<1> QED
  BY <1>1, <1>2, <1>3, <1>4, NothingPulledYet DEF Verifying

(* Verification starts with no entry taken. *)
LEMMA LoadManifestInv ==
  ASSUME PullInv, loadManifest
  PROVE  PullInv'
<1>0. pull.pc = "manifest" /\ PullTypeOK
  BY DEF loadManifest, IsAt, PullInv
<1>1. CASE Manifests = {}
  BY <1>0, <1>1, FailsInv DEF loadManifest
<1>2. CASE Manifests # {}
  <2>1. /\ pull' = [pull EXCEPT !.pc = "verify"] /\ held' = [w \in Workers |-> 0] /\ results' = {}
        /\ UNCHANGED <<ready, part, dir, report, pulls, kills, last, replaced>>
    BY <1>2 DEF loadManifest, NoneVerified, GoesTo, files
  <2>2. /\ pull' \in Command /\ pull'.artifact = pull.artifact /\ pull'.pc = "verify"
        /\ pull'.flags = pull.flags
    BY <1>0, <2>1, RunningTyped DEF Command
  <2>3. Manifests' = Manifests
    BY <2>1, <2>2, SameManifest
  <2>4. VerifyInv'
    BY <1>2, <2>1, <2>2, <2>3 DEF VerifyInv, HeldOnce, ResultOnce, IsAt
  <2>5. held' \in [Workers -> Nat] /\ results' \subseteq Result
    BY <2>1
  <2> QED
    BY <1>0, <2>1, <2>2, <2>4, <2>5, VerifyingInv DEF Verifying
<1> QED
  BY <1>1, <1>2

(* A worker takes an entry nobody has or had. *)
LEMMA TakeEntryInv ==
  ASSUME PullInv, NEW w \in Workers, TakeEntry(w)
  PROVE  PullInv'
<1>0. pull.pc = "verify" /\ PullTypeOK /\ Manifests # {} /\ HeldOnce /\ ResultOnce /\ pull' = pull
  BY DEF TakeEntry, IsAt, PullInv, VerifyInv, Verifying
<1>1. pull \in Command
  BY <1>0, RunningTyped
<1>2. PICK i \in Entries(manifest) \ Taken : held' = [held EXCEPT ![w] = i]
  BY DEF TakeEntry
<1>3. UNCHANGED <<ready, part, dir, report, pulls, kills, last, replaced, results>>
  BY DEF TakeEntry, files
<1>4. version' = version /\ Manifests' = Manifests /\ manifest' = manifest
  BY <1>0, <1>3, SameManifest
<1>5. i \in Nat \ {0}
  BY <1>0, <1>2, ManifestFound, EntriesFinite
<1>6. /\ held' \in [Workers -> Nat] /\ held'[w] = i
      /\ \A u \in Workers \ {w} : held'[u] = held[u]
  BY <1>0, <1>2, <1>5 DEF PullTypeOK
<1>7. (\A u \in Workers : held[u] # i) /\ (\A x \in results : x[1] # i)
  BY <1>2 DEF Taken
<1>8. HeldOnce'
  BY <1>0, <1>2, <1>3, <1>4, <1>6, <1>7 DEF HeldOnce
<1>9. VerifyInv'
  BY <1>0, <1>3, <1>4, <1>8 DEF VerifyInv, ResultOnce, IsAt
<1> QED
  BY <1>0, <1>1, <1>3, <1>6, <1>9, VerifyingInv DEF PullTypeOK, Verifying

(* The entry a worker gives back has its one result, and passed only if it is there. *)
LEMMA VerifyEntryInv ==
  ASSUME PullInv, NEW w \in Workers, VerifyEntry(w)
  PROVE  PullInv'
<1> DEFINE s == IF "signalled" \notin pull.flags /\ VerifyManifestEntry(held[w]) THEN "passed" ELSE "failed"
           r == <<held[w], s>>
<1>0. pull.pc = "verify" /\ PullTypeOK /\ Manifests # {} /\ HeldOnce /\ ResultOnce /\ pull' = pull
  BY DEF VerifyEntry, IsAt, PullInv, VerifyInv, Verifying
<1>1. pull \in Command
  BY <1>0, RunningTyped
<1>2. held[w] # 0 /\ results' = results \union {r} /\ held' = [held EXCEPT ![w] = 0]
  BY DEF VerifyEntry
<1>3. UNCHANGED <<ready, part, dir, report, pulls, kills, last, replaced>>
  BY DEF VerifyEntry, files
<1>4. version' = version /\ Manifests' = Manifests /\ manifest' = manifest
  BY <1>0, <1>3, SameManifest
<1>5. /\ held' \in [Workers -> Nat] /\ held'[w] = 0
      /\ \A u \in Workers \ {w} : held'[u] = held[u]
      /\ r \in Result /\ r[1] = held[w] /\ r[2] = s
  BY <1>0, <1>2 DEF PullTypeOK, Result
<1>6. /\ held[w] \in Entries(manifest)
      /\ \A x \in results : x[1] # held[w]
      /\ \A u \in Workers : held[u] = held[w] => u = w
      /\ s = "passed" => BlockOf(manifest, held[w]) \in dir[version]
  BY <1>0, <1>2 DEF HeldOnce, VerifyManifestEntry
<1>7. HeldOnce'
  BY <1>0, <1>2, <1>4, <1>5, <1>6 DEF HeldOnce
<1>8. ResultOnce'
  BY <1>0, <1>2, <1>3, <1>4, <1>5, <1>6 DEF ResultOnce
<1>9. VerifyInv'
  BY <1>0, <1>4, <1>7, <1>8 DEF VerifyInv, IsAt
<1>10. results' \subseteq Result
  BY <1>0, <1>2, <1>5 DEF PullTypeOK
<1> QED
  BY <1>0, <1>1, <1>3, <1>5, <1>9, <1>10, VerifyingInv DEF Verifying

(* The report comes when every entry has its result. *)
LEMMA OutcomesClosedInv ==
  ASSUME PullInv, OutcomesClosed
  PROVE  PullInv'
<1>0. pull.pc = "verify" /\ PullTypeOK /\ Manifests # {} /\ HeldOnce /\ ResultOnce
  BY DEF OutcomesClosed, IsAt, PullInv, VerifyInv, Verifying
<1>1. pull' = [pull EXCEPT !.pc = "report"]
  BY DEF OutcomesClosed, GoesTo
<1>2. /\ pull' \in Command /\ pull'.artifact = pull.artifact /\ pull'.pc = "report"
      /\ pull'.flags = pull.flags
  BY <1>0, <1>1, RunningTyped DEF Command
<1>3. UNCHANGED <<ready, part, dir, report, held, results, pulls, kills, last, replaced>>
  BY DEF OutcomesClosed, files, verification
<1>4. version' = version /\ Manifests' = Manifests /\ manifest' = manifest
  BY <1>2, <1>3, SameManifest
<1>5. HeldOnce' /\ ResultOnce'
  BY <1>0, <1>3, <1>4 DEF HeldOnce, ResultOnce
<1>6. VerifyInv'
  BY <1>0, <1>3, <1>4, <1>5 DEF VerifyInv, OutcomesClosed
<1> QED
  BY <1>0, <1>2, <1>3, <1>6, VerifyingInv DEF Verifying, PullTypeOK

(* An interrupt, the time limit and a server that hangs mark the command, wherever it is. *)
LEMMA MarkedInv ==
  ASSUME PullInv, Signal \/ LimitPasses \/ ServerHangs
  PROVE  PullInv'
<1> USE DEF PullInv
<1>0. PICK mark \in Passing : pull.pc # "idle" /\ pull' = [pull EXCEPT !.flags = @ \union {mark}]
  BY DEF Signal, LimitPasses, ServerHangs, IsAt, Passing
<1>1. /\ pull' \in Command /\ pull'.artifact = pull.artifact /\ pull'.pc = pull.pc
      /\ pull'.at = pull.at /\ pull # NoPull
      /\ "foreign" \in pull'.flags <=> "foreign" \in pull.flags
      /\ "unremoved" \in pull'.flags <=> "unremoved" \in pull.flags
  BY <1>0, RunningTyped DEF Command, Flags, Passing
<1>2. UNCHANGED <<ready, part, dir, report, held, results, pulls, kills, last, replaced>>
  BY DEF Signal, LimitPasses, ServerHangs, files, verification
<1>3. version' = version /\ Manifests' = Manifests /\ manifest' = manifest
  BY <1>1, <1>2, SameManifest
<1>4. PullTypeOK'
  BY <1>1, <1>2 DEF PullTypeOK
<1>5. DirReplaced' /\ VerifyInv'
  BY <1>1, <1>2, <1>3 DEF DirReplaced, VerifyInv, HeldOnce, ResultOnce, IsAt
<1>6. OwnPullInv'
  BY <1>1, <1>2, <1>3 DEF OwnPullInv, OwnDownload, OwnCopy, OwnArchive, OwnFilesBefore,
     OnlyOwnManifest, IsAt
<1>7. ReportIsTrue'
  BY <1>2 DEF ReportIsTrue
<1> QED
  BY <1>0, <1>1, <1>4, <1>5, <1>6, <1>7, NothingPulledYet

(* A kill leaves everything where it is. *)
LEMMA KillInv ==
  ASSUME PullInv, Kill
  PROVE  PullInv'
<1>1. kills' \in Nat
  BY DEF PullInv, PullTypeOK, Kill
<1> QED
  BY <1>1, EndsBadlyInv DEF Kill, IsAt, files

(* The report has a result for every entry of the manifest that was found; without a failure  *)
(* all files of its artifact are there, and if nothing foreign was resumed that is the one    *)
(* which was asked for.                                                                       *)
LEMMA WriteReportInv ==
  ASSUME PullInv, writeVerifyReport
  PROVE  PullInv'
<1> DEFINE m == manifest
           r == [artifact |-> pull.artifact, version |-> version,
                 total |-> Cardinality(Entries(m)), files |-> results]
           l == [artifact |-> pull.artifact, flags |-> pull.flags \ Passing, outcome |-> Outcome]
<1>0. /\ pull.pc = "report" /\ PullTypeOK /\ Manifests # {} /\ ResultOnce
      /\ {x[1] : x \in results} = Entries(m) /\ (pull # NoPull => OwnDownload)
  BY DEF writeVerifyReport, IsAt, PullInv, VerifyInv, Verifying, OwnPullInv
<1>1. /\ pull \in Command /\ pull # NoPull /\ pull.artifact \in Served /\ version \in SnapshotVersions
      /\ pull.flags \in SUBSET Flags
  BY <1>0, RunningTyped
<1>2. m \in Served /\ BlockOf(m, ManifestAt[m]) \in dir[version]
  BY <1>0, ManifestFound
<1>3. /\ report' = {r} /\ last' = {l} /\ pull' = NoPull /\ part' = RemovedPart
      /\ replaced' = replaced \ {version}
      /\ UNCHANGED <<ready, dir, pulls, kills>>
      /\ held' \in [Workers -> Nat] /\ results' = {}
  BY DEF writeVerifyReport, Return, NoneVerified
<1>4. Cardinality(results) = Cardinality(Entries(m)) /\ Cardinality(Entries(m)) \in Nat
  <2>1. IsFiniteSet(Entries(m)) /\ Cardinality(Entries(m)) \in Nat
    BY <1>2, EntriesFinite
  <2>2. \A x, y \in results : x[1] = y[1] => x = y
    BY <1>0 DEF ResultOnce
  <2>3. results \in SUBSET Result
    BY <1>0 DEF PullTypeOK
  <2> QED
    BY <1>0, <2>1, <2>2, <2>3, OneResultEach
<1>5. PullTypeOK'
  <2>1. r \in Report
    BY <1>0, <1>1, <1>4 DEF Report, PullTypeOK
  <2>2. l \in Ended
    BY <1>1 DEF Ended, Outcome
  <2>3. part' \in [SnapshotVersions -> Seq(Block)]
    BY <1>0, <1>3, EmptySeq DEF PullTypeOK, RemovedPart
  <2> QED
    BY <1>0, <1>3, <2>1, <2>2, <2>3 DEF PullTypeOK
<1>6. DirReplaced' /\ VerifyInv' /\ OwnPullInv'
  BY <1>3 DEF DirReplaced, VerifyInv, OwnPullInv, NoPull, Extracting, Verifying, IsAt
<1>7. ReportIsTrue'
  <2>1. \A x \in results : x[2] = "passed" => BlockOf(m, x[1]) \in dir[version]
    BY <1>0 DEF ResultOnce
  <2> QED
    BY <1>0, <1>2, <1>3, <1>4, <2>1 DEF ReportIsTrue
<1>8. PulledIsVerified'
  <2> SUFFICES ASSUME Outcome = "ok", "partial" \notin pull.flags
               PROVE  /\ FilesIn(m) \subseteq dir[version]
                      /\ results = Entries(m) \X {"passed"}
                      /\ "foreign" \notin pull.flags => m = pull.artifact
                      /\ pull.flags \intersect {"foreign", "unremoved"} = {} =>
                           m = pull.artifact /\ dir[version] = FilesIn(m)
    <3>1. \A f \in {"partial", "foreign", "unremoved"} : f \in pull.flags \ Passing <=> f \in pull.flags
      BY DEF Passing
    <3>2. dir' = dir /\ VersionOf[pull.artifact] = version
      BY <1>3 DEF version
    <3> QED
      BY <1>2, <1>3, <3>1, <3>2 DEF PulledIsVerified
  <2>1. \A x \in results : x[2] = "passed" /\ x = <<x[1], x[2]>>
    BY <1>0 DEF Outcome, VerifyError, PullTypeOK, Result
  <2>2. results = Entries(m) \X {"passed"}
    <3>1. ASSUME NEW x \in results PROVE x \in Entries(m) \X {"passed"}
      BY <1>0, <2>1
    <3>2. ASSUME NEW e \in Entries(m) PROVE <<e, "passed">> \in results
      <4>1. PICK x \in results : x[1] = e
        BY <1>0
      <4> QED
        BY <2>1, <4>1
    <3> QED
      BY <3>1, <3>2
  <2>3. \A i \in Entries(m) : BlockOf(m, i) \in dir[version]
    <3> SUFFICES ASSUME NEW i \in Entries(m) PROVE BlockOf(m, i) \in dir[version]
      OBVIOUS
    <3>1. PICK x \in results : x[1] = i
      BY <1>0
    <3> QED
      BY <1>0, <2>1, <3>1 DEF ResultOnce
  <2>4. FilesIn(m) \subseteq dir[version]
    BY <1>2, <2>3 DEF FilesIn, Entries
  <2>5. ASSUME "foreign" \notin pull.flags
        PROVE  /\ m = pull.artifact
               /\ "unremoved" \notin pull.flags => dir[version] = FilesIn(m)
    <3>1. OwnFilesBefore(Size(pull.artifact))
      BY <1>0, <1>1, <2>5 DEF OwnDownload
    <3>2. /\ ManifestAt[pull.artifact] < Size(pull.artifact)
          /\ 1..(Size(pull.artifact) - 1) = 1..FilesOf[pull.artifact]
      BY <1>1, ArtifactPullAssumption DEF Size
    <3>3. Extracted(pull.artifact, Size(pull.artifact)) = FilesIn(pull.artifact)
      BY <3>2 DEF Extracted, FilesIn
    <3>4. m = pull.artifact
      BY <1>2, <3>1, <3>2 DEF OwnFilesBefore, OnlyOwnManifest
    <3> QED
      BY <3>1, <3>3, <3>4 DEF OwnFilesBefore
  <2> QED
    BY <2>2, <2>4, <2>5
<1> QED
  BY <1>5, <1>6, <1>7, <1>8 DEF PullInv

-----------------------------------------------------------------------------
(* Each step of a pull keeps the invariant. *)
LEMMA PullStepInv ==
  ASSUME PullInv, PullNext
  PROVE  PullInv'
<1>1. ASSUME NEW a \in Served, NEW flags \in SUBSET {"partial"}, Start(a, flags) PROVE PullInv'
  BY <1>1, StartInv
<1>2. ASSUME NEW a \in Served, BecomesReady(a) PROVE PullInv'
  BY <1>2, BecomesReadyInv
<1>3. CASE Step
  <2>1. CASE DownloadCancelled
    BY <2>1, FailsInv DEF DownloadCancelled, IsAt
  <2>2. ASSUME NEW w \in Workers, TakeEntry(w) \/ VerifyEntry(w) PROVE PullInv'
    BY <2>2, TakeEntryInv, VerifyEntryInv
  <2> QED
    BY <1>3, <2>1, <2>2, ResolvingInv, RequestInv, CopyInv, RemoveArtifactDirInv, ExtractInv,
       LoadManifestInv, OutcomesClosedInv, WriteReportInv DEF Step
<1>4. CASE Failure
  <2>1. CASE ResolveFails \/ DownloadFails \/ ExtractFails \/ writeVerifyReportFails
    BY <2>1, FailsInv DEF ResolveFails, DownloadFails, ExtractFails, writeVerifyReportFails, IsAt
  <2> QED
    BY <1>4, <2>1, RemoveArtifactDirInv, MarkedInv, KillInv DEF Failure
<1>5. CASE WaitEnds
  BY <1>5, FailsInv DEF WaitEnds, IsAt
<1> QED
  BY <1>1, <1>2, <1>3, <1>4, <1>5, MarkedInv DEF PullNext

(* A stuttering step keeps it too. *)
LEMMA PullStutterInv ==
  ASSUME PullInv, UNCHANGED pullVars
  PROVE  PullInv'
<1>0. UNCHANGED <<ready, part, dir, report, pull, held, results, pulls, kills, last, replaced>>
  BY DEF pullVars
<1>1. version' = version /\ Manifests' = Manifests /\ manifest' = manifest
  BY <1>0, SameManifest
<1>2. PullTypeOK'
  BY <1>0 DEF PullInv, PullTypeOK
<1>3. DirReplaced' /\ VerifyInv'
  BY <1>0, <1>1 DEF PullInv, DirReplaced, VerifyInv, HeldOnce, ResultOnce, IsAt
<1>4. OwnPullInv'
  BY <1>0, <1>1 DEF PullInv, OwnPullInv, OwnDownload, OwnCopy, OwnArchive, OwnFilesBefore,
     OnlyOwnManifest, IsAt
<1>5. ReportIsTrue' /\ PulledIsVerified'
  BY <1>0 DEF PullInv, ReportIsTrue, PulledIsVerified, IsAt
<1> QED
  BY <1>2, <1>3, <1>4, <1>5 DEF PullInv

(* The invariant holds of every sequence of pulls, whatever was killed or interrupted. *)
THEOREM PullInvariance == PullSpec => []PullInv
<1>1. PullInv /\ [PullNext]_pullVars => PullInv'
  BY PullStepInv, PullStutterInv
<1> QED
  BY <1>1, PullInitInv, PTL DEF PullSpec

(* What a pull keeps has its type. *)
THEOREM PullTypeCorrect == PullSpec => []PullTypeOK
BY PullInvariance, PTL DEF PullInv

(* writeVerifyReport, verifyManifestEntries: the report on a directory is true of it until    *)
(* the directory is replaced.                                                                 *)
THEOREM ReportStaysTrue == PullSpec => []ReportIsTrue
BY PullInvariance, PTL DEF PullInv

(* Pull: a command that ended well has left all files of an archive, verified, and those of   *)
(* the artifact that was asked for unless it resumed another one's temporary file; nothing    *)
(* else is there unless the old directory could not be removed.                               *)
THEOREM PullVerifies == PullSpec => []PulledIsVerified
BY PullInvariance, PTL DEF PullInv

-----------------------------------------------------------------------------
(***************************************************************************)
(* PackageExport. The names the items get are distinct, because a free     *)
(* suffix is always found: there are more suffixes to try than names in    *)
(* use.                                                                    *)
(***************************************************************************)

(* The items are written in their order, each manifest entry is about one of them, each image *)
(* stays as it was written, and a label file does unless a later item has the same one.       *)
WrittenInOrder ==
  \A i \in ItemsWritten, j \in DOMAIN names : j < i => j \in ItemsWritten

EntriesOfItems ==
  \A f \in entries : \E id \in ItemsWritten : f \in FilesOfItem(id)

ImagesKept ==
  \A id \in ItemsWritten : FileOf(ImagePath(id), Image(id)) \in written

LabelsKept ==
  format = "yolo" => \A id \in ItemsWritten :
    \/ FileOf(LabelPath(id), Lines(boxes[id])) \in written
    \/ \E other \in ItemsWritten : other > id /\ LabelPath(other) = LabelPath(id)

WritingInv == WrittenInOrder /\ EntriesOfItems /\ ImagesKept /\ LabelsKept

(* File names are distinct, which everything rests on. *)
NamesInv ==
  /\ keys \in Seq(Keys)
  /\ names \in Seq(Name)
  /\ Len(names) <= Len(keys)
  /\ \A i, j \in DOMAIN names : names[i] = names[j] => i = j

PackInv ==
  /\ NamesInv
  /\ packPc = "items" => written = {} /\ entries = {}
  /\ packPc \in {"write", "packed"} => Len(names) = Len(keys)
  /\ packPc = "write" => WritingInv
  /\ PackageIsComplete

-----------------------------------------------------------------------------
(* A set of natural numbers has a least one, which Min gives. *)
LEMMA LeastIsLeast ==
  ASSUME NEW S \in SUBSET Nat, S # {}
  PROVE  Min(S) \in S /\ \A n \in S : Min(S) <= n
<1>1. IsWellFoundedOn(OpToRel(<, Nat), Nat)
  BY NatLessThanWellFounded
<1>2. PICK x \in S : \A y \in S : ~ (<<y, x>> \in OpToRel(<, Nat))
  BY <1>1, WFMin
<1>3. \A y \in S : x <= y
  <2> SUFFICES ASSUME NEW y \in S, y < x PROVE FALSE
    OBVIOUS
  <2>1. <<y, x>> \in Nat \X Nat
    OBVIOUS
  <2>2. <<y, x>> \in OpToRel(<, Nat)
    BY <2>1 DEF OpToRel
  <2> QED
    BY <1>2, <2>2
<1> QED
  BY <1>3 DEF Min

Part == Seq(Words \X Nat) \ {<<>>}

(* A name is a sequence of parts, and so is what precedes its extension. *)
LEMMA NameParts ==
  ASSUME NEW name \in Name
  PROVE  /\ name \in Seq(Part) /\ Len(name) \in Nat \ {0} /\ DOMAIN name = 1..Len(name)
         /\ StemLength(name) \in DOMAIN name
         /\ Stem(name) \in Seq(Part)
<1>1. name \in Seq(Part) /\ name # <<>>
  BY DEF Name, Part
<1>2. Len(name) \in Nat \ {0} /\ DOMAIN name = 1..Len(name)
  BY <1>1, LenProperties, EmptySeq
<1>3. StemLength(name) \in 1..Len(name)
  BY <1>2 DEF StemLength
<1>4. Stem(name) \in Seq(Part)
  BY <1>1, <1>2, <1>3, SubSeqProperties DEF Stem
<1> QED
  BY <1>1, <1>2, <1>3, <1>4

(* Suffixes tell made-up names apart. *)
LEMMA SuffixesDiffer ==
  ASSUME NEW id \in Nat, NEW base \in Name, NEW m \in Nat, NEW n \in Nat
  PROVE  /\ Suffixed(id, base, n) \in Name
         /\ Suffixed(id, base, m) = Suffixed(id, base, n) => m = n
<1> DEFINE T == Words \X Nat
           tail(k) == SuffixTokens(id, k)
           at == StemLength(base)
           s == base[at]
<1>1. /\ base \in Seq(Part) /\ Len(base) \in Nat \ {0} /\ DOMAIN base = 1..Len(base)
      /\ at \in 1..Len(base)
  BY NameParts
<1>2. s \in Seq(T) /\ Len(s) \in Nat
  <2>1. s \in Part
    BY <1>1, ElementOfSeq
  <2> QED
    BY <2>1, LenProperties DEF Part
<1>3. \A k \in Nat : /\ tail(k) \in Seq(T) /\ Len(tail(k)) = (IF k = 0 THEN 1 ELSE 2)
                     /\ k # 0 => tail(k)[2] = Numeral(k)
  <2> SUFFICES ASSUME NEW k \in Nat
               PROVE  /\ tail(k) \in Seq(T) /\ Len(tail(k)) = (IF k = 0 THEN 1 ELSE 2)
                      /\ k # 0 => tail(k)[2] = Numeral(k)
    OBVIOUS
  <2>1. Numeral(id) \in T /\ Numeral(k) \in T
    BY PackageExportAssumption DEF Numeral
  <2> HIDE DEF T
  <2>2. \A t, u \in T : <<t>> \in Seq(T) /\ Len(<<t>>) = 1 /\ <<t, u>> \in Seq(T) /\ Len(<<t, u>>) = 2
                        /\ <<t, u>>[2] = u
    OBVIOUS
  <2> QED
    BY <2>1, <2>2 DEF SuffixTokens
<1> HIDE DEF tail, s, at, T
<1>4. \A k \in Nat : /\ s \o tail(k) \in Seq(T)
                     /\ Len(s \o tail(k)) = Len(s) + (IF k = 0 THEN 1 ELSE 2)
                     /\ k # 0 => (s \o tail(k))[Len(s) + 2] = Numeral(k)
  <2> SUFFICES ASSUME NEW k \in Nat
               PROVE  /\ s \o tail(k) \in Seq(T)
                      /\ Len(s \o tail(k)) = Len(s) + (IF k = 0 THEN 1 ELSE 2)
                      /\ k # 0 => (s \o tail(k))[Len(s) + 2] = Numeral(k)
    OBVIOUS
  <2>1. tail(k) \in Seq(T) /\ Len(tail(k)) = (IF k = 0 THEN 1 ELSE 2)
    BY <1>3
  <2>2. /\ s \o tail(k) \in Seq(T) /\ Len(s \o tail(k)) = Len(s) + Len(tail(k))
        /\ \A i \in 1 .. Len(s) + Len(tail(k)) :
             (s \o tail(k))[i] = IF i <= Len(s) THEN s[i] ELSE tail(k)[i - Len(s)]
    BY <1>2, <2>1, ConcatProperties
  <2>3. k # 0 => (s \o tail(k))[Len(s) + 2] = tail(k)[2]
    BY <1>2, <2>1, <2>2
  <2> QED
    BY <1>3, <2>1, <2>2, <2>3
<1>5. \A k \in Nat : s \o tail(k) \in Part
  <2> SUFFICES ASSUME NEW k \in Nat PROVE s \o tail(k) # <<>>
    BY <1>4 DEF Part, T
  <2>1. Len(s \o tail(k)) # 0
    <3>1. Len(s) + 1 # 0 /\ Len(s) + 2 # 0
      BY <1>2
    <3> QED
      BY <1>4, <3>1
  <2> QED
    BY <1>4, <2>1, EmptySeq
<1>6. \A k \in Nat : Suffixed(id, base, k) = [base EXCEPT ![at] = s \o tail(k)]
  BY DEF Suffixed, tail, s, at
<1>7. \A k \in Nat : Suffixed(id, base, k) \in Name /\ Suffixed(id, base, k)[at] = s \o tail(k)
  <2> SUFFICES ASSUME NEW v \in Part
               PROVE  [base EXCEPT ![at] = v] \in Name /\ [base EXCEPT ![at] = v][at] = v
    BY <1>5, <1>6
  <2> DEFINE e == [base EXCEPT ![at] = v]
  <2>1. \A i \in 1..Len(base) : base[i] \in Part
    BY <1>1, ElementOfSeq
  <2>2. e \in [1..Len(base) -> Part] /\ e[at] = v
    BY <1>1, <2>1
  <2> HIDE DEF e
  <2>3. e \in Seq(Part) /\ Len(e) = Len(base)
    BY <1>1, <2>2, LenProperties, SeqDef
  <2>4. e # <<>>
    BY <1>1, <2>3, EmptySeq
  <2> QED
    BY <2>2, <2>3, <2>4 DEF Name, Part, e
<1>8. ASSUME s \o tail(m) = s \o tail(n) PROVE m = n
  <2>1. Len(s) + (IF m = 0 THEN 1 ELSE 2) = Len(s) + (IF n = 0 THEN 1 ELSE 2)
    BY <1>4, <1>8
  <2>2. m = 0 <=> n = 0
    <3>1. Len(s) + 1 # Len(s) + 2
      BY <1>2
    <3> QED
      BY <2>1, <3>1, Zenon
  <2>3. CASE m # 0
    <3>1. Numeral(m) = Numeral(n)
      BY <1>4, <1>8, <2>2, <2>3
    <3> QED
      BY <3>1 DEF Numeral
  <2> QED
    BY <2>2, <2>3
<1> QED
  BY <1>7, <1>8

(* buildOutputName finds a name that is not in use: there are more suffixes than names. *)
LEMMA OutputNameIsNew ==
  ASSUME NEW id \in Nat, NEW base \in Name, NEW used, IsFiniteSet(used)
  PROVE  /\ buildOutputName(id, base, used) \in Name
         /\ buildOutputName(id, base, used) \notin used
<1> DEFINE c == Cardinality(used)
           free == {n \in 0..c : Suffixed(id, base, n) \notin used}
<1>1. c \in Nat
  BY FS_CardinalityType
<1>2. free # {}
  <2> SUFFICES ASSUME free = {} PROVE FALSE
    OBVIOUS
  <2> DEFINE I == 0..c
             f == [n \in I |-> Suffixed(id, base, n)]
  <2>1. f \in [I -> used]
    OBVIOUS
  <2>2. IsFiniteSet(I) /\ Cardinality(used) < Cardinality(I)
    BY <1>1, FS_Interval
  <2>3. \E m, n \in I : m # n /\ f[m] = f[n]
    <3> HIDE DEF f, I
    <3> QED
      BY <2>1, <2>2, FS_PigeonHole
  <2> QED
    BY <1>1, <2>3, SuffixesDiffer
<1>3. Min(free) \in free
  BY <1>1, <1>2, LeastIsLeast
<1>4. Suffixed(id, base, Min(free)) \in Name
  BY <1>1, <1>3, SuffixesDiffer
<1> QED
  BY <1>3, <1>4 DEF buildOutputName

(* Images of different names have the same label file only if they differ in an extension. *)
LEMMA SameLabelSharesStem ==
  ASSUME NEW m \in Name, NEW n \in Name, m # n,
         buildLabelFileName(m) = buildLabelFileName(n)
  PROVE  DifferInExtension(m, n) \/ DifferInExtension(n, m)
<1> DEFINE kept(k) == IF Stem(k) = EmptyName THEN k ELSE Stem(k)
<1>1. \A k \in Name : kept(k) \in Seq(Part) /\ buildLabelFileName(k) = Append(kept(k), Txt)
  BY NameParts DEF buildLabelFileName
<1>2. Txt \in Part
  <2>1. Word("txt") \in Words \X Nat
    BY PackageExportAssumption DEF Word
  <2>2. Txt \in Seq(Words \X Nat) /\ Len(Txt) = 1
    BY <2>1 DEF Txt
  <2>3. Txt # <<>>
    BY <2>2
  <2> QED
    BY <2>2, <2>3 DEF Part
<1>3. kept(m) = kept(n)
  <2> HIDE DEF kept
  <2>1. \A t, u \in Seq(Part) : Append(t, Txt) = Append(u, Txt) => t = u
    BY <1>2, AppendInjective
  <2> QED
    BY <1>1, <2>1
<1> QED
  BY <1>3 DEF DifferInExtension

(* A build starts with no items, no names and no files. *)
LEMMA PackIdleInv == PackIdle => PackInv
<1> SUFFICES ASSUME PackIdle PROVE PackInv
  OBVIOUS
<1>1. packPc = "idle" /\ keys = <<>> /\ names = <<>>
  BY DEF PackIdle
<1>2. keys \in Seq(Keys) /\ names \in Seq(Name) /\ DOMAIN names = {}
  BY <1>1, EmptySeq
<1>3. Len(names) <= Len(keys)
  BY <1>1
<1> QED
  BY <1>1, <1>2, <1>3 DEF PackInv, NamesInv, PackageIsComplete

(* Loading the snapshot gives every item a key. *)
LEMMA LoadInv ==
  ASSUME PackInv, PackIdle, NEW f, NEW n \in 0..MaxItems, LoadSnapshotBundle(f, n)
  PROVE  PackInv'
<1>0. MaxItems \in Nat
  BY PackageExportAssumption
<1>1. n \in Nat /\ keys' \in [1..n -> Keys]
  BY <1>0 DEF LoadSnapshotBundle
<1>2. keys' \in Seq(Keys) /\ Len(keys') = n
  BY <1>1
<1>3. packPc' = "items" /\ names' = <<>> /\ written' = {} /\ entries' = {}
  BY DEF LoadSnapshotBundle, PackIdle
<1>4. NamesInv'
  BY <1>1, <1>2, <1>3, EmptySeq DEF NamesInv
<1> QED
  BY <1>3, <1>4 DEF PackInv, PackageIsComplete

(* The name of the next item is in use for none before it. *)
LEMMA LoadItemsInv ==
  ASSUME PackInv, loadItems
  PROVE  PackInv'
<1> DEFINE id == Len(names) + 1
           base == BaseName(id, keys[id])
           name == buildOutputName(id, base, Range(names))
<1>0. /\ NamesInv /\ packPc = "items" /\ written = {} /\ entries = {} /\ id \in DOMAIN keys
      /\ names' = Append(names, name)
      /\ UNCHANGED <<packPc, format, keys, boxes, written, entries>>
  BY DEF PackInv, loadItems
<1>1. Len(names) \in Nat /\ DOMAIN names = 1..Len(names) /\ DOMAIN keys = 1..Len(keys) /\ Len(keys) \in Nat
  BY <1>0, LenProperties DEF NamesInv
<1>2. base \in Name
  <2>1. keys[id] \in Name \union {NoBase}
    BY <1>0, <1>1, ElementOfSeq, PackageExportAssumption DEF NamesInv
  <2>2. <<<<Numeral(id)>>>> \in Name
    <3>0. id \in Nat
      BY <1>1
    <3> HIDE DEF id
    <3>1. Numeral(id) \in Words \X Nat
      BY <3>0, PackageExportAssumption DEF Numeral
    <3> DEFINE t == Numeral(id)
    <3> HIDE DEF t
    <3>2. <<t>> \in Part
      BY <3>1, EmptySeq DEF Part, t
    <3> DEFINE u == <<t>>
    <3> HIDE DEF u
    <3>3. <<u>> \in Seq(Part) \ {<<>>}
      BY <3>2, EmptySeq DEF u
    <3> QED
      BY <3>3 DEF Name, Part, u, t
  <2> QED
    BY <2>1, <2>2 DEF BaseName
<1>3. IsFiniteSet(Range(names))
  <2>1. IsFiniteSet(DOMAIN names)
    BY <1>1, FS_Interval
  <2>2. names \in Surjection(DOMAIN names, Range(names))
    BY <1>0, <1>1 DEF Surjection, Range, NamesInv
  <2> QED
    BY <2>1, <2>2, FS_Surjection
<1>4. name \in Name /\ name \notin Range(names)
  BY <1>1, <1>2, <1>3, OutputNameIsNew
<1>5. \A i \in DOMAIN names : names[i] # name
  BY <1>4 DEF Range
<1> HIDE DEF name
<1>6. /\ names' \in Seq(Name) /\ Len(names') = id
      /\ \A i \in 1..Len(names) : names'[i] = names[i]
      /\ names'[id] = name
  BY <1>0, <1>4, AppendProperties DEF NamesInv
<1>7. DOMAIN names' = 1..id
  BY <1>6, LenProperties
<1>8. \A i, j \in DOMAIN names' : names'[i] = names'[j] => i = j
  BY <1>0, <1>1, <1>5, <1>6, <1>7 DEF NamesInv
<1>9. NamesInv'
  BY <1>0, <1>1, <1>6, <1>8 DEF NamesInv
<1> QED
  BY <1>0, <1>9 DEF PackInv, PackageIsComplete

(* When all items are loaded, no file has been written. *)
LEMMA ItemsLoadedInv ==
  ASSUME PackInv, ItemsLoaded
  PROVE  PackInv'
<1>0. /\ NamesInv /\ entries = {} /\ Len(names) = Len(keys) /\ packPc' = "write"
      /\ UNCHANGED <<format, keys, boxes, names, written, entries>>
  BY DEF PackInv, ItemsLoaded
<1>1. NamesInv'
  BY <1>0 DEF NamesInv
<1>2. ItemsWritten' = {} /\ entries' = {}
  BY <1>0 DEF ItemsWritten
<1>3. WritingInv'
  BY <1>2 DEF WritingInv, WrittenInOrder, EntriesOfItems, ImagesKept, LabelsKept
<1> QED
  BY <1>0, <1>1, <1>3 DEF PackInv, PackageIsComplete

(* The files of an item are about it and no other. *)
LEMMA FilesAreItsOwn ==
  ASSUME NEW id, NEW other
  PROVE  /\ FileOf(ImagePath(id), Image(id)) \in FilesOfItem(other) => id = other
         /\ \A g \in FilesOfItem(other) :
              \/ g = FileOf(ImagePath(other), Image(other))
              \/ format = "yolo" /\ g = FileOf(LabelPath(other), Lines(boxes[other]))
         /\ ImagePath(id) # LabelPath(other)
         /\ ImagePath(id) = ImagePath(other) <=> names[id] = names[other]
<1>1. \A g \in FilesOfItem(other) :
              \/ g = FileOf(ImagePath(other), Image(other))
              \/ format = "yolo" /\ g = FileOf(LabelPath(other), Lines(boxes[other]))
  BY DEF FilesOfItem
<1>2. /\ ImagePath(id) # LabelPath(other)
      /\ ImagePath(id) = ImagePath(other) <=> names[id] = names[other]
  BY DEF ImagePath, LabelPath
<1>3. \A p, q, b, c : FileOf(p, b) = FileOf(q, c) => p = q /\ b = c
  BY DEF FileOf
<1>4. Image(id) = Image(other) => id = other
  BY DEF Image
<1> QED
  BY <1>1, <1>2, <1>3, <1>4

(* Writing the next item adds its files and overwrites no image; a label file it overwrites   *)
(* is of an item before it.                                                                   *)
LEMMA WriteItemInv ==
  ASSUME PackInv, WriteItem
  PROVE  PackInv'
<1> DEFINE W == ItemsWritten
           left == DOMAIN names \ W
           n == Min(left)
           new == FilesOfItem(n)
<1>0. /\ NamesInv /\ packPc = "write" /\ Len(names) = Len(keys) /\ left # {}
      /\ WrittenInOrder /\ EntriesOfItems /\ ImagesKept /\ LabelsKept
      /\ written' = Over(written, new) /\ entries' = entries \union new
      /\ UNCHANGED <<packPc, format, keys, boxes, names>>
  BY DEF PackInv, WriteItem, WritingInv, Write
<1>1. DOMAIN names \subseteq Nat /\ W \subseteq DOMAIN names
  BY <1>0, LenProperties DEF NamesInv, ItemsWritten
<1>2. n \in DOMAIN names /\ n \notin W /\ \A i \in left : n <= i
  BY <1>0, <1>1, LeastIsLeast
<1>3. \A i \in W : i < n
  BY <1>0, <1>1, <1>2 DEF WrittenInOrder
<1> HIDE DEF n
<1>4. \A id : /\ ImagePath(id)' = ImagePath(id) /\ LabelPath(id)' = LabelPath(id)
              /\ FilesOfItem(id)' = FilesOfItem(id) /\ Lines(boxes[id])' = Lines(boxes[id])
  BY <1>0 DEF ImagePath, LabelPath, FilesOfItem, Lines
<1>5. FileOf(ImagePath(n), Image(n)) \in new
  BY DEF FilesOfItem
<1>6. ItemsWritten' = W \union {n}
  <2>1. \A id : FileOf(ImagePath(id), Image(id)) \in entries' <=>
                  FileOf(ImagePath(id), Image(id)) \in entries \/ id = n
    BY <1>0, <1>5, FilesAreItsOwn
  <2> QED
    BY <1>0, <1>2, <1>4, <2>1 DEF ItemsWritten
<1>7. WrittenInOrder'
  <2> SUFFICES ASSUME NEW j \in DOMAIN names, j < n PROVE j \in W
    BY <1>0, <1>6 DEF WrittenInOrder
  <2> QED
    BY <1>1, <1>2
<1>8. EntriesOfItems'
  BY <1>0, <1>4, <1>6 DEF EntriesOfItems
<1>9. \A f : f \in written' <=> (f \in written /\ \A g \in new : g.path # f.path) \/ f \in new
  BY <1>0 DEF Over
<1>10. \A p, b : FileOf(p, b).path = p
  BY DEF FileOf
<1>11. ImagesKept'
  <2> SUFFICES ASSUME NEW id \in W PROVE FileOf(ImagePath(id), Image(id)) \in written'
    BY <1>4, <1>5, <1>6, <1>9 DEF ImagesKept
  <2>1. names[id] # names[n]
    BY <1>0, <1>1, <1>2 DEF NamesInv
  <2>2. \A g \in new : g.path # ImagePath(id)
    BY <2>1, <1>10, FilesAreItsOwn
  <2> QED
    BY <1>0, <1>9, <1>10, <2>2 DEF ImagesKept
<1>12. LabelsKept'
  <2> SUFFICES ASSUME format = "yolo", NEW id \in W \union {n}
               PROVE  \/ FileOf(LabelPath(id), Lines(boxes[id])) \in written'
                      \/ \E other \in W \union {n} : other > id /\ LabelPath(other) = LabelPath(id)
    BY <1>0, <1>4, <1>6 DEF LabelsKept
  <2>1. CASE id = n
    BY <1>9, <2>1 DEF FilesOfItem
  <2>2. CASE id \in W /\ LabelPath(id) = LabelPath(n)
    BY <1>1, <1>2, <1>3, <2>2
  <2>3. CASE id \in W /\ LabelPath(id) # LabelPath(n)
    <3>1. \A g \in new : g.path # LabelPath(id)
      <4> SUFFICES ASSUME NEW g \in new PROVE g.path # LabelPath(id)
        OBVIOUS
      <4>1. g.path = ImagePath(n) \/ g.path = LabelPath(n)
        BY <1>10, FilesAreItsOwn
      <4>2. ImagePath(n) # LabelPath(id)
        BY FilesAreItsOwn
      <4> QED
        BY <2>3, <4>1, <4>2
    <3> QED
      BY <1>0, <1>9, <1>10, <2>3, <3>1 DEF LabelsKept
  <2> QED
    BY <2>1, <2>2, <2>3
<1>13. NamesInv'
  BY <1>0 DEF NamesInv
<1> QED
  BY <1>0, <1>7, <1>8, <1>11, <1>12, <1>13 DEF PackInv, PackageIsComplete, WritingInv

(* A build that cannot read an object ends without a package. *)
LEMMA ReadObjectFailsInv ==
  ASSUME PackInv, ReadObjectFails
  PROVE  PackInv'
<1>1. NamesInv'
  BY DEF PackInv, NamesInv, ReadObjectFails
<1> QED
  BY <1>1 DEF PackInv, PackageIsComplete, ReadObjectFails

(* Two items with one label file have names that differ in an extension. *)
LEMMA LabelShared ==
  ASSUME NamesInv, NEW id \in DOMAIN names, NEW other \in DOMAIN names, id # other,
         LabelPath(id) = LabelPath(other)
  PROVE  ShareLabels(id, other)
<1>1. names[id] \in Name /\ names[other] \in Name /\ names[id] # names[other]
  BY ElementOfSeq, LenProperties DEF NamesInv
<1>2. buildLabelFileName(names[id]) = buildLabelFileName(names[other])
  BY DEF LabelPath
<1> QED
  BY <1>1, <1>2, SameLabelSharesStem DEF ShareLabels

(* data.yaml or annotations.json is in no folder and overwrites nothing. *)
LEMMA WriteDocumentInv ==
  ASSUME PackInv, WriteDocument
  PROVE  PackInv'
<1>0. /\ NamesInv /\ packPc = "write" /\ packPc' = "packed" /\ Len(names) = Len(keys)
      /\ EntriesOfItems /\ ImagesKept /\ LabelsKept
      /\ written' = Over(written, {Document}) /\ entries' = entries \union {Document}
      /\ DOMAIN names = ItemsWritten
      /\ UNCHANGED <<format, keys, boxes, names>>
  BY DEF PackInv, WriteDocument, WritingInv, Write
<1>1. DOMAIN keys = DOMAIN names /\ DOMAIN names \subseteq Nat
  BY <1>0, LenProperties DEF NamesInv
<1>2. \A id : Document.path # ImagePath(id) /\ Document.path # LabelPath(id)
  BY DEF Document, FileOf, ImagePath, LabelPath
<1>3. \A p, b : FileOf(p, b).path = p /\ FileOf(p, b).body = b
  BY DEF FileOf
<1>4. \A id : /\ FileOf(ImagePath(id), Image(id)) \in written => FileOf(ImagePath(id), Image(id)) \in written'
              /\ FileOf(LabelPath(id), Lines(boxes[id])) \in written
                   => FileOf(LabelPath(id), Lines(boxes[id])) \in written'
  BY <1>0, <1>2, <1>3 DEF Over
<1>5. Document \in written'
  BY <1>0 DEF Over
<1>6. /\ \A id : /\ ImagePath(id)' = ImagePath(id) /\ LabelPath(id)' = LabelPath(id)
                 /\ Lines(boxes[id])' = Lines(boxes[id])
                 /\ \A other : ShareLabels(id, other)' = ShareLabels(id, other)
      /\ Listing' = Listing
  BY <1>0 DEF ImagePath, LabelPath, Lines, ShareLabels, Listing
<1>7. EveryImagePacked'
  BY <1>0, <1>1, <1>4, <1>6 DEF EveryImagePacked, ImagesKept
<1>8. ASSUME NEW id \in DOMAIN names, format = "yolo"
      PROVE  \/ FileOf(LabelPath(id), Lines(boxes[id])) \in written'
             \/ \E other \in DOMAIN names : other > id /\ LabelPath(other) = LabelPath(id) /\ ShareLabels(id, other)
  <2>1. CASE FileOf(LabelPath(id), Lines(boxes[id])) \in written
    BY <1>4, <2>1
  <2>2. CASE \E other \in DOMAIN names : other > id /\ LabelPath(other) = LabelPath(id)
    BY <1>0, <1>1, <2>2, LabelShared
  <2> QED
    BY <1>0, <1>8, <2>1, <2>2 DEF LabelsKept
<1>9. EveryBoxPacked'
  <2> SUFFICES ASSUME NEW id \in DOMAIN names
               PROVE  \/ \E f \in written' : f.path = LabelPath(id) /\ f.body = Lines(boxes[id])
                      \/ \E f \in written' : f.body = Listing
                      \/ \E other \in DOMAIN names : other > id /\ ShareLabels(id, other)
    BY <1>0, <1>1, <1>6 DEF EveryBoxPacked
  <2>1. CASE format = "yolo"
    BY <1>3, <1>8, <2>1
  <2>2. CASE format # "yolo"
    BY <1>3, <1>5, <2>2 DEF Document
  <2> QED
    BY <2>1, <2>2
<1>10. PackageVerifies'
  <2> SUFFICES ASSUME NEW f \in entries
               PROVE  \/ f \in written'
                      \/ \E id, other \in DOMAIN names :
                           id # other /\ LabelPath(id) = f.path /\ ShareLabels(id, other)
    BY <1>0, <1>1, <1>5, <1>6 DEF PackageVerifies
  <2>1. PICK id \in DOMAIN names : f \in FilesOfItem(id)
    BY <1>0 DEF EntriesOfItems
  <2>2. CASE f = FileOf(ImagePath(id), Image(id))
    BY <1>0, <1>4, <2>2 DEF ImagesKept
  <2>3. CASE format = "yolo" /\ f = FileOf(LabelPath(id), Lines(boxes[id]))
    BY <1>1, <1>3, <1>8, <2>3
  <2> QED
    BY <2>1, <2>2, <2>3, FilesAreItsOwn
<1>11. NamesInv'
  BY <1>0 DEF NamesInv
<1> QED
  BY <1>0, <1>7, <1>9, <1>10, <1>11 DEF PackInv, PackageIsComplete

-----------------------------------------------------------------------------
(* Build: for any object keys and boxes the package holds every image and every box, and its  *)
(* manifest entries are those of its files, but for label files of images whose names differ   *)
(* in their last extension only, or that are an extension and that with one more.             *)
THEOREM PackageComplete == PackSpec => []PackageIsComplete
<1>1. ASSUME PackInv, PackNext PROVE PackInv'
  BY <1>1, LoadInv, LoadItemsInv, ItemsLoadedInv, WriteItemInv, ReadObjectFailsInv, WriteDocumentInv
     DEF PackNext
<1>2. ASSUME PackInv, UNCHANGED packVars PROVE PackInv'
  <2>1. UNCHANGED <<packPc, format, keys, boxes, names, written, entries>>
    BY <1>2 DEF packVars
  <2>2. ItemsWritten' = ItemsWritten /\ Listing' = Listing
    BY <2>1 DEF ItemsWritten, ImagePath, Listing
  <2>3. NamesInv' = NamesInv /\ WrittenInOrder' = WrittenInOrder /\ ImagesKept' = ImagesKept
    BY <2>1, <2>2 DEF NamesInv, WrittenInOrder, ImagesKept, ImagePath
  <2>4. EntriesOfItems' = EntriesOfItems /\ LabelsKept' = LabelsKept
    BY <2>1, <2>2 DEF EntriesOfItems, LabelsKept, FilesOfItem, ImagePath, LabelPath
  <2>5. /\ EveryImagePacked' = EveryImagePacked /\ EveryBoxPacked' = EveryBoxPacked
        /\ PackageVerifies' = PackageVerifies
    BY <2>1, <2>2 DEF EveryImagePacked, EveryBoxPacked, PackageVerifies, ShareLabels, ImagePath, LabelPath
  <2> QED
    BY <1>2, <2>1, <2>3, <2>4, <2>5 DEF PackInv, PackageIsComplete, WritingInv
<1>3. PackInv /\ [PackNext]_packVars => PackInv'
  BY <1>1, <1>2
<1>4. PackInv => PackageIsComplete
  BY DEF PackInv
<1> QED
  BY <1>3, <1>4, PackIdleInv, PTL DEF PackSpec

=============================================================================
