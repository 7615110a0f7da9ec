--------------------------- MODULE ArtifactBuild ---------------------------
(***************************************************************************)
(* Artifact builds of the API server: internal/artifacts with the Postgres *)
(* rows, the build runner with its bounded queue, and the filesystem       *)
(* storage, as cmd/api-server/main.go wires them.                          *)
(*                                                                         *)
(* An archive lands in a directory named after the artifact's version, in  *)
(* a file named after its format.  Two artifacts of one version (another   *)
(* dataset, another format, a second request) share the directory and the  *)
(* temporary directory next to it.  A directory is the set of its archives *)
(* with the artifact each came from, and its own entry; a directory that   *)
(* does not exist is the empty set.  Package files and manifest are left   *)
(* out.                                                                    *)
(*                                                                         *)
(* Builders are the goroutines of the runner, completers the requests      *)
(* CompleteArtifact in flight; both store through StoreBuild.  A RemoveAll *)
(* and a copy are one step each: when two stores of one version overlap    *)
(* the code interleaves more finely, and the properties that hold promise  *)
(* nothing about the directories of such a version.                        *)
(***************************************************************************)
EXTENDS Naturals, Sequences

CONSTANTS Artifacts,     \* identifiers, positive numbers
          Version, Format,   \* of each artifact
          Builders,      \* goroutines of the runner
          Completers,    \* requests CompleteArtifact in flight
          QueueSize,     \* capacity of the runner's channel
          MaxFailures    \* bound on crashes and failing row updates together

ASSUME ArtifactAssumption ==
    /\ Artifacts \subseteq Nat \ {0}
    /\ Builders \cap Completers = {}
    /\ QueueSize \in Nat \ {0} /\ MaxFailures \in Nat

VARIABLES up,         \* the server is serving
          status,     \* per artifact: status of its row
          creating,   \* artifacts whose request has yet to enqueue them
          queue,      \* the runner's channel
          proc,       \* per builder and completer: next step, artifact
          temp,       \* per version: the temporary directory
          final,      \* per version: the directory archives are served from
          overlapped, \* history: versions that two processes stored at once
          crashes, failures

diskVars == <<temp, final, overlapped>>
vars == <<up, status, creating, queue, proc, temp, final, overlapped, crashes, failures>>

Procs == Builders \cup Completers
Versions == {Version[a] : a \in Artifacts}
Formats == {Format[a] : a \in Artifacts}

Dir == <<"dir", 0>>
Archive(a) == <<Format[a], a>>
File == ({"dir"} \cup Formats) \X (Artifacts \cup {0})

Idle == [pc |-> "idle", art |-> 0]

Init ==
    /\ up = TRUE
    /\ status = [a \in Artifacts |-> "absent"]
    /\ creating = {} /\ queue = <<>>
    /\ proc = [p \in Procs |-> Idle]
    /\ temp = [v \in Versions |-> {}] /\ final = [v \in Versions |-> {}]
    /\ overlapped = {} /\ crashes = 0 /\ failures = 0

At(p, pc) == up /\ proc[p].pc = pc
Art(p) == proc[p].art
Ver(p) == Version[Art(p)]
Goto(p, pc) == proc' = [proc EXCEPT ![p].pc = pc]
Done(p) == proc' = [proc EXCEPT ![p] = Idle]

-----------------------------------------------------------------------------
\* The request inserts the row and hands it to the runner, where it waits while the
\* channel is full.
CreatePackageJob(a) ==
    /\ up /\ status[a] = "absent"
    /\ status' = [status EXCEPT ![a] = "pending"]
    /\ creating' = creating \cup {a}
    /\ UNCHANGED <<up, queue, proc, diskVars, crashes, failures>>

HasRoom == Len(queue) < QueueSize

Enqueue(a) ==
    /\ up /\ a \in creating
    /\ HasRoom
    /\ queue' = Append(queue, a)
    /\ creating' = creating \ {a}
    /\ UNCHANGED <<up, status, proc, diskVars, crashes, failures>>

Receive(b) ==
    /\ At(b, "idle")
    /\ queue # <<>>
    /\ proc' = [proc EXCEPT ![b] = [pc |-> "start", art |-> Head(queue)]]
    /\ queue' = Tail(queue)
    /\ UNCHANGED <<up, status, creating, diskVars, crashes, failures>>

\* The row is marked building whatever its status is; then the snapshot is loaded and
\* packed in a directory of the builder's own, which may go wrong.
StartBuild(b) ==
    /\ At(b, "start")
    /\ status' = [status EXCEPT ![Art(b)] = "building"]
    /\ \E next \in {"check", "fail"} : Goto(b, next)
    /\ UNCHANGED <<up, creating, queue, diskVars, crashes, failures>>

\* CompleteArtifact goes on with what a worker sent unless the artifact is finished.
CompleteArtifact(c, a) ==
    /\ At(c, "idle")
    /\ status[a] \in {"pending", "building"}
    /\ proc' = [proc EXCEPT ![c] = [pc |-> "check", art |-> a]]
    /\ UNCHANGED <<up, status, creating, queue, diskVars, crashes, failures>>

-----------------------------------------------------------------------------
(* StoreBuild. *)
Storing == {"remove", "mkdir", "package", "archive", "manifest", "rename", "cleanup_ok", "cleanup_err"}

\* Another process is storing the version of p.
Shared(p) == \E q \in Procs \ {p} : proc[q].pc \in Storing /\ Ver(q) = Ver(p)

CheckVersionReuse(p) ==
    /\ At(p, "check")
    /\ Goto(p, IF final[Ver(p)] = {} THEN "remove" ELSE "ready")
    /\ UNCHANGED <<up, status, creating, queue, diskVars, crashes, failures>>

\* A version that has its directory is refused.
CheckVersion(p) ==
    /\ At(p, "check")
    /\ \/ /\ final[Ver(p)] = {}
          /\ Goto(p, "remove")
          /\ overlapped' = IF Shared(p) THEN overlapped \cup {Ver(p)} ELSE overlapped
       \/ /\ final[Ver(p)] # {}
          /\ Goto(p, "fail")
          /\ UNCHANGED overlapped
    /\ UNCHANGED <<up, status, creating, queue, temp, final, crashes, failures>>

\* os.RemoveAll, whose error nobody looks at: the directory may stay.
RemoveAll(p) == \E left \in {{}, temp[Ver(p)]} : temp' = [temp EXCEPT ![Ver(p)] = left]

RemoveTemp(p) ==
    /\ At(p, "remove")
    /\ RemoveAll(p)
    /\ Goto(p, "mkdir")
    /\ UNCHANGED <<up, status, creating, queue, final, overlapped, crashes, failures>>

MakeTemp(p) ==
    /\ At(p, "mkdir")
    /\ temp' = [temp EXCEPT ![Ver(p)] = @ \cup {Dir}]
    /\ Goto(p, "package")
    /\ UNCHANGED <<up, status, creating, queue, final, overlapped, crashes, failures>>

\* copyDirContents, and below copyFile: each makes the directory again if it is gone.
CopyPackage(p) ==
    /\ At(p, "package")
    /\ temp' = [temp EXCEPT ![Ver(p)] = @ \cup {Dir}]
    /\ Goto(p, "archive")
    /\ UNCHANGED <<up, status, creating, queue, final, overlapped, crashes, failures>>

\* A file of that name is replaced.
CopyArchive(p) ==
    /\ At(p, "archive")
    /\ temp' = [temp EXCEPT ![Ver(p)] =
                  {f \in @ : f[1] # Format[Art(p)]} \cup {Dir, Archive(Art(p))}]
    /\ Goto(p, "manifest")
    /\ UNCHANGED <<up, status, creating, queue, final, overlapped, crashes, failures>>

CopyManifest(p) ==
    /\ At(p, "manifest")
    /\ temp' = [temp EXCEPT ![Ver(p)] = @ \cup {Dir}]
    /\ Goto(p, "rename")
    /\ UNCHANGED <<up, status, creating, queue, final, overlapped, crashes, failures>>

\* The file an artifact's URI names: whose it is does not show in the name.
ArchiveIn(dir, a) == \E f \in dir : f[1] = Format[a]

\* os.Rename wants a source that exists and a target that does not; then the archive is
\* looked for.  What was renamed stays as it is.
Rename(p) ==
    /\ At(p, "rename")
    /\ \/ /\ temp[Ver(p)] # {} /\ final[Ver(p)] = {}
          /\ final' = [final EXCEPT ![Ver(p)] = temp[Ver(p)]]
          /\ temp' = [temp EXCEPT ![Ver(p)] = {}]
          /\ Goto(p, IF ArchiveIn(temp[Ver(p)], Art(p)) THEN "cleanup_ok" ELSE "cleanup_err")
       \/ /\ temp[Ver(p)] = {} \/ final[Ver(p)] # {}
          /\ Goto(p, "cleanup_err")
          /\ UNCHANGED <<temp, final>>
    /\ UNCHANGED <<up, status, creating, queue, overlapped, crashes, failures>>

\* An error of the file system, or the context of a stopping server; the deferred clean-up
\* is in place once the directory has been made.
StoreFails(p) ==
    /\ up
    /\ \/ proc[p].pc \in {"check", "mkdir"} /\ Goto(p, "fail")
       \/ proc[p].pc \in {"package", "archive", "manifest", "rename"} /\ Goto(p, "cleanup_err")
    /\ UNCHANGED <<up, status, creating, queue, diskVars, crashes, failures>>

\* The deferred RemoveAll, on success too.
Cleanup(p) ==
    /\ At(p, "cleanup_ok") \/ At(p, "cleanup_err")
    /\ RemoveAll(p)
    /\ Goto(p, IF proc[p].pc = "cleanup_ok" THEN "ready" ELSE "fail")
    /\ UNCHANGED <<up, status, creating, queue, final, overlapped, crashes, failures>>

-----------------------------------------------------------------------------
MarkReady(p) ==
    /\ At(p, "ready")
    /\ status' = [status EXCEPT ![Art(p)] = "ready"]
    /\ Done(p)
    /\ UNCHANGED <<up, creating, queue, diskVars, crashes, failures>>

FailureUnrecorded(p) == status

\* A builder records the failure; a completer only answers it.
FailureRecorded(p) == IF p \in Builders THEN [status EXCEPT ![Art(p)] = "failed"] ELSE status

failBuild(p) ==
    /\ At(p, "fail")
    /\ status' = FailureRecorded(p)
    /\ Done(p)
    /\ UNCHANGED <<up, creating, queue, diskVars, crashes, failures>>

\* The update of a row fails: whoever issued it gives up.
UpdateFails(p) ==
    /\ up /\ proc[p].pc \in {"start", "ready", "fail"}
    /\ crashes + failures < MaxFailures
    /\ failures' = failures + 1
    /\ Done(p)
    /\ UNCHANGED <<up, status, creating, queue, diskVars, crashes>>

\* The process ends: the channel and everybody's progress are gone, files and rows stay.
Crash ==
    /\ up /\ crashes + failures < MaxFailures
    /\ up' = FALSE
    /\ crashes' = crashes + 1
    /\ creating' = {} /\ queue' = <<>>
    /\ proc' = [p \in Procs |-> Idle]
    /\ UNCHANGED <<status, diskVars, failures>>

StaleBuilding == {"building"}

Stale == {"pending", "building"}

\* MarkStaleBuildsFailed comes before the runner and before any request.
Restart ==
    /\ ~up
    /\ up' = TRUE
    /\ status' = [a \in Artifacts |-> IF status[a] \in Stale THEN "failed" ELSE status[a]]
    /\ UNCHANGED <<creating, queue, proc, diskVars, crashes, failures>>

BuilderStep(b) == Receive(b) \/ StartBuild(b)

StoreStep(p) ==
    \/ CheckVersion(p) \/ RemoveTemp(p) \/ MakeTemp(p) \/ CopyPackage(p) \/ CopyArchive(p)
    \/ CopyManifest(p) \/ Rename(p) \/ StoreFails(p) \/ Cleanup(p)
    \/ MarkReady(p) \/ failBuild(p)

Next ==
    \/ \E a \in Artifacts : CreatePackageJob(a) \/ Enqueue(a)
    \/ \E b \in Builders : BuilderStep(b)
    \/ \E c \in Completers, a \in Artifacts : CompleteArtifact(c, a)
    \/ \E p \in Procs : StoreStep(p) \/ UpdateFails(p)
    \/ Crash \/ Restart

Spec == Init /\ [][Next]_vars

(* Goroutines run, a blocked send goes on when there is room, and a server that ended is  *)
(* started again.  Nothing makes requests come or statements fail.                        *)
Fairness ==
    /\ \A a \in Artifacts : WF_vars(Enqueue(a))
    /\ \A b \in Builders : WF_vars(BuilderStep(b) \/ StoreStep(b))
    /\ WF_vars(Restart)

FairSpec == Spec /\ Fairness

-----------------------------------------------------------------------------
Pcs == {"idle", "start", "check", "remove", "mkdir", "package", "archive",
        "manifest", "rename", "cleanup_ok", "cleanup_err", "ready", "fail"}

(* Every row, queue entry, builder and directory has a value the code can give it, and the *)
(* channel holds no more than its capacity.                                                *)
TypeOK ==
    /\ up \in BOOLEAN
    /\ status \in [Artifacts -> {"absent", "pending", "building", "ready", "failed"}]
    /\ creating \in SUBSET Artifacts
    /\ queue \in Seq(Artifacts) /\ Len(queue) <= QueueSize
    /\ proc \in [Procs -> [pc : Pcs, art : Artifacts \cup {0}]]
    /\ \A p \in Procs : proc[p].pc # "idle" => proc[p].art \in Artifacts
    /\ temp \in [Versions -> SUBSET File] /\ final \in [Versions -> SUBSET File]
    /\ overlapped \in SUBSET Versions
    /\ crashes \in Nat /\ failures \in Nat

(* Ready means promoted: the archive a ready row names was built for it and is in the      *)
(* directory it is served from, through crashes, leftovers of earlier attempts and further  *)
(* requests for the version, unless two processes stored the version at the same time.      *)
ReadyHoldsItsPackage ==
    \A a \in Artifacts :
        status[a] = "ready" /\ Version[a] \notin overlapped => Archive(a) \in final[Version[a]]

OnIt(a) ==
    \/ a \in creating
    \/ \E i \in 1 .. Len(queue) : queue[i] = a
    \/ \E b \in Builders : proc[b].pc # "idle" /\ proc[b].art = a

(* No build is forgotten: an artifact that is neither ready nor failed is on its way to    *)
(* the channel, in it, or with a builder, unless the server is down or an update of a row  *)
(* failed.  A queue lost in a crash is made up for at the start.                           *)
NoBuildForgotten ==
    \A a \in Artifacts :
        status[a] \in {"pending", "building"} => OnIt(a) \/ ~up \/ failures > 0

(* Every requested build comes to an end, with crashes, errors of the file system and a    *)
(* full channel, unless an update of a row failed.                                         *)
EveryBuildEnds ==
    \A a \in Artifacts :
        status[a] = "pending" ~> status[a] \in {"ready", "failed"} \/ failures > 0
=============================================================================
