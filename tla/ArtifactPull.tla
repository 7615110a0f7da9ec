----------------------------- MODULE ArtifactPull -----------------------------
(***************************************************************************)
(* platform-cli pull: internal/cli, and the endpoints of internal/artifacts *)
(* it talks to.  A pull resolves an artifact, downloads its archive to a   *)
(* temporary file, extracts it, verifies the files against the manifest    *)
(* that came with them and writes a report.                                *)
(*                                                                         *)
(* Temporary file, directory and report stay between commands.  The first  *)
(* two are named after the version only, so artifacts of two datasets or   *)
(* formats share them, and a killed command leaves them as they are.       *)
(* Commands in one output directory run one after the other.               *)
(*                                                                         *)
(* An archive is a sequence of blocks: its files in the order of their     *)
(* paths, and the end mark of the tar.  What a checksum tells apart is     *)
(* whose file it is and whether it is damaged.  An empty temporary file is *)
(* the same as none.                                                       *)
(***************************************************************************)
EXTENDS Naturals, Sequences, FiniteSets

CONSTANTS
  Served,      \* the artifacts that can be pulled
  SnapshotVersions,  \* versions of snapshots
  VersionOf,   \* the version of an artifact
  FilesOf,     \* how many files an artifact's archive has
  ManifestAt,  \* the place of manifest.json among them
  PathOf,      \* the path of each of them
  Ranged,      \* the artifacts whose server supports byte ranges
  Workers,     \* goroutines that verify
  Damaged,     \* whose a file is that was decoded from a garbled archive
  MaxPulls,    \* bound: commands
  MaxKills     \* bound: commands that are killed

ASSUME ArtifactPullAssumption ==
  /\ VersionOf \in [Served -> SnapshotVersions]
  /\ FilesOf \in [Served -> Nat]
  /\ ManifestAt \in [Served -> Nat]
  /\ \A a \in Served :
       /\ ManifestAt[a] \in 1..FilesOf[a]
       /\ \A i, j \in 1..FilesOf[a] : PathOf[a][i] = PathOf[a][j] => i = j
       /\ \A b \in Served : PathOf[a][ManifestAt[a]] = PathOf[b][ManifestAt[b]]
  /\ Ranged \subseteq Served
  /\ Damaged \notin Served
  /\ MaxPulls \in Nat
  /\ MaxKills \in Nat

VARIABLES
  ready,    \* the artifacts that resolve
  part,     \* pull-<version>.tar.gz.part of every version
  dir,      \* pulled-<version> of every version, as a set of files
  report,   \* verify-report.json, as a set of at most one report
  pull,     \* the command that runs
  held,     \* the manifest entry a worker verifies, 0 for none
  results,  \* what the workers found, as pairs of entry and status
  pulls,    \* how many commands were started
  kills,    \* how many of them were killed
  last,     \* history: how the last command ended, a set of at most one record
  replaced  \* history: versions whose directory was removed after the report on it

pullVars == <<ready, part, dir, report, pull, held, results, pulls, kills, last, replaced>>

files == <<part, dir, report>>

verification == <<held, results>>

Block == [of: Served, at: Nat]

PulledFile == [of: Served \union {Damaged}, at: Nat]

(***************************************************************************)
(* What a command was told, what has happened to it, and (the last two)    *)
(* what it has taken over from earlier ones.                               *)
(***************************************************************************)
Flags == {"partial", "signalled", "late", "hung", "foreign", "unremoved"}

\* The ones that do not matter once it has ended.
Passing == {"signalled", "late", "hung"}

NoPull == [pc |-> "idle"]

Command == [pc: {"resolve", "wait", "request", "copy", "remove", "extract", "manifest", "verify", "report"},
            artifact: Served, flags: SUBSET Flags, at: Nat]

Result == Nat \X {"passed", "failed"}

Report == [artifact: Served, version: SnapshotVersions, total: Nat, files: SUBSET Result]

Ended == [artifact: Served, flags: SUBSET Flags, outcome: {"ok", "error", "killed"}]

PullTypeOK ==
  /\ ready \subseteq Served
  /\ part \in [SnapshotVersions -> Seq(Block)]
  /\ dir \in [SnapshotVersions -> SUBSET PulledFile]
  /\ report \subseteq Report
  /\ pull \in Command \union {NoPull}
  /\ held \in [Workers -> Nat]
  /\ results \subseteq Result
  /\ pulls \in Nat
  /\ kills \in Nat
  /\ last \subseteq Ended
  /\ replaced \subseteq SnapshotVersions

PullInit ==
  /\ ready = {}
  /\ part = [v \in SnapshotVersions |-> <<>>]
  /\ dir = [v \in SnapshotVersions |-> {}]
  /\ report = {}
  /\ pull = NoPull
  /\ held = [w \in Workers |-> 0]
  /\ results = {}
  /\ pulls = 0
  /\ kills = 0
  /\ last = {}
  /\ replaced = {}

-----------------------------------------------------------------------------
IsAt(pc) == pull.pc = pc

GoesTo(pc) == pull' = [pull EXCEPT !.pc = pc]

version == VersionOf[pull.artifact]

Size(a) == FilesOf[a] + 1

BlockOf(a, i) == [of |-> a, at |-> i]

FilesIn(a) == {BlockOf(a, i) : i \in 1..FilesOf[a]}

Entries(a) == (1..FilesOf[a]) \ {ManifestAt[a]}

(***************************************************************************)
(* Every return removes the temporary file, which a deferred call does     *)
(* from the time the artifact has been resolved.  With the command its     *)
(* workers are gone.                                                       *)
(***************************************************************************)
RemovedPart == [part EXCEPT ![version] = <<>>]

NoneVerified ==
  /\ held' = [w \in Workers |-> 0]
  /\ results' = {}

Return(outcome) ==
  /\ pull' = NoPull
  /\ NoneVerified
  /\ last' = {[artifact |-> pull.artifact, flags |-> pull.flags \ Passing, outcome |-> outcome]}
  /\ UNCHANGED <<ready, pulls, kills>>

Fails ==
  /\ Return("error")
  /\ part' = IF pull.pc \in {"resolve", "wait"} THEN part ELSE RemovedPart
  /\ UNCHANGED <<dir, report, replaced>>

(***************************************************************************)
(* resolveArtifact asks the server; while it answers 404, it waits for the *)
(* poll interval, the time limit or a signal, and asks again.  The request *)
(* itself has no time limit and no context: when the server does not       *)
(* answer it, neither the limit nor a signal ends it.                      *)
(***************************************************************************)
Start(a, flags) ==
  /\ IsAt("idle")
  /\ pulls < MaxPulls
  /\ pulls' = pulls + 1
  /\ pull' = [pc |-> "resolve", artifact |-> a, flags |-> flags, at |-> 0]
  /\ UNCHANGED <<ready, files, verification, kills, last, replaced>>

BecomesReady(a) ==
  /\ a \notin ready
  /\ ready' = ready \union {a}
  /\ UNCHANGED <<files, pull, verification, pulls, kills, last, replaced>>

Answered == "hung" \notin pull.flags

ResolveArtifact ==
  /\ IsAt("resolve")
  /\ Answered
  /\ pull.artifact \in ready
  /\ pull' = [pull EXCEPT !.pc = "request", !.flags = @ \ {"late"}]
  /\ UNCHANGED <<ready, files, verification, pulls, kills, last, replaced>>

ArtifactUnavailable ==
  /\ IsAt("resolve")
  /\ Answered
  /\ pull.artifact \notin ready
  /\ GoesTo("wait")
  /\ UNCHANGED <<ready, files, verification, pulls, kills, last, replaced>>

ResolveFails ==
  /\ IsAt("resolve")
  /\ Fails

PollAgain ==
  /\ IsAt("wait")
  /\ GoesTo("resolve")
  /\ UNCHANGED <<ready, files, verification, pulls, kills, last, replaced>>

WaitEnds ==
  /\ IsAt("wait")
  /\ pull.flags \intersect {"late", "signalled"} # {}
  /\ Fails

LimitPasses ==
  /\ pull.pc \in {"resolve", "wait"}
  /\ "late" \notin pull.flags
  /\ pull' = [pull EXCEPT !.flags = @ \union {"late"}]
  /\ UNCHANGED <<ready, files, verification, pulls, kills, last, replaced>>

(***************************************************************************)
(* downloadArchiveToTemp resumes at the end of the file it finds.  The     *)
(* server answers with the rest, with the whole if it cannot do that or,   *)
(* when there is no rest, with 416; then the file is emptied and the       *)
(* request made again.                                                     *)
(***************************************************************************)
ServeContent(a, offset) ==
  IF offset = 0 \/ a \notin Ranged THEN 200
  ELSE IF offset < Size(a) THEN 206 ELSE 416

KeptUnsatisfiable(status, found) == IF status = 200 THEN <<>> ELSE found

Kept(status, found) == IF status = 206 THEN found ELSE <<>>

IsPrefixOf(found, a) == \A i \in DOMAIN found : found[i] = BlockOf(a, i)

Marked(found) == IF IsPrefixOf(found, pull.artifact) THEN {} ELSE {"foreign"}

downloadArchiveToTemp ==
  LET found == part[version]
      status == ServeContent(pull.artifact, Len(found))
  IN /\ IsAt("request")
     /\ Answered
     /\ "signalled" \notin pull.flags
     /\ part' = [part EXCEPT ![version] = Kept(status, found)]
     /\ pull' = [pull EXCEPT !.pc = IF status = 416 THEN "request" ELSE "copy",
                             !.flags = @ \union (IF status = 206 THEN Marked(found) ELSE {})]
     /\ UNCHANGED <<ready, dir, report, verification, pulls, kills, last, replaced>>

Copy ==
  LET found == part[version]
  IN /\ IsAt("copy")
     /\ Answered
     /\ IF Len(found) < Size(pull.artifact)
        THEN /\ part' = [part EXCEPT ![version] = Append(@, BlockOf(pull.artifact, Len(@) + 1))]
             /\ pull' = pull
        ELSE /\ part' = part
             /\ GoesTo("remove")
     /\ UNCHANGED <<ready, dir, report, verification, pulls, kills, last, replaced>>

DownloadFails ==
  /\ pull.pc \in {"request", "copy"}
  /\ "signalled" \notin pull.flags
  /\ Fails

DownloadCancelled ==
  /\ pull.pc \in {"request", "copy"}
  /\ "signalled" \in pull.flags
  /\ Fails

(***************************************************************************)
(* The old directory goes, or part of it, since the error of RemoveAll is  *)
(* ignored; and extractTarGz writes file after file until the end mark,    *)
(* each over the one at its path.  From the first block of another archive *)
(* on the stream is garbled: the decoder reports it, or writes a damaged   *)
(* file, at a path that is not known.                                      *)
(***************************************************************************)
KeepsOldFiles(present) == present

Emptied(present) == {}

RemoveArtifactDir ==
  /\ IsAt("remove")
  /\ dir' = [dir EXCEPT ![version] = Emptied(@)]
  /\ pull' = [pull EXCEPT !.pc = "extract", !.at = 1]
  /\ replaced' = replaced \union {version}
  /\ UNCHANGED <<ready, part, report, verification, pulls, kills, last>>

RemoveAllFails ==
  /\ IsAt("remove")
  /\ \E left \in SUBSET dir[version] :
       /\ left # {}
       /\ dir' = [dir EXCEPT ![version] = left]
  /\ pull' = [pull EXCEPT !.pc = "extract", !.at = 1, !.flags = @ \union {"unremoved"}]
  /\ replaced' = replaced \union {version}
  /\ UNCHANGED <<ready, part, report, verification, pulls, kills, last>>

Intact(archive, i) ==
  \A j \in 1..i : archive[j] = BlockOf(archive[1].of, j)

IsEnd(block) == block.at = Size(block.of)

SamePath(f, g) == PathOf[f.of][f.at] = PathOf[g.of][g.at]

IsOverwritten(f, gone, present) ==
  /\ gone \subseteq present
  /\ Cardinality(gone) <= 1
  /\ \A g \in present : f.of # Damaged /\ g.of # Damaged => (g \in gone <=> SamePath(f, g))

extractTarGz ==
  LET archive == part[version]
      i == pull.at
      f == IF Intact(archive, i) THEN archive[i] ELSE BlockOf(Damaged, i)
  IN /\ IsAt("extract")
     /\ i \in DOMAIN archive
     /\ IF IsEnd(archive[i])
        THEN GoesTo("manifest") /\ dir' = dir
        ELSE /\ \E gone \in SUBSET dir[version] :
                  /\ IsOverwritten(f, gone, dir[version])
                  /\ dir' = [dir EXCEPT ![version] = (@ \ gone) \union {f}]
             /\ pull' = [pull EXCEPT !.at = i + 1]
     /\ UNCHANGED <<ready, part, report, verification, pulls, kills, last, replaced>>

ExtractFails ==
  /\ IsAt("extract")
  /\ Fails

(***************************************************************************)
(* loadManifest, and verifyManifestEntries with its workers.  The manifest *)
(* in the directory says what is to be there, whoever's it is.             *)
(***************************************************************************)
Manifests == {a \in Served : BlockOf(a, ManifestAt[a]) \in dir[version]}

loadManifest ==
  /\ IsAt("manifest")
  /\ IF Manifests = {} THEN Fails
     ELSE /\ GoesTo("verify")
          /\ NoneVerified
          /\ UNCHANGED <<ready, files, pulls, kills, last, replaced>>

manifest == CHOOSE a \in Manifests : TRUE

Taken == {held[w] : w \in Workers} \union {r[1] : r \in results}

TakeEntry(w) ==
  /\ IsAt("verify")
  /\ held[w] = 0
  /\ \E i \in Entries(manifest) \ Taken :
       /\ \A j \in Entries(manifest) \ Taken : i <= j
       /\ held' = [held EXCEPT ![w] = i]
  /\ UNCHANGED <<ready, files, pull, results, pulls, kills, last, replaced>>

SizeOnly(i) == \E f \in dir[version] : f.at = i

VerifyManifestEntry(i) == BlockOf(manifest, i) \in dir[version]

VerifyEntry(w) ==
  LET passed == "signalled" \notin pull.flags /\ VerifyManifestEntry(held[w])
  IN /\ IsAt("verify")
     /\ held[w] # 0
     /\ results' = results \union {<<held[w], IF passed THEN "passed" ELSE "failed">>}
     /\ held' = [held EXCEPT ![w] = 0]
     /\ UNCHANGED <<ready, files, pull, pulls, kills, last, replaced>>

OutcomesClosed ==
  /\ IsAt("verify")
  /\ {r[1] : r \in results} = Entries(manifest)
  /\ GoesTo("report")
  /\ UNCHANGED <<ready, files, verification, pulls, kills, last, replaced>>

(***************************************************************************)
(* The report is written whatever the workers found; the pull is an error  *)
(* when a file failed, unless that was allowed.                            *)
(***************************************************************************)
VerifyError == \E r \in results : r[2] = "failed"

Outcome == IF VerifyError /\ "partial" \notin pull.flags THEN "error" ELSE "ok"

writeVerifyReport ==
  /\ IsAt("report")
  /\ report' = {[artifact |-> pull.artifact, version |-> version,
                 total |-> Cardinality(Entries(manifest)), files |-> results]}
  /\ Return(Outcome)
  /\ part' = RemovedPart
  /\ replaced' = replaced \ {version}
  /\ UNCHANGED dir

writeVerifyReportFails ==
  /\ IsAt("report")
  /\ Fails

-----------------------------------------------------------------------------
(***************************************************************************)
(* An interrupt cancels the context; a kill ends the process where it is.  *)
(* A server may stop answering the request it has.                         *)
(***************************************************************************)
Signal ==
  /\ ~IsAt("idle")
  /\ pull' = [pull EXCEPT !.flags = @ \union {"signalled"}]
  /\ UNCHANGED <<ready, files, verification, pulls, kills, last, replaced>>

ServerHangs ==
  /\ pull.pc \in {"resolve", "request", "copy"}
  /\ pull' = [pull EXCEPT !.flags = @ \union {"hung"}]
  /\ UNCHANGED <<ready, files, verification, pulls, kills, last, replaced>>

Kill ==
  /\ ~IsAt("idle")
  /\ kills < MaxKills
  /\ kills' = kills + 1
  /\ pull' = NoPull
  /\ NoneVerified
  /\ last' = {[artifact |-> pull.artifact, flags |-> pull.flags \ Passing, outcome |-> "killed"]}
  /\ UNCHANGED <<ready, files, pulls, replaced>>

Step ==
  \/ ResolveArtifact
  \/ ArtifactUnavailable
  \/ PollAgain
  \/ downloadArchiveToTemp
  \/ Copy
  \/ DownloadCancelled
  \/ RemoveArtifactDir
  \/ extractTarGz
  \/ loadManifest
  \/ \E w \in Workers : TakeEntry(w) \/ VerifyEntry(w)
  \/ OutcomesClosed
  \/ writeVerifyReport

Failure ==
  \/ ResolveFails
  \/ RemoveAllFails
  \/ ServerHangs
  \/ DownloadFails
  \/ ExtractFails
  \/ writeVerifyReportFails
  \/ Signal
  \/ Kill

PullNext ==
  \/ \E a \in Served :
       \/ \E flags \in SUBSET {"partial"} : Start(a, flags)
       \/ BecomesReady(a)
  \/ Step
  \/ WaitEnds
  \/ LimitPasses
  \/ Failure

PullSpec == PullInit /\ [][PullNext]_pullVars

(***************************************************************************)
(* A command that is not killed takes its next step, if that does not wait *)
(* for a server that hangs, and no failure is needed to get on.  Time      *)
(* passes.  Every wait looks at the limit and at the signal: once they are *)
(* over, each of its rounds may end the command, and one does.             *)
(***************************************************************************)
FairPullSpec ==
  /\ PullSpec
  /\ WF_pullVars(Step)
  /\ WF_pullVars(LimitPasses)
  /\ SF_pullVars(WaitEnds)

-----------------------------------------------------------------------------
(***************************************************************************)
(* Pull, downloadArchiveToTemp: after a command that ended well and was    *)
(* not told to allow failures the directory holds all files of one         *)
(* archive, and the report says of each that it was verified, whatever     *)
(* earlier commands were killed, interrupted or failed. It is the artifact *)
(* that was asked for, and nothing an earlier command extracted is among   *)
(* it, unless the download resumed the file which a killed pull of another *)
(* artifact of the version had left: nothing ties the file to its          *)
(* artifact, and a complete one is taken as it is. Where the old directory *)
(* could not be removed, files of it may be there besides.                 *)
(***************************************************************************)
PulledIsVerified ==
  \A l \in last :
    IsAt("idle") /\ l.outcome = "ok" /\ "partial" \notin l.flags =>
      \E a \in Served :
        /\ FilesIn(a) \subseteq dir[VersionOf[l.artifact]]
        /\ \A r \in report : r.files = Entries(a) \X {"passed"}
        /\ "foreign" \notin l.flags => a = l.artifact
        /\ l.flags \intersect {"foreign", "unremoved"} = {} => dir[VersionOf[a]] = FilesIn(a)

(***************************************************************************)
(* writeVerifyReport, verifyManifestEntries: the report has one result for *)
(* every file of a manifest, and those it calls passed are in the          *)
(* directory undamaged until a later command replaces the directory.       *)
(***************************************************************************)
ReportIsTrue ==
  \A r \in report :
    /\ Cardinality(r.files) = r.total
    /\ r.version \notin replaced =>
         \E a \in Served :
           /\ {x[1] : x \in r.files} = Entries(a)
           /\ \A x \in r.files : x[2] = "passed" => BlockOf(a, x[1]) \in dir[r.version]

(***************************************************************************)
(* Pull: a command ends, also when the artifact never becomes ready, when  *)
(* the range it asks for does not exist, or when it is interrupted; unless *)
(* the server leaves a request without an answer. An interrupt then ends a *)
(* download, but not the request that resolves the artifact, and the time  *)
(* limit ends neither.                                                     *)
(***************************************************************************)
LeftWaiting == ~Answered /\ (IsAt("resolve") \/ "signalled" \notin pull.flags)

EveryPullEnds == ~IsAt("idle") ~> (IsAt("idle") \/ LeftWaiting)
=============================================================================
