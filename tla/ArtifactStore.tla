---------------------------- MODULE ArtifactStore ----------------------------
(***************************************************************************)
(* The files of one job: a worker's or an import's output is copied from   *)
(* its staging directory to a hidden one, flushed, renamed to its public   *)
(* attempt name and only then referenced by a committed row; job.json is   *)
(* replaced after every commit; and job.status exports what is referenced  *)
(* for the client.  The job thread and the event loop run side by side,    *)
(* and the process or the power may go between any two steps.              *)
(*                                                                         *)
(* A directory entry is what a reader sees now and the set of what may be  *)
(* found on the disk after a power loss; fsync of the directory settles it.*)
(* A file that was not flushed is torn by a power loss.  The database      *)
(* commits durably.  The checks of owner, mode, link and identity of every *)
(* entry pass or fail as a whole: nobody else writes these directories.    *)
(***************************************************************************)
EXTENDS Naturals, FiniteSets

CONSTANTS
  Input,          \* the attempt of the staged input, input-<request>
  WorkerAttempts, \* the fresh attempt identities of the workers
  MaxStoreCrashes,\* ends of the process, with or without the power
  MaxStoreFaults  \* calls that raise

VARIABLES
  jpc, cur,       \* the job thread and its attempt
  stage,          \* stage[a]: the staging directory of the attempt
  begun,          \* worker attempts that have been used
  claim,          \* the admission of the input: claimed, or admitted with the job
  refs,           \* the attempts that committed rows refer to
  jobdir,         \* the job's directory: none, made, durable
  bundle,         \* bundle[a]: the entry artifacts/<attempt>
  doc,            \* the entry job.json, with the references it shows
  xpc, xcur,      \* the event loop in job.status and the attempt it exports
  exportdir,      \* the job's export directory
  export,         \* export[a]: the entry of the exported file
  published,      \* history: exports that a job.status has answered with
  unsynced,       \* history: directories whose sync failed or never came
  sused           \* the crashes and faults so far

Attempts == {Input} \cup WorkerAttempts
NoAttempt == "no_attempt"

jobThread == <<jpc, cur, stage, begun>>
database == <<claim, refs>>
jobFiles == <<jobdir, bundle, doc>>
exporter == <<xpc, xcur, exportdir, export, published>>
storeVars == <<jobThread, database, jobFiles, exporter, unsynced, sused>>

Entry(v) == [now |-> v, disk |-> {v}]
Set(e, v) == [now |-> v, disk |-> e.disk \cup {v}]
Synced(e) == Entry(e.now)

\* What a power loss leaves of a file.
Torn(v) == IF v = "unflushed" THEN "torn" ELSE v
AfterLoss(e) == {Entry(Torn(v)) : v \in e.disk}
Readable(e) == e.now \in {"whole", "unflushed"}
NoDoc == [shows |-> {}, at |-> "none"]

Init ==
  /\ jpc = "down" /\ cur = NoAttempt /\ begun = {}
  /\ stage = [a \in Attempts |-> "none"]
  /\ claim = "claimed" /\ refs = {}
  /\ jobdir = "none" /\ bundle = [a \in Attempts |-> Entry("none")] /\ doc = Entry(NoDoc)
  /\ xpc = "idle" /\ xcur = NoAttempt /\ exportdir = "none"
  /\ export = [a \in WorkerAttempts |-> Entry("none")] /\ published = {}
  /\ unsynced = {} /\ sused = [crashes |-> 0, faults |-> 0]

Fault == sused.faults < MaxStoreFaults /\ sused' = [sused EXCEPT !.faults = @ + 1]
Staging(s) == stage' = [stage EXCEPT ![cur] = s]
JobGoes(pc) == jpc' = pc /\ UNCHANGED <<cur, begun>>
JobRests == jpc' = "idle" /\ cur' = NoAttempt /\ UNCHANGED begun

\* What a failing call leaves in the staging directory: the finally clause of
\* _execute removes a worker's, an import's stays.
Left(a) == IF a = Input THEN stage[a] ELSE "none"

-----------------------------------------------------------------------------
(***************************************************************************)
(* discard_promoted_bundle: an input bundle without a job is detached from *)
(* its name and removed, when the commit is abandoned and at every start.  *)
(***************************************************************************)
Start ==
  /\ jpc = "down" /\ bundle[Input].now # "torn"
  /\ jpc' = IF claim = "claimed" /\ Readable(bundle[Input]) THEN "revoke" ELSE "idle"
  /\ UNCHANGED <<cur, stage, begun, database, jobFiles, exporter, unsynced, sused>>

RevokeDetaches ==
  /\ jpc = "revoke"
  /\ bundle' = [bundle EXCEPT ![Input] = Set(@, "none")]
  /\ JobGoes("detached")
  /\ UNCHANGED <<stage, database, jobdir, doc, exporter, unsynced, sused>>

RevokeSyncs ==
  /\ jpc = "detached"
  /\ bundle' = [bundle EXCEPT ![Input] = Synced(@)]
  /\ JobRests
  /\ UNCHANGED <<stage, database, jobdir, doc, exporter, unsynced, sused>>

\* A start that cannot revoke fails; a command answers with the error.
RevokeFails ==
  /\ jpc \in {"revoke", "detached"} /\ Fault
  /\ IF cur = NoAttempt THEN JobGoes("down") ELSE JobRests
  /\ UNCHANGED <<stage, database, jobFiles, exporter, unsynced>>

-----------------------------------------------------------------------------
(***************************************************************************)
(* The staging directory of an attempt.                                    *)
(***************************************************************************)
\* _import_or_recover_staged: a bundle found under the input's name is taken as
\* it is; a staging directory left by a crash refuses the import for good
\* (ARTIFACT_STAGING_COLLISION).
ImportRecovers ==
  /\ jpc = "idle" /\ claim = "claimed" /\ Readable(bundle[Input])
  /\ jpc' = "recommit" /\ cur' = Input
  /\ UNCHANGED <<stage, begun, database, jobFiles, exporter, unsynced, sused>>

ImportStages ==
  /\ jpc = "idle" /\ claim = "claimed" /\ bundle[Input].now = "none" /\ stage[Input] = "none"
  /\ jpc' = "prepare" /\ cur' = Input
  /\ stage' = [stage EXCEPT ![Input] = "good"]
  /\ UNCHANGED <<begun, database, jobFiles, exporter, unsynced, sused>>

CreateStaging(a) ==
  /\ jpc = "idle" /\ claim = "admitted" /\ a \notin begun
  /\ jpc' = "work" /\ cur' = a /\ begun' = begun \cup {a}
  /\ stage' = [stage EXCEPT ![a] = "made"]
  /\ UNCHANGED <<database, jobFiles, exporter, unsynced, sused>>

\* The worker's files are what its manifest declares, or they are not.
WorkerEnds ==
  /\ jpc = "work"
  /\ \E s \in {"good", "bad"} : Staging(s)
  /\ JobGoes("prepare")
  /\ UNCHANGED <<database, jobFiles, exporter, unsynced, sused>>

\* The worker failed, its outcome is stale, or its roles are not the required
\* ones: _execute returns without a bundle, and its finally clause cleans up.
WorkerFails ==
  /\ jpc = "work" /\ Staging("none") /\ JobRests
  /\ UNCHANGED <<database, jobFiles, exporter, unsynced, sused>>

-----------------------------------------------------------------------------
(***************************************************************************)
(* validate_and_promote.                                                   *)
(***************************************************************************)
\* The staging directory holds what the manifest declares, and nothing else.
Declared(a) == stage[a] = "good"

\* validate_manifests, copy_declared_tree and validate_prepared_tree refuse
\* what differs from the manifest: the copy and the staging directory go.
PromoteRefuses ==
  /\ jpc \in {"prepare", "copied"}
  /\ IF Declared(cur) THEN Fault ELSE UNCHANGED sused
  /\ Staging("none") /\ JobRests
  /\ UNCHANGED <<database, jobFiles, exporter, unsynced>>

\* ensure_directory_at: only the call that makes the directory syncs its parent.
PromoteMakesDirectory ==
  /\ jpc = "prepare" /\ jobdir = "none"
  /\ jobdir' = "made" /\ JobGoes("mkdir")
  /\ UNCHANGED <<stage, database, bundle, doc, exporter, unsynced, sused>>

\* A directory cannot be made, opened or synced: an import's staging directory
\* stays, and a directory that was made is not synced by a later call.
PromoteFails ==
  /\ jpc \in {"prepare", "mkdir"} /\ Fault
  /\ unsynced' = unsynced \cup (IF jpc = "mkdir" THEN {"job"} ELSE {})
  /\ Staging(Left(cur)) /\ JobRests
  /\ UNCHANGED <<database, jobFiles, exporter>>

PromoteSyncsDirectory ==
  /\ jpc = "mkdir"
  /\ jobdir' = "durable" /\ JobGoes("prepare")
  /\ UNCHANGED <<stage, database, bundle, doc, exporter, unsynced, sused>>

\* copy_regular_file reads the copy back and flushes it.
CopiedFile == "whole"

\* copy_declared_tree, validate_prepared_tree, and fsync of files and directories.
PromoteCopies ==
  /\ jpc = "prepare" /\ jobdir # "none" /\ Declared(cur) /\ bundle[cur].now = "none"
  /\ JobGoes("copied")
  /\ UNCHANGED <<stage, database, jobFiles, exporter, unsynced, sused>>

\* rename_noreplace gives the flushed copy its public name.
PromoteRenames ==
  /\ jpc = "copied"
  /\ bundle' = [bundle EXCEPT ![cur] = Set(@, CopiedFile)]
  /\ JobGoes("renamed")
  /\ UNCHANGED <<stage, database, jobdir, doc, exporter, unsynced, sused>>

\* A rename that raises leaves the hidden copy behind, and an import's staging.
RenameFails ==
  /\ jpc = "copied" /\ Fault
  /\ Staging(Left(cur)) /\ JobRests
  /\ UNCHANGED <<database, jobFiles, exporter, unsynced>>

\* Mutated form of the next definition: the directory is not synced.
PromoteSkipsSync ==
  /\ jpc = "renamed"
  /\ JobGoes("verify")
  /\ UNCHANGED <<stage, database, jobFiles, exporter, unsynced, sused>>

PromoteSyncs ==
  /\ jpc = "renamed"
  /\ bundle' = [bundle EXCEPT ![cur] = Synced(@)]
  /\ JobGoes("verify")
  /\ UNCHANGED <<stage, database, jobdir, doc, exporter, unsynced, sused>>

\* The published tree is validated again and the staging directory removed.
PromoteEnds ==
  /\ jpc = "verify"
  /\ Staging("none") /\ JobGoes("commit")
  /\ UNCHANGED <<database, jobFiles, exporter, unsynced, sused>>

\* Anything that raises after the rename leaves the bundle under its name; where
\* it was the sync itself, the next import finds the bundle and does not sync.
VerifyFails ==
  /\ jpc \in {"renamed", "verify"} /\ Fault
  /\ unsynced' = unsynced \cup (IF jpc = "renamed" THEN {"job"} ELSE {})
  /\ Staging(Left(cur)) /\ JobRests
  /\ UNCHANGED <<database, jobFiles, exporter>>

-----------------------------------------------------------------------------
(***************************************************************************)
(* The row that refers to the bundle, and job.json.                        *)
(***************************************************************************)
Commit ==
  /\ jpc \in {"commit", "recommit"}
  /\ refs' = refs \cup {cur}
  /\ claim' = IF cur = Input THEN "admitted" ELSE claim
  /\ JobGoes("project")
  /\ UNCHANGED <<stage, jobFiles, exporter, unsynced, sused>>

\* The transaction raises, or commit_allowed has become false: the bundle this
\* call imported is revoked; one it found, or a worker's, stays unreferenced.
CommitFails ==
  /\ jpc \in {"commit", "recommit"} /\ Fault
  /\ IF jpc = "commit" /\ cur = Input THEN JobGoes("revoke") ELSE JobRests
  /\ UNCHANGED <<stage, database, jobFiles, exporter, unsynced>>

\* _write_projection_bytes: a flushed temporary file replaces job.json, then the
\* directory is synced. Temporary files of earlier calls are removed first.
ProjectionReplaces ==
  /\ jpc = "project" /\ jobdir # "none"
  /\ doc' = Set(doc, [shows |-> refs, at |-> "whole"])
  /\ JobGoes("docsync")
  /\ UNCHANGED <<stage, database, jobdir, bundle, exporter, unsynced, sused>>

ProjectionSyncs ==
  /\ jpc = "docsync"
  /\ doc' = Synced(doc)
  /\ JobRests
  /\ UNCHANGED <<stage, database, jobdir, bundle, exporter, unsynced, sused>>

ProjectionFails ==
  /\ jpc \in {"project", "docsync"} /\ Fault
  /\ JobRests
  /\ UNCHANGED <<stage, database, jobFiles, exporter, unsynced>>

-----------------------------------------------------------------------------
(***************************************************************************)
(* publish_artifacts, called by job.status for the artifacts of the row.   *)
(***************************************************************************)
ExportGoes(pc) == xpc' = pc /\ UNCHANGED xcur
ExportRests == xpc' = "idle" /\ xcur' = NoAttempt

\* _validate_existing_export_at: an export of one link and the right bytes
\* is answered with.
StatusAnswers(a) ==
  /\ jpc # "down" /\ xpc = "idle" /\ a \in refs /\ export[a].now = "whole"
  /\ published' = published \cup {a}
  /\ UNCHANGED <<jobThread, database, jobFiles, xpc, xcur, exportdir, export, unsynced, sused>>

\* A missing one is made from the bundle. (One of two links is refused for good
\* as a collision.)
StatusExports(a) ==
  /\ jpc # "down" /\ xpc = "idle" /\ a \in refs /\ export[a].now = "none" /\ Readable(bundle[a])
  /\ xpc' = "open" /\ xcur' = a
  /\ UNCHANGED <<jobThread, database, jobFiles, exportdir, export, published, unsynced, sused>>

ExportMakesDirectory ==
  /\ xpc = "open" /\ exportdir = "none"
  /\ exportdir' = "made" /\ ExportGoes("mkdir")
  /\ UNCHANGED <<jobThread, database, jobFiles, export, published, unsynced, sused>>

ExportSyncsDirectory ==
  /\ xpc = "mkdir"
  /\ exportdir' = "durable" /\ ExportGoes("open")
  /\ UNCHANGED <<jobThread, database, jobFiles, export, published, unsynced, sused>>

\* The temporary file has been written and flushed: it gets its second name.
ExportLinks ==
  /\ xpc = "open" /\ exportdir # "none"
  /\ export' = [export EXCEPT ![xcur] = Set(@, "linked")]
  /\ ExportGoes("unlink")
  /\ UNCHANGED <<jobThread, database, jobFiles, exportdir, published, unsynced, sused>>

\* _remove_export_temporary
ExportUnlinks ==
  /\ xpc = "unlink"
  /\ export' = [export EXCEPT ![xcur] = Set(@, "whole")]
  /\ ExportGoes("sync")
  /\ UNCHANGED <<jobThread, database, jobFiles, exportdir, published, unsynced, sused>>

ExportSyncs ==
  /\ xpc = "sync"
  /\ export' = [export EXCEPT ![xcur] = Synced(@)]
  /\ published' = published \cup {xcur}
  /\ ExportRests
  /\ UNCHANGED <<jobThread, database, jobFiles, exportdir, unsynced, sused>>

\* An export that ends between the link and the sync is not synced by the next.
ExportBreaks == unsynced \cup (IF xpc \in {"mkdir", "sync"} THEN {"export"} ELSE {})

\* Before the link, the temporary file goes; after it, what raises is the removal
\* or the sync; and the directory may be made and not synced.
ExportFails ==
  /\ xpc \in {"open", "mkdir", "unlink", "sync"} /\ Fault
  /\ unsynced' = ExportBreaks
  /\ ExportRests
  /\ UNCHANGED <<jobThread, database, jobFiles, exportdir, export, published>>

-----------------------------------------------------------------------------
(***************************************************************************)
(* The end of the process, and of the power.                               *)
(***************************************************************************)
Ends ==
  /\ jpc # "down" /\ sused.crashes < MaxStoreCrashes
  /\ sused' = [sused EXCEPT !.crashes = @ + 1]
  /\ jpc' = "down" /\ cur' = NoAttempt /\ ExportRests

Breaks == ExportBreaks \cup (IF jpc = "mkdir" THEN {"job"} ELSE {})

Crash ==
  /\ Ends /\ unsynced' = Breaks
  /\ UNCHANGED <<stage, begun, database, jobFiles, exportdir, export, published>>

Survives(dir) == IF dir = "made" THEN {"none", "durable"} ELSE {dir}
\* What each entry of a directory may be after the loss, independently.
Losses(entries) == {f \in [DOMAIN entries -> UNION {AfterLoss(entries[a]) : a \in DOMAIN entries}] :
                      \A a \in DOMAIN entries : f[a] \in AfterLoss(entries[a])}

PowerLoss ==
  /\ Ends
  /\ jobdir' \in Survives(jobdir) /\ exportdir' \in Survives(exportdir)
  /\ IF jobdir' = "none"
     THEN bundle' = [a \in Attempts |-> Entry("none")] /\ doc' = Entry(NoDoc)
     ELSE bundle' \in Losses(bundle) /\ doc' \in {Entry(d) : d \in doc.disk}
  /\ export' \in IF exportdir' = "none" THEN {[a \in WorkerAttempts |-> Entry("none")]} ELSE Losses(export)
  /\ UNCHANGED <<stage, begun, database, published, unsynced>>

-----------------------------------------------------------------------------
JobThread ==
  \/ Start \/ RevokeDetaches \/ RevokeSyncs \/ RevokeFails
  \/ ImportRecovers \/ ImportStages \/ WorkerEnds \/ WorkerFails
  \/ PromoteRefuses \/ PromoteFails \/ PromoteMakesDirectory \/ PromoteSyncsDirectory \/ PromoteCopies
  \/ PromoteRenames \/ RenameFails \/ PromoteSyncs \/ PromoteEnds \/ VerifyFails
  \/ Commit \/ CommitFails \/ ProjectionReplaces \/ ProjectionSyncs \/ ProjectionFails
  \/ \E a \in WorkerAttempts : CreateStaging(a)

EventLoop ==
  \/ ExportMakesDirectory \/ ExportSyncsDirectory \/ ExportLinks \/ ExportUnlinks \/ ExportSyncs
  \/ ExportFails \/ \E a \in WorkerAttempts : StatusAnswers(a) \/ StatusExports(a)

Next == JobThread \/ EventLoop \/ Crash \/ PowerLoss

Spec == Init /\ [][Next]_storeVars

-----------------------------------------------------------------------------
EntryOf(S) == [now : S, disk : SUBSET S]
FileStates == {"none", "linked", "whole", "unflushed", "torn"}
Documents == [shows : SUBSET Attempts, at : {"none", "whole", "torn"}]

TypeOK ==
  /\ jpc \in {"down", "idle", "revoke", "detached", "work", "prepare", "mkdir", "copied", "renamed",
              "verify", "commit", "recommit", "project", "docsync"}
  /\ xpc \in {"idle", "open", "mkdir", "unlink", "sync"}
  /\ cur \in Attempts \cup {NoAttempt} /\ xcur \in WorkerAttempts \cup {NoAttempt}
  /\ stage \in [Attempts -> {"none", "made", "good", "bad"}]
  /\ begun \subseteq WorkerAttempts /\ refs \subseteq Attempts /\ published \subseteq WorkerAttempts
  /\ claim \in {"claimed", "admitted"} /\ {jobdir, exportdir} \subseteq {"none", "made", "durable"}
  /\ bundle \in [Attempts -> EntryOf(FileStates)] /\ export \in [WorkerAttempts -> EntryOf(FileStates)]
  /\ doc \in EntryOf(Documents) /\ unsynced \subseteq {"job", "export"}
  /\ \A a \in Attempts : bundle[a].now \in bundle[a].disk
  /\ \A a \in WorkerAttempts : export[a].now \in export[a].disk
  /\ doc.now \in doc.disk
  /\ sused \in [crashes : 0..MaxStoreCrashes, faults : 0..MaxStoreFaults]

\* Every bundle a committed row refers to is under its name, whole, and will be
\* after a power loss: it is renamed and its directory synced before the commit,
\* and no revocation, of an abandoned commit or of a start, takes it. The
\* exception is a directory whose fsync failed or never came: a call or process
\* that ends between mkdir and fsync, or an import whose fsync raises after the
\* rename, leaves it to the next one, which does not sync it.
ReferencedWhole == "job" \in unsynced \/ \A a \in refs : bundle[a] = Entry("whole")

\* No public name, of a bundle, of job.json or of an export, ever shows half a
\* file, and job.json shows no reference that is not in the database.
NamesWhole ==
  /\ \A a \in Attempts : bundle[a].now # "torn"
  /\ \A a \in WorkerAttempts : export[a].now # "torn"
  /\ doc.now.at # "torn" /\ doc.now.shows \subseteq refs

\* An export that a job.status answered with stays, whole and readable with one
\* link, also after a power loss. The exception is again a directory that was not
\* synced: the call or process ended between mkdir, or the removal of the second
\* name, and fsync, and the next job.status answers with what it finds.
ExportKept == "export" \in unsynced \/ \A a \in published : export[a] = Entry("whole")

\* The artifact store keeps its promises to the database, to readers and to clients:
\* a fsync that failed or never came is the one exception, for what it covered.
StoreSafe == ReferencedWhole /\ NamesWhole /\ ExportKept
===============================================================================
