--------------------------- MODULE OpenClawInstall ---------------------------
(***************************************************************************)
(* openclaw.install: the packaged guidance files replace the ones in the   *)
(* agents' directories, all or none.  A file is written under a temporary  *)
(* name, the old one is renamed to a backup, the new one is renamed to the *)
(* target; when every file is in place the backups are removed, and a      *)
(* failure before that point puts everything back.  Nothing of this is     *)
(* recorded but in the names themselves, so a later request that finds     *)
(* such a name refuses to touch anything.                                  *)
(*                                                                         *)
(* One service process runs the requests, one at a time under its lock,    *)
(* and is the only writer of the managed directories; each file is taken   *)
(* to have a directory of its own, which fsync settles alone.  The         *)
(* registry belongs to somebody else and may be edited at any moment.  The *)
(* checks of owner, mode and ancestors pass or raise as a whole.           *)
(***************************************************************************)
EXTENDS Naturals, FiniteSets

CONSTANTS
  NumFiles,          \* the managed resources, in the order of the manifest
  InstallRequests,   \* request ids
  MaxRegistryEdits,  \* edits of openclaw.json: an odd one breaks it, the next repairs it
  MaxInstallCrashes, \* ends of the process, with or without the power
  MaxInstallFaults   \* calls that raise

VARIABLES
  opc, ofile,        \* where install() is, and at which file
  asked,             \* the request it works on
  dirs,             \* dirs[f]: the entries of the file's directory
  kept,              \* kept[f]: what a power loss may leave of them
  had,               \* history: the files that held older bytes at first
  first,             \* first[f]: the entries when the request began
  mut,               \* mut[f]: the _Mutation of the file
  registry, seen,    \* the edits of openclaw.json, and the snapshot of the request
  completed,         \* completed[r]: the result and the target facts of a request
  told,              \* the last answer, with the request's outcome
  oused              \* the crashes and faults so far

openclawVars == <<opc, ofile, asked, dirs, kept, had, first, mut, registry, seen, completed, told, oused>>

Files == 1..NumFiles
Nobody == "nobody"
NoMutation == [stage |-> "NOT_ATTEMPTED", temporary_name |-> FALSE, temporary |-> FALSE,
               backup_name |-> FALSE, backup |-> FALSE, published |-> FALSE]
Untouched(t) == [target |-> t, tmp |-> "none", bak |-> "none"]
NoResult == [kind |-> "none", facts |-> [f \in Files |-> "none"]]
Targets == [f \in Files |-> dirs[f].target]

Init ==
  /\ opc = "idle" /\ ofile = 1 /\ asked = Nobody
  /\ \E t \in [Files -> {"none", "old", "new"}] :
       /\ dirs = [f \in Files |-> Untouched(t[f])] /\ kept = [f \in Files |-> {Untouched(t[f])}]
       /\ had = {f \in Files : t[f] = "old"}
  /\ first = dirs /\ mut = [f \in Files |-> NoMutation]
  /\ registry = 0 /\ seen = 0
  /\ completed = [r \in InstallRequests |-> NoResult] /\ told = "nothing"
  /\ oused = [crashes |-> 0, faults |-> 0]

Fault == oused.faults < MaxInstallFaults /\ oused' = [oused EXCEPT !.faults = @ + 1]
Directory(d) == /\ dirs' = [dirs EXCEPT ![ofile] = d]
                /\ kept' = [kept EXCEPT ![ofile] = @ \cup {d}]
Mutation(m) == mut' = [mut EXCEPT ![ofile] = m]
Synced == kept' = [kept EXCEPT ![ofile] = {dirs[ofile]}]

\* _inspect_registry, and _assert_registry_unchanged against the snapshot.
Matches == registry % 2 = 0
RegistryUnchanged == registry = seen

\* _reject_transaction_residue: a name of an earlier transaction is found.
Residue == \E f \in Files : dirs[f].tmp # "none" \/ dirs[f].bak # "none"

\* install() returns or raises; a result is remembered with the facts it was
\* verified against, an exception is not.
Answers(kind) == opc' = "answered" /\ told' = kind /\ UNCHANGED ofile
Raises(kind) == Answers(kind) /\ UNCHANGED completed
Returns(kind, facts) ==
  Answers(kind) /\ completed' = [completed EXCEPT ![asked] = [kind |-> kind, facts |-> facts]]
Goes(pc, f) == opc' = pc /\ ofile' = f /\ UNCHANGED told

-----------------------------------------------------------------------------
(***************************************************************************)
(* install and the first half of _install_locked: a request that was       *)
(* completed is answered from memory when what it found still holds, any   *)
(* other one reads the registry, the targets and the residue.              *)
(***************************************************************************)
\* Mutated form of the next definition: the facts of the result are not read again.
CachedSuccessUnread(r) == Matches /\ ~Residue

\* _validate_cached_success.
CachedSuccess(r) == Matches /\ ~Residue /\ Targets = completed[r].facts

Replay(r) ==
  /\ opc = "idle" /\ completed[r].kind # "none" /\ asked' = r
  /\ \/ CachedSuccess(r) /\ Raises(completed[r].kind) /\ UNCHANGED oused
     \/ Matches /\ Residue /\ Raises("partial") /\ UNCHANGED oused
     \/ ~(Matches /\ Residue) /\ ~CachedSuccess(r) /\ Raises("refused") /\ UNCHANGED oused
     \/ Fault /\ Raises("refused")
  /\ first' = dirs /\ UNCHANGED <<dirs, kept, had, mut, registry, seen>>

Begin(r) ==
  /\ opc = "idle" /\ completed[r].kind = "none" /\ asked' = r
  /\ first' = dirs /\ mut' = [f \in Files |-> NoMutation] /\ seen' = registry
  /\ \/ ~Matches /\ Raises("refused") /\ UNCHANGED oused
     \/ Matches /\ Residue /\ Raises("partial") /\ UNCHANGED oused
     \/ Fault /\ Raises("refused")
     \/ /\ Matches /\ ~Residue /\ UNCHANGED <<completed, oused>>
        /\ Goes(IF \A f \in Files : Targets[f] = "new" THEN "unchanged" ELSE "ready", 1)
  /\ UNCHANGED <<dirs, kept, had, registry>>

Unchanged ==
  /\ opc = "unchanged"
  /\ \/ RegistryUnchanged /\ Returns("success", Targets) /\ UNCHANGED oused
     \/ ~RegistryUnchanged /\ Raises("refused") /\ UNCHANGED oused
     \/ Fault /\ Raises("refused")
  /\ UNCHANGED <<asked, first, dirs, kept, had, mut, registry, seen>>

-----------------------------------------------------------------------------
(***************************************************************************)
(* _apply_one, for every file that differs.  What raises leaves the        *)
(* mutation as far as it got: a name is recorded before the file behind it *)
(* is frozen, and only a frozen file can be removed or renamed back.       *)
(***************************************************************************)
quiet == <<asked, first, completed, had, registry, seen>>
NextFile == IF ofile < NumFiles THEN Goes("create", ofile + 1) ELSE Goes("verify", 1)
Breaks == Fault /\ Goes("failed", ofile)
here == dirs[ofile]
this == mut[ofile]

StartApplying ==
  /\ opc = "ready" /\ UNCHANGED <<quiet, dirs, kept, mut>>
  /\ \/ RegistryUnchanged /\ Goes("create", 1) /\ UNCHANGED oused
     \/ ~RegistryUnchanged /\ Goes("failed", 1) /\ UNCHANGED oused
     \/ Breaks

CreateTemporary ==
  /\ opc = "create" /\ UNCHANGED quiet
  /\ \/ first[ofile].target = "new" /\ NextFile /\ UNCHANGED <<dirs, kept, mut, oused>>
     \/ /\ first[ofile].target # "new" /\ Directory([here EXCEPT !.tmp = "partial"])
        /\ Mutation([this EXCEPT !.stage = "TEMP_CREATING", !.temporary_name = TRUE])
        /\ Goes("write", ofile) /\ UNCHANGED oused
     \/ first[ofile].target # "new" /\ Breaks /\ UNCHANGED <<dirs, kept, mut>>

\* The bytes are written and flushed and the file is frozen; the finally clause
\* freezes what a failed write has left, unless that fails too.
WriteTemporary ==
  /\ opc = "write" /\ UNCHANGED quiet
  /\ \/ /\ Directory([here EXCEPT !.tmp = "whole"])
        /\ Mutation([this EXCEPT !.stage = "TEMP_READY", !.temporary = TRUE])
        /\ Goes(IF first[ofile].target = "none" THEN "publish" ELSE "backup", ofile) /\ UNCHANGED oused
     \/ /\ Breaks /\ UNCHANGED <<dirs, kept>>
        /\ \E frozen \in BOOLEAN : Mutation([this EXCEPT !.temporary = frozen])

MoveBackup ==
  /\ opc = "backup" /\ UNCHANGED quiet
  /\ \/ /\ Directory([here EXCEPT !.target = "none", !.bak = here.target])
        /\ Mutation([this EXCEPT !.backup_name = TRUE])
        /\ Goes("hold", ofile) /\ UNCHANGED oused
     \/ Breaks /\ UNCHANGED <<dirs, kept, mut>>

HoldBackup ==
  /\ opc = "hold" /\ UNCHANGED <<quiet, dirs>>
  /\ \/ /\ Mutation([this EXCEPT !.backup = TRUE, !.stage = "BACKUP_MOVED"])
        /\ \/ Synced /\ Goes("publish", ofile) /\ UNCHANGED oused
           \/ Breaks /\ UNCHANGED kept
     \/ Breaks /\ UNCHANGED <<kept, mut>>

Publish ==
  /\ opc = "publish" /\ UNCHANGED quiet
  /\ \/ /\ Directory([here EXCEPT !.target = "new", !.tmp = "none"])
        /\ Mutation([this EXCEPT !.temporary_name = FALSE])
        /\ Goes("confirm", ofile) /\ UNCHANGED oused
     \/ Breaks /\ UNCHANGED <<dirs, kept, mut>>

ConfirmPublished ==
  /\ opc = "confirm" /\ UNCHANGED <<quiet, dirs>>
  /\ \/ /\ Mutation([this EXCEPT !.published = TRUE, !.stage = "PUBLISHED"])
        /\ \/ Synced /\ NextFile /\ UNCHANGED oused
           \/ Breaks /\ UNCHANGED kept
     \/ Breaks /\ UNCHANGED <<kept, mut>>

\* The registry and every target are read once more; after this there is no way back.
VerifyAll ==
  /\ opc = "verify" /\ UNCHANGED <<quiet, dirs, kept, mut>>
  /\ \/ RegistryUnchanged /\ Goes("cleanup", 1) /\ UNCHANGED oused
     \/ ~RegistryUnchanged /\ Goes("failed", NumFiles) /\ UNCHANGED oused
     \/ Breaks

-----------------------------------------------------------------------------
(***************************************************************************)
(* The handler of every exception, _rollback in reverse order and _cleanup.*)
(***************************************************************************)
NothingStarted == \A f \in Files : mut[f].stage = "NOT_ATTEMPTED"

Failed ==
  /\ opc = "failed" /\ UNCHANGED <<asked, first, dirs, kept, had, mut, registry, seen, oused>>
  /\ \/ NothingStarted /\ Raises("refused")
     \/ ~NothingStarted /\ Goes("rollback", NumFiles) /\ UNCHANGED completed

Stuck == Raises("partial") /\ UNCHANGED <<asked, first, had, registry, seen>>
RolledBack(m) == IF m.stage = "NOT_ATTEMPTED" THEN m ELSE [m EXCEPT !.stage = "ROLLED_BACK"]
PreviousFile == IF ofile > 1 THEN Goes("rollback", ofile - 1) ELSE Goes("rollback_cleanup", 1)

\* A published file is removed before its backup can have the name again.
RollbackPublished ==
  /\ opc = "rollback" /\ this.published
  /\ \/ /\ Directory([here EXCEPT !.target = "none"]) /\ UNCHANGED mut
        /\ \/ Goes("rollback_sync", ofile) /\ UNCHANGED <<quiet, oused>>
           \/ Fault /\ Stuck
     \/ Fault /\ Stuck /\ UNCHANGED <<dirs, kept, mut>>

RollbackSync ==
  /\ opc = "rollback_sync" /\ Synced /\ UNCHANGED <<quiet, dirs, oused>>
  /\ Mutation([this EXCEPT !.published = FALSE]) /\ Goes("rollback", ofile)

\* The backup gets its name back, when both are what they should be; a file that
\* was not there must not be there.
RollbackRestore ==
  /\ opc = "rollback" /\ ~this.published
  /\ LET moved == first[ofile].target # "none" /\ this.backup_name
         appeared == first[ofile].target = "none" /\ here.target # "none"
     IN \/ /\ moved /\ this.backup /\ here.target = "none"
           /\ Directory([here EXCEPT !.target = here.bak, !.bak = "none"])
           /\ Mutation([this EXCEPT !.backup_name = FALSE])
           /\ \/ Goes("rollback_hold", ofile) /\ UNCHANGED <<quiet, oused>>
              \/ Fault /\ Stuck
        \/ /\ (moved /\ ~(this.backup /\ here.target = "none")) \/ appeared
           /\ Stuck /\ UNCHANGED <<dirs, kept, mut, oused>>
        \/ /\ ~moved /\ ~appeared /\ Mutation(RolledBack(this)) /\ PreviousFile
           /\ UNCHANGED <<quiet, dirs, kept, oused>>
        \/ (moved \/ first[ofile].target = "none") /\ Fault /\ Stuck /\ UNCHANGED <<dirs, kept, mut>>

RollbackHold ==
  /\ opc = "rollback_hold" /\ Synced /\ UNCHANGED <<quiet, dirs, oused>>
  /\ Mutation([RolledBack(this) EXCEPT !.backup = FALSE]) /\ PreviousFile

\* Whether the name that is left can be removed: the file behind it was frozen.
Removable == this.temporary_name => this.temporary

AfterCleanup ==
  IF ofile < NumFiles THEN Goes(opc, ofile + 1)
  ELSE Goes(IF opc = "cleanup" THEN "finish" ELSE "rollback_finish", 1)

\* _cleanup of one file: at most one of its two names is left by now.
Cleanup ==
  /\ opc \in {"cleanup", "rollback_cleanup"}
  /\ LET named == this.temporary_name \/ this.backup_name
     IN \/ ~named /\ AfterCleanup /\ UNCHANGED <<quiet, dirs, kept, mut, oused>>
        \/ /\ named /\ Removable
           /\ Mutation([this EXCEPT !.temporary_name = FALSE, !.temporary = FALSE,
                                    !.backup_name = FALSE, !.backup = FALSE])
           /\ dirs' = [dirs EXCEPT ![ofile] = Untouched(here.target)]
           /\ \/ /\ AfterCleanup /\ kept' = [kept EXCEPT ![ofile] = {Untouched(here.target)}]
                 /\ UNCHANGED <<quiet, oused>>
              \/ Fault /\ Stuck /\ kept' = [kept EXCEPT ![ofile] = @ \cup {Untouched(here.target)}]
        \/ named /\ ~Removable /\ Stuck /\ UNCHANGED <<dirs, kept, mut, oused>>
        \/ named /\ Fault /\ Stuck /\ UNCHANGED <<dirs, kept, mut>>

Finish ==
  /\ opc = "finish" /\ UNCHANGED <<asked, first, dirs, kept, had, mut, registry, seen>>
  /\ \/ RegistryUnchanged /\ Returns("success", Targets) /\ UNCHANGED oused
     \/ ~RegistryUnchanged /\ Raises("partial") /\ UNCHANGED oused
     \/ Fault /\ Raises("partial")

RollbackFinish ==
  /\ opc = "rollback_finish" /\ UNCHANGED <<asked, first, dirs, kept, had, mut, registry, seen>>
  /\ \/ Returns("rolled_back", Targets) /\ UNCHANGED oused
     \/ Fault /\ Raises("refused")

-----------------------------------------------------------------------------
\* The caller has the answer, and the locals of the call are gone.
Return ==
  /\ opc = "answered" /\ opc' = "idle" /\ ofile' = 1 /\ told' = "nothing" /\ asked' = Nobody
  /\ mut' = [f \in Files |-> NoMutation] /\ first' = dirs /\ seen' = 0
  /\ UNCHANGED <<completed, had, registry, dirs, kept, oused>>

EditRegistry == registry < MaxRegistryEdits /\ registry' = registry + 1
                /\ UNCHANGED <<opc, ofile, asked, dirs, kept, had, first, mut, seen, completed, told, oused>>

\* The process ends, alone or with the power; the next one remembers no request.
Crash ==
  /\ oused.crashes < MaxInstallCrashes /\ oused' = [oused EXCEPT !.crashes = @ + 1]
  /\ opc' = "idle" /\ ofile' = 1 /\ asked' = Nobody /\ told' = "nothing"
  /\ mut' = [f \in Files |-> NoMutation] /\ completed' = [r \in InstallRequests |-> NoResult]
  /\ \/ UNCHANGED <<dirs, kept>>
     \/ \E d \in [Files -> UNION {kept[f] : f \in Files}] :
          /\ \A f \in Files : d[f] \in kept[f]
          /\ dirs' = d /\ kept' = [f \in Files |-> {d[f]}]
  /\ first' = dirs' /\ seen' = 0 /\ UNCHANGED <<had, registry>>

Next ==
  \/ \E r \in InstallRequests : Replay(r) \/ Begin(r)
  \/ Unchanged \/ StartApplying \/ CreateTemporary \/ WriteTemporary \/ MoveBackup \/ HoldBackup
  \/ Publish \/ ConfirmPublished \/ VerifyAll \/ Failed
  \/ RollbackPublished \/ RollbackSync \/ RollbackRestore \/ RollbackHold
  \/ Cleanup \/ Finish \/ RollbackFinish \/ Return \/ EditRegistry \/ Crash

Spec == Init /\ [][Next]_openclawVars

TargetStates == {"none", "old", "new"}
Entries == [target : TargetStates, tmp : {"none", "partial", "whole"}, bak : {"none", "old"}]
Stages == {"NOT_ATTEMPTED", "TEMP_CREATING", "TEMP_READY", "BACKUP_MOVED", "PUBLISHED", "ROLLED_BACK"}
Mutations == [stage : Stages, temporary_name : BOOLEAN, temporary : BOOLEAN,
              backup_name : BOOLEAN, backup : BOOLEAN, published : BOOLEAN]

TypeOK ==
  /\ ofile \in Files /\ asked \in InstallRequests \cup {Nobody}
  /\ opc \in {"idle", "unchanged", "ready", "create", "write", "backup", "hold", "publish", "confirm",
              "verify", "failed", "rollback", "rollback_sync", "rollback_hold", "cleanup",
              "rollback_cleanup", "finish", "rollback_finish", "answered"}
  /\ told \in {"nothing", "success", "rolled_back", "refused", "partial"}
  /\ dirs \in [Files -> Entries] /\ kept \in [Files -> SUBSET Entries] /\ first \in [Files -> Entries]
  /\ \A f \in Files : dirs[f] \in kept[f]
  /\ had \subseteq Files /\ mut \in [Files -> Mutations]
  /\ completed \in [InstallRequests -> [kind : {"none", "success", "rolled_back"},
                                        facts : [Files -> TargetStates]]]
  /\ registry \in 0..MaxRegistryEdits /\ seen \in 0..MaxRegistryEdits
  /\ oused \in [crashes : 0..MaxInstallCrashes, faults : 0..MaxInstallFaults]

-----------------------------------------------------------------------------
\* What install() says is what is on the disk, whatever failed on the way: a success
\* is every packaged file without a leftover, and what the request changed is
\* durable; a rolled-back result and every exception but "recovery required" leave
\* the files as the request found them, and a result from memory is still true.
InstallHonest ==
  /\ told = "success" => /\ \A f \in Files : dirs[f] = Untouched("new")
                         /\ \A f \in Files : first[f].target # "new" => kept[f] = {dirs[f]}
  /\ told = "rolled_back" => ~Residue /\ Targets = completed[asked].facts
  /\ told \in {"rolled_back", "refused"} => dirs = first

\* The bytes of the files that were there are under their names or their backups',
\* whatever a crash or a power loss leaves, until every one of them is durably replaced.
OldBytesKept ==
  \/ \A f \in had : \A d \in kept[f] : d.target = "old" \/ d.bak = "old"
  \/ \A f \in had : \A d \in kept[f] : d.target = "new"

\* An openclaw.install is honest and loses nothing, and its state keeps its types.
InstallSafe == TypeOK /\ InstallHonest /\ OldBytesKept
=============================================================================
