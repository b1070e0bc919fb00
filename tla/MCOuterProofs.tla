---------------------------- MODULE MCOuterProofs ----------------------------
(***************************************************************************)
(* The safety of OpenClawInstall, the module that MCOuter extends, proved  *)
(* for any number of managed files, any set of requests and any number of  *)
(* crashes, power losses, faults and edits of the registry; and that it    *)
(* holds in the composition.                                               *)
(*                                                                         *)
(* The invariant follows the call through the files: behind it everything  *)
(* is in place, ahead of it nothing has been touched, and at the file it   *)
(* works on the directory and the _Mutation say the same.  After a failure *)
(* only the last part is known of every file (Coherent), and the rollback, *)
(* walking back, leaves each file restored.  The old bytes are either all  *)
(* of them still there, under their name or their backup's, or all of them *)
(* replaced for good: which of the two is decided before the first backup  *)
(* is removed.                                                             *)
(***************************************************************************)
EXTENDS MCOuter, TLAPS

\* The packaged manifest is not empty.
Bounds ==
  /\ NumFiles \in Nat \ {0}
  /\ MaxRegistryEdits \in Nat /\ MaxInstallCrashes \in Nat /\ MaxInstallFaults \in Nat

Was(f) == first[f].target

\* The names the mutation records are those that are in the directory.
Named(f) ==
  /\ mut[f].temporary_name <=> dirs[f].tmp # "none"
  /\ mut[f].backup_name <=> dirs[f].bak # "none"

\* Nothing has been done to the file.
Idle(f) ==
  /\ dirs[f] = first[f]
  /\ mut[f].stage = "NOT_ATTEMPTED" /\ ~mut[f].temporary_name /\ ~mut[f].backup_name /\ ~mut[f].published

\* The file is under way, with these entries in its directory.
At(f, target, tmp, bak) ==
  /\ Was(f) # "new" /\ mut[f].stage # "NOT_ATTEMPTED" /\ Named(f)
  /\ dirs[f].target = target /\ dirs[f].tmp = tmp /\ dirs[f].bak = bak

\* The new file has its name, durably; an old one is under the backup's.
InPlace(f) ==
  IF Was(f) = "new" THEN Idle(f)
  ELSE At(f, "new", "none", Was(f)) /\ mut[f].published /\ kept[f] = {dirs[f]}

\* What is known of a file wherever the call has failed.
Coherent(f) ==
  /\ mut[f].stage = "NOT_ATTEMPTED" \/ Was(f) = "new" => Idle(f)
  /\ Was(f) # "new" =>
       /\ Named(f) /\ dirs[f].bak \in {"none", Was(f)}
       /\ mut[f].published => dirs[f].target = "new"
       /\ IF dirs[f].target = "new" THEN dirs[f].tmp = "none" /\ dirs[f].bak = Was(f)
          ELSE dirs[f].bak = "none" => dirs[f].target = Was(f)

\* The file is back under its name; a temporary name may be left.
Restored(f) ==
  /\ dirs[f].target = Was(f) /\ dirs[f].bak = "none" /\ Named(f) /\ ~mut[f].published
  /\ Was(f) = "new" => dirs[f] = first[f]

\* The new file is all there is, durably if the request put it there.
Final(f) == dirs[f] = Untouched("new") /\ (Was(f) # "new" => kept[f] = {dirs[f]})

Applying == {"create", "write", "backup", "hold", "publish", "confirm"}
RollingBack == {"rollback", "rollback_sync", "rollback_hold"}

\* The file the call is at.
AtFile(f) ==
  /\ opc = "create" => Idle(f)
  /\ opc = "write" => At(f, Was(f), "partial", "none") /\ ~mut[f].published
  /\ opc = "backup" => At(f, "old", "whole", "none") /\ Was(f) = "old" /\ ~mut[f].published
  /\ opc = "hold" => At(f, "none", "whole", "old") /\ Was(f) = "old" /\ ~mut[f].published
  /\ opc = "publish" => At(f, "none", "whole", Was(f)) /\ ~mut[f].published
  /\ opc = "confirm" => At(f, "new", "none", Was(f)) /\ ~mut[f].published
  /\ opc = "rollback" => Coherent(f)
  /\ opc = "rollback_sync" => At(f, "none", "none", Was(f))
  /\ opc = "rollback_hold" => Was(f) # "new" /\ mut[f].stage # "NOT_ATTEMPTED" /\ Restored(f)

\* A file behind it, a file ahead of it, and every file where it makes no difference.
Behind(f) ==
  /\ opc \in Applying => InPlace(f)
  /\ opc \in RollingBack => Coherent(f)

Ahead(f) ==
  /\ opc \in Applying => Idle(f)
  /\ opc \in RollingBack => Restored(f)

Anywhere(f) ==
  /\ opc \in {"ready", "unchanged"} => Idle(f)
  /\ opc = "unchanged" => Was(f) = "new"
  /\ opc = "verify" => InPlace(f)
  /\ opc = "failed" => Coherent(f)
  /\ opc = "finish" => Final(f)
  /\ opc = "rollback_finish" => dirs[f] = first[f]
  /\ opc = "cleanup" => IF f < ofile THEN Final(f) ELSE InPlace(f)
  /\ opc = "rollback_cleanup" => IF f < ofile THEN dirs[f] = first[f] ELSE Restored(f)

FileInv(f) ==
  /\ f = ofile => AtFile(f)
  /\ f < ofile => Behind(f)
  /\ f > ofile => Ahead(f)
  /\ Anywhere(f)

FilesInv == \A f \in Files : FileInv(f)

\* The call that runs, and the targets it found without residue.
CallAt ==
  /\ opc # "idle" => asked \in InstallRequests
  /\ opc # "answered" => told = "nothing"
  /\ opc \notin {"idle", "answered"} => \A f \in Files : first[f] = Untouched(Was(f))

\* A remembered success found every packaged file.
ResultsTrue == \A r \in InstallRequests : completed[r].kind = "success" =>
                 \A f \in Files : completed[r].facts[f] = "new"

OldHeld == \A f \in had : \A d \in kept[f] : d.target = "old" \/ d.bak = "old"
OldReplaced == \A f \in had : \A d \in kept[f] : d.target = "new"

\* Which of the two it is depends on what the request found, until no way leads back.
OldFiles ==
  /\ OldHeld \/ OldReplaced
  /\ opc \in {"cleanup", "finish"} => OldReplaced
  /\ opc \notin {"idle", "answered", "cleanup", "finish"} =>
       \/ OldHeld /\ \A f \in had : Was(f) = "old"
       \/ OldReplaced /\ \A f \in had : Was(f) = "new"

InstallInv == CallAt /\ FilesInv /\ ResultsTrue /\ OldFiles /\ InstallHonest

-----------------------------------------------------------------------------
(***************************************************************************)
(* One file.                                                               *)
(***************************************************************************)
DirsTyped ==
  /\ dirs \in [Files -> Entries] /\ kept \in [Files -> SUBSET Entries]
  /\ \A f \in Files : dirs[f] \in kept[f]

MutTyped == mut \in [Files -> Mutations]

CallTyped ==
  /\ ofile \in Files /\ asked \in InstallRequests \cup {Nobody}
  /\ opc \in {"idle", "unchanged", "ready", "create", "write", "backup", "hold", "publish", "confirm",
              "verify", "failed", "rollback", "rollback_sync", "rollback_hold", "cleanup",
              "rollback_cleanup", "finish", "rollback_finish", "answered"}
  /\ told \in {"nothing", "success", "rolled_back", "refused", "partial"}
  /\ first \in [Files -> Entries] /\ had \subseteq Files
  /\ completed \in [InstallRequests -> [kind : {"none", "success", "rolled_back"},
                                        facts : [Files -> TargetStates]]]
  /\ registry \in 0..MaxRegistryEdits /\ seen \in 0..MaxRegistryEdits
  /\ oused \in [crashes : 0..MaxInstallCrashes, faults : 0..MaxInstallFaults]

LEMMA TypeParts == (CallTyped' /\ DirsTyped' /\ MutTyped') => TypeOK'
BY DEF TypeOK, CallTyped, DirsTyped, MutTyped

\* What writing to a directory, syncing it and recording it do to their file.
LEMMA DirectoryFacts ==
  ASSUME TypeOK, NEW f \in Files, f = ofile, NEW d \in Entries, Directory(d)
  PROVE  DirsTyped' /\ dirs'[f] = d /\ kept'[f] = kept[f] \cup {d}
BY DEF TypeOK, Directory, DirsTyped

LEMMA SyncedFacts ==
  ASSUME TypeOK, NEW f \in Files, f = ofile, Synced, UNCHANGED dirs
  PROVE  DirsTyped' /\ dirs'[f] = dirs[f] /\ kept'[f] = {dirs[f]}
BY DEF TypeOK, Synced, DirsTyped

LEMMA MutationFacts ==
  ASSUME TypeOK, NEW f \in Files, f = ofile, NEW m \in Mutations, Mutation(m)
  PROVE  MutTyped' /\ mut'[f] = m
BY DEF TypeOK, Mutation, MutTyped

\* A step that does nothing to a file leaves what is known of it.
Same(f) == dirs'[f] = dirs[f] /\ kept'[f] = kept[f] /\ first'[f] = first[f] /\ mut'[f] = mut[f]

LEMMA FileFrame ==
  ASSUME NEW f \in Files, Same(f)
  PROVE  /\ Was(f)' = Was(f) /\ (Idle(f) => Idle(f)') /\ (InPlace(f) => InPlace(f)')
         /\ (Coherent(f) => Coherent(f)') /\ (Restored(f) => Restored(f)') /\ (Final(f) => Final(f)')
BY DEF Same, Was, Idle, InPlace, Coherent, Restored, Final, At, Named

\* An untouched file and one in place are what a failure may find.
LEMMA FileOrder ==
  ASSUME TypeOK, NEW f \in Files, first[f] = Untouched(Was(f))
  PROVE  /\ Idle(f) => Coherent(f) /\ Restored(f)
         /\ InPlace(f) => Coherent(f)
BY DEF TypeOK, Entries, TargetStates, Untouched, Idle, InPlace, Coherent, Restored, At, Named, Was

\* What a step adds to the entries that a power loss may leave: nothing where the
\* new file was found, and the old bytes where they were.
KeepsOld(f) ==
  \A d \in kept'[f] :
    d \in kept[f] \/ (Was(f) # "new" /\ (Was(f) = "old" => d.target = "old" \/ d.bak = "old"))

FileStep(f) == DirsTyped' /\ MutTyped' /\ FileInv(f)' /\ KeepsOld(f)

LEMMA OldFilesStep ==
  ASSUME TypeOK, InstallInv, UNCHANGED <<had, first>>, \A f \in Files : KeepsOld(f),
         opc \notin {"idle", "answered", "cleanup", "finish"}, opc' \notin {"cleanup", "finish"}
  PROVE  OldFiles'
<1>1. CASE OldHeld /\ \A f \in had : Was(f) = "old"
  <2>1. OldHeld' /\ \A f \in had' : Was(f)' = "old"
    BY <1>1 DEF OldHeld, KeepsOld, Was, TypeOK
  <2> QED
    BY <2>1 DEF OldFiles
<1>2. CASE OldReplaced /\ \A f \in had : Was(f) = "new"
  <2>1. OldReplaced' /\ \A f \in had' : Was(f)' = "new"
    BY <1>2 DEF OldReplaced, KeepsOld, Was, TypeOK
  <2> QED
    BY <2>1 DEF OldFiles
<1> QED
  BY <1>1, <1>2 DEF InstallInv, OldFiles

LEMMA CreateTemporaryFile ==
  ASSUME Bounds, TypeOK, InstallInv, CreateTemporary, NEW f \in Files, f = ofile
  PROVE  FileStep(f)
<1>a. /\ here = dirs[f] /\ here \in Entries /\ this = mut[f] /\ this \in Mutations
      /\ first[f] \in Entries /\ UNCHANGED first
  BY DEF TypeOK, CreateTemporary, here, this, quiet
<1>0. /\ first[f] = Untouched(Was(f))
      /\ Idle(f)
  BY <1>a DEF InstallInv, CallAt, FilesInv, FileInv, AtFile, CreateTemporary
<1>1. CASE first[ofile].target = "new" /\ NextFile /\ UNCHANGED <<dirs, kept, mut, oused>>
  <2>1. Same(f)
    BY <1>a, <1>1 DEF Same, CreateTemporary
  <2>2. DirsTyped' /\ MutTyped'
    BY <1>1 DEF DirsTyped, MutTyped, TypeOK, CreateTemporary
  <2>3. Was(f) = "new" /\ InPlace(f)
    BY <1>0, <1>1 DEF Coherent, Idle, At, InPlace, Named, Was, TypeOK, Entries, TargetStates
  <2> QED
    BY <1>1, <2>1, <2>2, <2>3, FileFrame DEF FileStep, KeepsOld, Same, FilesInv, FileInv, AtFile,
      Behind, Ahead, Anywhere, Applying, RollingBack, Breaks, Goes, NextFile, Files, Bounds, TypeOK
<1>2. CASE /\ first[ofile].target # "new" /\ Directory([here EXCEPT !.tmp = "partial"])
          /\ Mutation([this EXCEPT !.stage = "TEMP_CREATING", !.temporary_name = TRUE])
          /\ Goes("write", ofile) /\ UNCHANGED oused
  <2> DEFINE d == [here EXCEPT !.tmp = "partial"]
             m == [this EXCEPT !.stage = "TEMP_CREATING", !.temporary_name = TRUE]
  <2>1. /\ d \in Entries
        /\ d.target = Was(f) /\ d.tmp = "partial" /\ d.bak = "none"
    BY <1>a, <1>0 DEF Entries, TargetStates, At, Idle, Untouched
  <2>2. /\ m \in Mutations
        /\ m.stage = "TEMP_CREATING"
        /\ m.temporary_name
        /\ (m.backup_name <=> mut[f].backup_name)
        /\ (m.published <=> mut[f].published)
    BY <1>a DEF Mutations, Stages
  <2>3. DirsTyped' /\ dirs'[f] = d /\ kept'[f] = kept[f] \cup {d}
    BY <1>2, <2>1, DirectoryFacts
  <2>4. MutTyped' /\ mut'[f] = m
    BY <1>2, <2>2, MutationFacts DEF CreateTemporary
  <2> HIDE DEF d, m
  <2>5. At(f, Was(f), "partial", "none")' /\ ~mut'[f].published
    BY <1>a, <1>0, <1>2, <2>1, <2>2, <2>3, <2>4 DEF At, Named, Was, TypeOK, Entries, TargetStates,
      Coherent, Idle
  <2>6. KeepsOld(f)
    BY <1>a, <1>0, <1>2, <2>1, <2>2, <2>3 DEF KeepsOld, Was, Restored, Entries, TypeOK, Coherent, At
  <2> QED
    BY <1>a, <1>0, <1>2, <2>3, <2>4, <2>5, <2>6 DEF FileStep, FilesInv, FileInv, AtFile, Behind, Ahead,
      Anywhere, Applying, RollingBack, Breaks, Goes, NextFile, Files, Bounds, TypeOK
<1>3. CASE first[ofile].target # "new" /\ Breaks /\ UNCHANGED <<dirs, kept, mut>>
  <2>1. Same(f)
    BY <1>a, <1>3 DEF Same, CreateTemporary
  <2>2. DirsTyped' /\ MutTyped'
    BY <1>3 DEF DirsTyped, MutTyped, TypeOK, CreateTemporary
  <2>3. Coherent(f)
    BY <1>0, FileOrder DEF Was
  <2> QED
    BY <1>3, <2>1, <2>2, <2>3, FileFrame DEF FileStep, KeepsOld, Same, FilesInv, FileInv, AtFile,
      Behind, Ahead, Anywhere, Applying, RollingBack, Breaks, Goes, NextFile
<1> QED
  BY <1>a, <1>1, <1>2, <1>3 DEF CreateTemporary

LEMMA CreateTemporaryKeeps ==
  ASSUME Bounds, TypeOK, InstallInv, CreateTemporary
  PROVE  TypeOK' /\ InstallInv'
<1>1. CallTyped'
  BY DEF CallTyped, TypeOK, Bounds, Files, CreateTemporary, quiet, NextFile, Goes, Breaks, Fault
<1>2. CallAt'
  BY DEF InstallInv, CallAt, Was, TypeOK, CreateTemporary, quiet, NextFile, Directory, here, Mutation,
    this, Goes, Breaks, Fault
<1>3. ASSUME NEW f \in Files, f # ofile PROVE FileInv(f)' /\ Same(f)
  <2>1. Same(f)
    BY <1>3 DEF Same, TypeOK, CreateTemporary, quiet, NextFile, Directory, here, Mutation, this, Goes,
      Breaks, Fault
  <2> QED
    BY <1>3, <2>1, FileFrame, FileOrder, SMTT(30) DEF InstallInv, CallAt, Files, Bounds, TypeOK, FilesInv,
      FileInv, AtFile, Behind, Ahead, Anywhere, Applying, RollingBack, CreateTemporary, quiet,
      NextFile, Directory, here, Mutation, this, Goes, Breaks, Fault
<1>4. \A f \in Files : f = ofile => FileStep(f)
  BY CreateTemporaryFile
<1>5. ResultsTrue'
  BY DEF InstallInv, ResultsTrue, CreateTemporary, quiet, NextFile, here, this, Goes, Breaks, Fault
<1>6. OldFiles'
  <2>1. UNCHANGED <<had, first>> /\ opc \notin {"idle", "answered", "cleanup", "finish"} /\ opc' \notin {"cleanup", "finish"}
    BY DEF CreateTemporary, quiet, NextFile, here, this, Goes, Breaks, Fault
  <2>2. \A f \in Files : KeepsOld(f)
    BY <1>3, <1>4 DEF FileStep, Same, KeepsOld
  <2> QED
    BY <2>1, <2>2, OldFilesStep
<1>7. InstallHonest'
  BY DEF InstallInv, InstallHonest, CallAt, CreateTemporary, quiet, NextFile, here, this, Goes, Breaks,
    Fault
<1> QED
  BY <1>1, <1>2, <1>3, <1>4, <1>5, <1>6, <1>7, TypeParts DEF InstallInv, FilesInv, FileStep, Files, TypeOK

LEMMA WriteTemporaryFile ==
  ASSUME Bounds, TypeOK, InstallInv, WriteTemporary, NEW f \in Files, f = ofile
  PROVE  FileStep(f)
<1>a. /\ here = dirs[f] /\ here \in Entries /\ this = mut[f] /\ this \in Mutations
      /\ first[f] \in Entries /\ UNCHANGED first
  BY DEF TypeOK, WriteTemporary, here, this, quiet
<1>0. /\ first[f] = Untouched(Was(f))
      /\ At(f, Was(f), "partial", "none") /\ ~mut[f].published
  BY <1>a DEF InstallInv, CallAt, FilesInv, FileInv, AtFile, WriteTemporary
<1>1. CASE /\ Directory([here EXCEPT !.tmp = "whole"])
          /\ Mutation([this EXCEPT !.stage = "TEMP_READY", !.temporary = TRUE])
          /\ Goes(IF first[ofile].target = "none" THEN "publish" ELSE "backup", ofile) /\ UNCHANGED oused
  <2> DEFINE d == [here EXCEPT !.tmp = "whole"]
             m == [this EXCEPT !.stage = "TEMP_READY", !.temporary = TRUE]
  <2>1. /\ d \in Entries
        /\ d.target = Was(f) /\ d.tmp = "whole" /\ d.bak = "none"
    BY <1>a, <1>0 DEF Entries, TargetStates, At, Idle, Untouched
  <2>2. /\ m \in Mutations
        /\ m.stage = "TEMP_READY"
        /\ (m.temporary_name <=> mut[f].temporary_name)
        /\ (m.backup_name <=> mut[f].backup_name)
        /\ (m.published <=> mut[f].published)
    BY <1>a DEF Mutations, Stages
  <2>3. DirsTyped' /\ dirs'[f] = d /\ kept'[f] = kept[f] \cup {d}
    BY <1>1, <2>1, DirectoryFacts
  <2>4. MutTyped' /\ mut'[f] = m
    BY <1>1, <2>2, MutationFacts DEF WriteTemporary
  <2> HIDE DEF d, m
  <2>5. At(f, Was(f), "whole", "none")' /\ ~mut'[f].published
    BY <1>a, <1>0, <2>1, <2>2, <2>3, <2>4 DEF At, Named, Was
  <2>6. KeepsOld(f)
    BY <1>a, <1>0, <2>1, <2>2, <2>3 DEF KeepsOld, TypeOK, At, Was
  <2> QED
    BY <1>a, <1>0, <1>1, <2>3, <2>4, <2>5, <2>6 DEF FileStep, FilesInv, FileInv, AtFile, Behind, Ahead,
      Anywhere, Applying, RollingBack, Breaks, Goes, Files, Bounds, TypeOK, Was, At, Restored,
      WriteTemporary, Entries, TargetStates
<1>2. CASE /\ Breaks /\ UNCHANGED <<dirs, kept>>
           /\ \E frozen \in BOOLEAN : Mutation([this EXCEPT !.temporary = frozen])
  <2>1. PICK frozen \in BOOLEAN : Mutation([this EXCEPT !.temporary = frozen])
    BY <1>2
  <2> DEFINE m == [this EXCEPT !.temporary = frozen]
  <2>2. m \in Mutations
    BY <1>a DEF Mutations
  <2>3. /\ m.stage = mut[f].stage /\ (m.temporary_name <=> mut[f].temporary_name)
        /\ (m.backup_name <=> mut[f].backup_name) /\ (m.published <=> mut[f].published)
    BY <1>a DEF Mutations
  <2>4. MutTyped' /\ mut'[f] = m
    BY <2>1, <2>2, MutationFacts
  <2> HIDE DEF m
  <2>5. DirsTyped' /\ dirs'[f] = dirs[f] /\ kept'[f] = kept[f]
    BY <1>2 DEF TypeOK, DirsTyped
  <2>6. Coherent(f)'
    BY <1>a, <1>0, <2>3, <2>4, <2>5 DEF Coherent, Idle, At, Named, Was
  <2> QED
    BY <1>2, <2>4, <2>5, <2>6 DEF FileStep, KeepsOld, Goes, Breaks, FilesInv, FileInv, AtFile, Behind,
      Ahead, Anywhere, Applying, RollingBack
<1> QED
  BY <1>a, <1>1, <1>2 DEF WriteTemporary

LEMMA WriteTemporaryKeeps ==
  ASSUME Bounds, TypeOK, InstallInv, WriteTemporary
  PROVE  TypeOK' /\ InstallInv'
<1>1. CallTyped'
  <2>1. UNCHANGED <<asked, first, completed, had, registry, seen>> /\ (UNCHANGED oused \/ Fault)
    BY DEF WriteTemporary, quiet, Goes, Breaks
  <2>2. ofile' \in Files /\ told' \in {told, "partial"}
    BY DEF TypeOK, WriteTemporary, quiet, Goes, Breaks
  <2>3. opc' \in {"publish", "backup", "confirm", "failed", "rollback", "rollback_hold",
                    "rollback_cleanup", "answered"}
    BY DEF WriteTemporary, quiet, Goes, Breaks
  <2> QED
    BY <2>1, <2>2, <2>3 DEF CallTyped, TypeOK, Fault, Bounds
<1>2. CallAt'
  BY DEF InstallInv, CallAt, Was, TypeOK, WriteTemporary, quiet, Directory, here, Mutation, this, Goes,
    Breaks, Fault
<1>3. ASSUME NEW f \in Files, f # ofile PROVE FileInv(f)' /\ Same(f)
  <2>1. Same(f)
    BY <1>3 DEF Same, TypeOK, WriteTemporary, quiet, Directory, here, Mutation, this, Goes, Breaks,
      Fault
  <2> QED
    BY <1>3, <2>1, FileFrame, FileOrder, SMTT(30) DEF InstallInv, CallAt, Files, Bounds, TypeOK, FilesInv,
      FileInv, AtFile, Behind, Ahead, Anywhere, Applying, RollingBack, WriteTemporary, quiet,
      Directory, here, Mutation, this, Goes, Breaks, Fault
<1>4. \A f \in Files : f = ofile => FileStep(f)
  BY WriteTemporaryFile
<1>5. ResultsTrue'
  BY DEF InstallInv, ResultsTrue, WriteTemporary, quiet, here, this, Goes, Breaks, Fault
<1>6. OldFiles'
  <2>1. UNCHANGED <<had, first>> /\ opc \notin {"idle", "answered", "cleanup", "finish"} /\ opc' \notin {"cleanup", "finish"}
    BY DEF WriteTemporary, quiet, here, this, Goes, Breaks, Fault
  <2>2. \A f \in Files : KeepsOld(f)
    BY <1>3, <1>4 DEF FileStep, Same, KeepsOld
  <2> QED
    BY <2>1, <2>2, OldFilesStep
<1>7. InstallHonest'
  BY DEF InstallInv, InstallHonest, CallAt, WriteTemporary, quiet, here, this, Goes, Breaks, Fault
<1> QED
  BY <1>1, <1>2, <1>3, <1>4, <1>5, <1>6, <1>7, TypeParts DEF InstallInv, FilesInv, FileStep, Files, TypeOK

LEMMA MoveBackupFile ==
  ASSUME Bounds, TypeOK, InstallInv, MoveBackup, NEW f \in Files, f = ofile
  PROVE  FileStep(f)
<1>a. /\ here = dirs[f] /\ here \in Entries /\ this = mut[f] /\ this \in Mutations
      /\ first[f] \in Entries /\ UNCHANGED first
  BY DEF TypeOK, MoveBackup, here, this, quiet
<1>0. /\ first[f] = Untouched(Was(f))
      /\ At(f, "old", "whole", "none") /\ Was(f) = "old" /\ ~mut[f].published
  BY <1>a DEF InstallInv, CallAt, FilesInv, FileInv, AtFile, MoveBackup
<1>1. CASE /\ Directory([here EXCEPT !.target = "none", !.bak = here.target])
          /\ Mutation([this EXCEPT !.backup_name = TRUE])
          /\ Goes("hold", ofile) /\ UNCHANGED oused
  <2> DEFINE d == [here EXCEPT !.target = "none", !.bak = here.target]
             m == [this EXCEPT !.backup_name = TRUE]
  <2>1. /\ d \in Entries
        /\ d.target = "none" /\ d.tmp = "whole" /\ d.bak = "old"
    BY <1>a, <1>0 DEF Entries, TargetStates, At, Idle, Untouched
  <2>2. /\ m \in Mutations
        /\ m.stage = mut[f].stage
        /\ (m.temporary_name <=> mut[f].temporary_name)
        /\ m.backup_name
        /\ (m.published <=> mut[f].published)
    BY <1>a DEF Mutations, Stages
  <2>3. DirsTyped' /\ dirs'[f] = d /\ kept'[f] = kept[f] \cup {d}
    BY <1>1, <2>1, DirectoryFacts
  <2>4. MutTyped' /\ mut'[f] = m
    BY <1>1, <2>2, MutationFacts DEF MoveBackup
  <2> HIDE DEF d, m
  <2>5. At(f, "none", "whole", "old")' /\ ~mut'[f].published
    BY <1>a, <1>0, <2>1, <2>2, <2>3, <2>4 DEF At, Named, Was
  <2>6. KeepsOld(f)
    BY <1>a, <1>0, <2>1, <2>2, <2>3 DEF KeepsOld, TypeOK, At, Was
  <2> QED
    BY <1>a, <1>0, <1>1, <2>3, <2>4, <2>5, <2>6 DEF FileStep, FilesInv, FileInv, AtFile, Behind, Ahead,
      Anywhere, Applying, RollingBack, Breaks, Goes, Files, Bounds, TypeOK, Was, At, Restored,
      MoveBackup, Entries, TargetStates
<1>2. CASE Breaks /\ UNCHANGED <<dirs, kept, mut>>
  <2>1. Same(f)
    BY <1>a, <1>2 DEF Same, MoveBackup
  <2>2. DirsTyped' /\ MutTyped'
    BY <1>2 DEF DirsTyped, MutTyped, TypeOK, MoveBackup
  <2>3. Coherent(f)
    BY <1>0, <1>2 DEF Coherent, Idle, At, InPlace, Named, Was, TypeOK, Entries, TargetStates
  <2> QED
    BY <1>2, <2>1, <2>2, <2>3, FileFrame DEF FileStep, KeepsOld, Same, FilesInv, FileInv, AtFile,
      Behind, Ahead, Anywhere, Applying, RollingBack, Breaks, Goes
<1> QED
  BY <1>a, <1>1, <1>2 DEF MoveBackup

LEMMA MoveBackupKeeps ==
  ASSUME Bounds, TypeOK, InstallInv, MoveBackup
  PROVE  TypeOK' /\ InstallInv'
<1>1. CallTyped'
  BY DEF CallTyped, TypeOK, Bounds, Files, MoveBackup, quiet, Goes, Breaks, Fault
<1>2. CallAt'
  BY DEF InstallInv, CallAt, Was, TypeOK, MoveBackup, quiet, Directory, here, Mutation, this, Goes,
    Breaks, Fault
<1>3. ASSUME NEW f \in Files, f # ofile PROVE FileInv(f)' /\ Same(f)
  <2>1. Same(f)
    BY <1>3 DEF Same, TypeOK, MoveBackup, quiet, Directory, here, Mutation, this, Goes, Breaks, Fault
  <2> QED
    BY <1>3, <2>1, FileFrame, FileOrder, SMTT(30) DEF InstallInv, CallAt, Files, Bounds, TypeOK, FilesInv,
      FileInv, AtFile, Behind, Ahead, Anywhere, Applying, RollingBack, MoveBackup, quiet, Directory,
      here, Mutation, this, Goes, Breaks, Fault
<1>4. \A f \in Files : f = ofile => FileStep(f)
  BY MoveBackupFile
<1>5. ResultsTrue'
  BY DEF InstallInv, ResultsTrue, MoveBackup, quiet, here, this, Goes, Breaks, Fault
<1>6. OldFiles'
  <2>1. UNCHANGED <<had, first>> /\ opc \notin {"idle", "answered", "cleanup", "finish"} /\ opc' \notin {"cleanup", "finish"}
    BY DEF MoveBackup, quiet, here, this, Goes, Breaks, Fault
  <2>2. \A f \in Files : KeepsOld(f)
    BY <1>3, <1>4 DEF FileStep, Same, KeepsOld
  <2> QED
    BY <2>1, <2>2, OldFilesStep
<1>7. InstallHonest'
  BY DEF InstallInv, InstallHonest, CallAt, MoveBackup, quiet, here, this, Goes, Breaks, Fault
<1> QED
  BY <1>1, <1>2, <1>3, <1>4, <1>5, <1>6, <1>7, TypeParts DEF InstallInv, FilesInv, FileStep, Files, TypeOK

LEMMA HoldBackupFile ==
  ASSUME Bounds, TypeOK, InstallInv, HoldBackup, NEW f \in Files, f = ofile
  PROVE  FileStep(f)
<1>a. /\ here = dirs[f] /\ here \in Entries /\ this = mut[f] /\ this \in Mutations
      /\ first[f] \in Entries /\ UNCHANGED first
  BY DEF TypeOK, HoldBackup, here, this, quiet
<1>0. /\ first[f] = Untouched(Was(f))
      /\ At(f, "none", "whole", "old") /\ Was(f) = "old" /\ ~mut[f].published
  BY <1>a DEF InstallInv, CallAt, FilesInv, FileInv, AtFile, HoldBackup
<1>1. CASE Mutation([this EXCEPT !.backup = TRUE, !.stage = "BACKUP_MOVED"]) /\ Synced /\ Goes("publish", ofile)
  <2> DEFINE m == [this EXCEPT !.backup = TRUE, !.stage = "BACKUP_MOVED"]
  <2>2. /\ m \in Mutations
        /\ m.stage = "BACKUP_MOVED"
        /\ (m.temporary_name <=> mut[f].temporary_name)
        /\ (m.backup_name <=> mut[f].backup_name)
        /\ (m.published <=> mut[f].published)
    BY <1>a DEF Mutations, Stages
  <2>3. DirsTyped' /\ dirs'[f] = dirs[f] /\ kept'[f] = {dirs[f]}
    BY <1>1, SyncedFacts DEF HoldBackup
  <2>4. MutTyped' /\ mut'[f] = m
    BY <1>1, <2>2, MutationFacts DEF HoldBackup
  <2> HIDE DEF m
  <2>5. At(f, "none", "whole", Was(f))' /\ ~mut'[f].published
    BY <1>a, <1>0, <2>2, <2>3, <2>4 DEF At, Named, Was
  <2>6. KeepsOld(f)
    BY <2>3 DEF KeepsOld, TypeOK
  <2> QED
    BY <1>a, <1>0, <1>1, <2>3, <2>4, <2>5, <2>6 DEF FileStep, FilesInv, FileInv, AtFile, Behind, Ahead,
      Anywhere, Applying, RollingBack, Breaks, Goes, Files, Bounds, TypeOK
<1>2. CASE Mutation([this EXCEPT !.backup = TRUE, !.stage = "BACKUP_MOVED"]) /\ Breaks /\ UNCHANGED kept
  <2> DEFINE m == [this EXCEPT !.backup = TRUE, !.stage = "BACKUP_MOVED"]
  <2>2. /\ m \in Mutations
        /\ m.stage = "BACKUP_MOVED"
        /\ (m.temporary_name <=> mut[f].temporary_name)
        /\ (m.backup_name <=> mut[f].backup_name)
        /\ (m.published <=> mut[f].published)
    BY <1>a DEF Mutations, Stages
  <2>3. DirsTyped' /\ dirs'[f] = dirs[f] /\ kept'[f] = kept[f]
    BY <1>2 DEF HoldBackup, DirsTyped, TypeOK
  <2>4. MutTyped' /\ mut'[f] = m
    BY <1>2, <2>2, MutationFacts DEF HoldBackup
  <2> HIDE DEF m
  <2>5. Coherent(f)'
    BY <1>a, <1>0, <2>2, <2>3, <2>4 DEF Coherent, Idle, At, Named, Was
  <2>6. KeepsOld(f)
    BY <2>3 DEF KeepsOld, TypeOK
  <2> QED
    BY <1>a, <1>0, <1>2, <2>3, <2>4, <2>5, <2>6 DEF FileStep, FilesInv, FileInv, AtFile, Behind, Ahead,
      Anywhere, Applying, RollingBack, Breaks, Goes
<1>3. CASE Breaks /\ UNCHANGED <<kept, mut>>
  <2>1. Same(f)
    BY <1>a, <1>3 DEF Same, HoldBackup
  <2>2. DirsTyped' /\ MutTyped'
    BY <1>3 DEF DirsTyped, MutTyped, TypeOK, HoldBackup
  <2>3. Coherent(f)
    BY <1>0, <1>3 DEF Coherent, Idle, At, InPlace, Named, Was, TypeOK, Entries, TargetStates
  <2> QED
    BY <1>3, <2>1, <2>2, <2>3, FileFrame DEF FileStep, KeepsOld, Same, FilesInv, FileInv, AtFile,
      Behind, Ahead, Anywhere, Applying, RollingBack, Breaks, Goes
<1> QED
  BY <1>a, <1>1, <1>2, <1>3 DEF HoldBackup

LEMMA HoldBackupKeeps ==
  ASSUME Bounds, TypeOK, InstallInv, HoldBackup
  PROVE  TypeOK' /\ InstallInv'
<1>1. CallTyped'
  BY SMTT(30) DEF CallTyped, TypeOK, Bounds, Files, HoldBackup, quiet, Goes, Breaks, Fault
<1>2. CallAt'
  BY DEF InstallInv, CallAt, Was, TypeOK, HoldBackup, quiet, Mutation, this, Synced, Goes, Breaks,
    Fault
<1>3. ASSUME NEW f \in Files, f # ofile PROVE FileInv(f)' /\ Same(f)
  <2>1. Same(f)
    BY <1>3 DEF Same, TypeOK, HoldBackup, quiet, Mutation, this, Synced, Goes, Breaks, Fault
  <2> QED
    BY <1>3, <2>1, FileFrame, FileOrder, SMTT(30) DEF InstallInv, CallAt, Files, Bounds, TypeOK, FilesInv,
      FileInv, AtFile, Behind, Ahead, Anywhere, Applying, RollingBack, HoldBackup, quiet, Mutation,
      this, Synced, Goes, Breaks, Fault
<1>4. \A f \in Files : f = ofile => FileStep(f)
  BY HoldBackupFile
<1>5. ResultsTrue'
  BY DEF InstallInv, ResultsTrue, HoldBackup, quiet, this, Goes, Breaks, Fault
<1>6. OldFiles'
  <2>1. UNCHANGED <<had, first>> /\ opc \notin {"idle", "answered", "cleanup", "finish"} /\ opc' \notin {"cleanup", "finish"}
    BY DEF HoldBackup, quiet, this, Goes, Breaks, Fault
  <2>2. \A f \in Files : KeepsOld(f)
    BY <1>3, <1>4 DEF FileStep, Same, KeepsOld
  <2> QED
    BY <2>1, <2>2, OldFilesStep
<1>7. InstallHonest'
  BY DEF InstallInv, InstallHonest, CallAt, HoldBackup, quiet, this, Goes, Breaks, Fault
<1> QED
  BY <1>1, <1>2, <1>3, <1>4, <1>5, <1>6, <1>7, TypeParts DEF InstallInv, FilesInv, FileStep, Files, TypeOK

LEMMA PublishFile ==
  ASSUME Bounds, TypeOK, InstallInv, Publish, NEW f \in Files, f = ofile
  PROVE  FileStep(f)
<1>a. /\ here = dirs[f] /\ here \in Entries /\ this = mut[f] /\ this \in Mutations
      /\ first[f] \in Entries /\ UNCHANGED first
  BY DEF TypeOK, Publish, here, this, quiet
<1>0. /\ first[f] = Untouched(Was(f))
      /\ At(f, "none", "whole", Was(f)) /\ ~mut[f].published
  BY <1>a DEF InstallInv, CallAt, FilesInv, FileInv, AtFile, Publish
<1>1. CASE /\ Directory([here EXCEPT !.target = "new", !.tmp = "none"])
          /\ Mutation([this EXCEPT !.temporary_name = FALSE])
          /\ Goes("confirm", ofile) /\ UNCHANGED oused
  <2> DEFINE d == [here EXCEPT !.target = "new", !.tmp = "none"]
             m == [this EXCEPT !.temporary_name = FALSE]
  <2>1. /\ d \in Entries
        /\ d.target = "new" /\ d.tmp = "none" /\ d.bak = Was(f)
    BY <1>a, <1>0 DEF Entries, TargetStates, At, Idle, Untouched
  <2>2. /\ m \in Mutations
        /\ m.stage = mut[f].stage
        /\ ~m.temporary_name
        /\ (m.backup_name <=> mut[f].backup_name)
        /\ (m.published <=> mut[f].published)
    BY <1>a DEF Mutations, Stages
  <2>3. DirsTyped' /\ dirs'[f] = d /\ kept'[f] = kept[f] \cup {d}
    BY <1>1, <2>1, DirectoryFacts
  <2>4. MutTyped' /\ mut'[f] = m
    BY <1>1, <2>2, MutationFacts DEF Publish
  <2> HIDE DEF d, m
  <2>5. At(f, "new", "none", Was(f))' /\ ~mut'[f].published
    BY <1>a, <1>0, <2>1, <2>2, <2>3, <2>4 DEF At, Named, Was
  <2>6. KeepsOld(f)
    BY <1>a, <1>0, <2>1, <2>2, <2>3 DEF KeepsOld, TypeOK, At, Was
  <2> QED
    BY <1>a, <1>0, <1>1, <2>3, <2>4, <2>5, <2>6 DEF FileStep, FilesInv, FileInv, AtFile, Behind, Ahead,
      Anywhere, Applying, RollingBack, Breaks, Goes, Files, Bounds, TypeOK
<1>2. CASE Breaks /\ UNCHANGED <<dirs, kept, mut>>
  <2>1. Same(f)
    BY <1>a, <1>2 DEF Same, Publish
  <2>2. DirsTyped' /\ MutTyped'
    BY <1>2 DEF DirsTyped, MutTyped, TypeOK, Publish
  <2>3. Coherent(f)
    BY <1>0, <1>2 DEF Coherent, Idle, At, InPlace, Named, Was, TypeOK, Entries, TargetStates
  <2> QED
    BY <1>2, <2>1, <2>2, <2>3, FileFrame DEF FileStep, KeepsOld, Same, FilesInv, FileInv, AtFile,
      Behind, Ahead, Anywhere, Applying, RollingBack, Breaks, Goes
<1> QED
  BY <1>a, <1>1, <1>2 DEF Publish

LEMMA PublishKeeps ==
  ASSUME Bounds, TypeOK, InstallInv, Publish
  PROVE  TypeOK' /\ InstallInv'
<1>1. CallTyped'
  <2>1. UNCHANGED <<asked, first, completed, had, registry, seen>> /\ (UNCHANGED oused \/ Fault)
    BY DEF Publish, quiet, Goes, Breaks
  <2>2. ofile' \in Files /\ told' \in {told, "partial"}
    BY DEF TypeOK, Publish, quiet, Goes, Breaks
  <2>3. opc' \in {"publish", "backup", "confirm", "failed", "rollback", "rollback_hold",
                    "rollback_cleanup", "answered"}
    BY DEF Publish, quiet, Goes, Breaks
  <2> QED
    BY <2>1, <2>2, <2>3 DEF CallTyped, TypeOK, Fault, Bounds
<1>2. CallAt'
  BY DEF InstallInv, CallAt, Was, TypeOK, Publish, quiet, Directory, here, Mutation, this, Goes,
    Breaks, Fault
<1>3. ASSUME NEW f \in Files, f # ofile PROVE FileInv(f)' /\ Same(f)
  <2>1. Same(f)
    BY <1>3 DEF Same, TypeOK, Publish, quiet, Directory, here, Mutation, this, Goes, Breaks, Fault
  <2> QED
    BY <1>3, <2>1, FileFrame, FileOrder, SMTT(30) DEF InstallInv, CallAt, Files, Bounds, TypeOK, FilesInv,
      FileInv, AtFile, Behind, Ahead, Anywhere, Applying, RollingBack, Publish, quiet, Directory, here,
      Mutation, this, Goes, Breaks, Fault
<1>4. \A f \in Files : f = ofile => FileStep(f)
  BY PublishFile
<1>5. ResultsTrue'
  BY DEF InstallInv, ResultsTrue, Publish, quiet, here, this, Goes, Breaks, Fault
<1>6. OldFiles'
  <2>1. UNCHANGED <<had, first>> /\ opc \notin {"idle", "answered", "cleanup", "finish"} /\ opc' \notin {"cleanup", "finish"}
    BY DEF Publish, quiet, here, this, Goes, Breaks, Fault
  <2>2. \A f \in Files : KeepsOld(f)
    BY <1>3, <1>4 DEF FileStep, Same, KeepsOld
  <2> QED
    BY <2>1, <2>2, OldFilesStep
<1>7. InstallHonest'
  BY DEF InstallInv, InstallHonest, CallAt, Publish, quiet, here, this, Goes, Breaks, Fault
<1> QED
  BY <1>1, <1>2, <1>3, <1>4, <1>5, <1>6, <1>7, TypeParts DEF InstallInv, FilesInv, FileStep, Files, TypeOK

LEMMA ConfirmPublishedFile ==
  ASSUME Bounds, TypeOK, InstallInv, ConfirmPublished, NEW f \in Files, f = ofile
  PROVE  FileStep(f)
<1>a. /\ here = dirs[f] /\ here \in Entries /\ this = mut[f] /\ this \in Mutations
      /\ first[f] \in Entries /\ UNCHANGED first
  BY DEF TypeOK, ConfirmPublished, here, this, quiet
<1>0. /\ first[f] = Untouched(Was(f))
      /\ At(f, "new", "none", Was(f)) /\ ~mut[f].published
  BY <1>a DEF InstallInv, CallAt, FilesInv, FileInv, AtFile, ConfirmPublished
<1>1. CASE Mutation([this EXCEPT !.published = TRUE, !.stage = "PUBLISHED"]) /\ Synced /\ NextFile
  <2> DEFINE m == [this EXCEPT !.published = TRUE, !.stage = "PUBLISHED"]
  <2>2. /\ m \in Mutations
        /\ m.stage = "PUBLISHED"
        /\ (m.temporary_name <=> mut[f].temporary_name)
        /\ (m.backup_name <=> mut[f].backup_name)
        /\ m.published
    BY <1>a DEF Mutations, Stages
  <2>3. DirsTyped' /\ dirs'[f] = dirs[f] /\ kept'[f] = {dirs[f]}
    BY <1>1, SyncedFacts DEF ConfirmPublished
  <2>4. MutTyped' /\ mut'[f] = m
    BY <1>1, <2>2, MutationFacts DEF ConfirmPublished
  <2> HIDE DEF m
  <2>5. InPlace(f)'
    BY <1>a, <1>0, <2>2, <2>3, <2>4 DEF InPlace, At, Named, Was
  <2>6. KeepsOld(f)
    BY <2>3 DEF KeepsOld, TypeOK
  <2> QED
    BY <1>a, <1>0, <1>1, <2>3, <2>4, <2>5, <2>6 DEF FileStep, FilesInv, FileInv, AtFile, Behind, Ahead,
      Anywhere, Applying, RollingBack, Breaks, Goes, NextFile, Files, Bounds, TypeOK
<1>2. CASE Mutation([this EXCEPT !.published = TRUE, !.stage = "PUBLISHED"]) /\ Breaks /\ UNCHANGED kept
  <2> DEFINE m == [this EXCEPT !.published = TRUE, !.stage = "PUBLISHED"]
  <2>2. /\ m \in Mutations
        /\ m.stage = "PUBLISHED"
        /\ (m.temporary_name <=> mut[f].temporary_name)
        /\ (m.backup_name <=> mut[f].backup_name)
        /\ m.published
    BY <1>a DEF Mutations, Stages
  <2>3. DirsTyped' /\ dirs'[f] = dirs[f] /\ kept'[f] = kept[f]
    BY <1>2 DEF ConfirmPublished, DirsTyped, TypeOK
  <2>4. MutTyped' /\ mut'[f] = m
    BY <1>2, <2>2, MutationFacts DEF ConfirmPublished
  <2> HIDE DEF m
  <2>5. Coherent(f)'
    BY <1>a, <1>0, <2>2, <2>3, <2>4 DEF Coherent, Idle, At, Named, Was
  <2>6. KeepsOld(f)
    BY <2>3 DEF KeepsOld, TypeOK
  <2> QED
    BY <1>a, <1>0, <1>2, <2>3, <2>4, <2>5, <2>6 DEF FileStep, FilesInv, FileInv, AtFile, Behind, Ahead,
      Anywhere, Applying, RollingBack, Breaks, Goes, NextFile
<1>3. CASE Breaks /\ UNCHANGED <<kept, mut>>
  <2>1. Same(f)
    BY <1>a, <1>3 DEF Same, ConfirmPublished
  <2>2. DirsTyped' /\ MutTyped'
    BY <1>3 DEF DirsTyped, MutTyped, TypeOK, ConfirmPublished
  <2>3. Coherent(f)
    BY <1>0, <1>3 DEF Coherent, Idle, At, InPlace, Named, Was, TypeOK, Entries, TargetStates
  <2> QED
    BY <1>3, <2>1, <2>2, <2>3, FileFrame DEF FileStep, KeepsOld, Same, FilesInv, FileInv, AtFile,
      Behind, Ahead, Anywhere, Applying, RollingBack, Breaks, Goes, NextFile
<1> QED
  BY <1>a, <1>1, <1>2, <1>3 DEF ConfirmPublished

LEMMA ConfirmPublishedKeeps ==
  ASSUME Bounds, TypeOK, InstallInv, ConfirmPublished
  PROVE  TypeOK' /\ InstallInv'
<1>1. CallTyped'
  BY SMTT(30) DEF CallTyped, TypeOK, Bounds, Files, ConfirmPublished, quiet, NextFile, Breaks, Goes, Fault
<1>2. CallAt'
  BY DEF InstallInv, CallAt, Was, TypeOK, ConfirmPublished, quiet, Mutation, this, Synced, NextFile,
    Breaks, Goes, Fault
<1>3. ASSUME NEW f \in Files, f # ofile PROVE FileInv(f)' /\ Same(f)
  <2>1. Same(f)
    BY <1>3 DEF Same, TypeOK, ConfirmPublished, quiet, Mutation, this, Synced, NextFile, Breaks, Goes,
      Fault
  <2> QED
    BY <1>3, <2>1, FileFrame, FileOrder, SMTT(30) DEF InstallInv, CallAt, Files, Bounds, TypeOK, FilesInv,
      FileInv, AtFile, Behind, Ahead, Anywhere, Applying, RollingBack, ConfirmPublished, quiet,
      Mutation, this, Synced, NextFile, Breaks, Goes, Fault
<1>4. \A f \in Files : f = ofile => FileStep(f)
  BY ConfirmPublishedFile
<1>5. ResultsTrue'
  BY DEF InstallInv, ResultsTrue, ConfirmPublished, quiet, this, NextFile, Breaks, Goes, Fault
<1>6. OldFiles'
  <2>1. UNCHANGED <<had, first>> /\ opc \notin {"idle", "answered", "cleanup", "finish"} /\ opc' \notin {"cleanup", "finish"}
    BY DEF ConfirmPublished, quiet, this, NextFile, Breaks, Goes, Fault
  <2>2. \A f \in Files : KeepsOld(f)
    BY <1>3, <1>4 DEF FileStep, Same, KeepsOld
  <2> QED
    BY <2>1, <2>2, OldFilesStep
<1>7. InstallHonest'
  BY DEF InstallInv, InstallHonest, CallAt, ConfirmPublished, quiet, this, NextFile, Breaks, Goes,
    Fault
<1> QED
  BY <1>1, <1>2, <1>3, <1>4, <1>5, <1>6, <1>7, TypeParts DEF InstallInv, FilesInv, FileStep, Files, TypeOK

LEMMA RollbackPublishedFile ==
  ASSUME Bounds, TypeOK, InstallInv, RollbackPublished, NEW f \in Files, f = ofile
  PROVE  FileStep(f)
<1>a. /\ here = dirs[f] /\ here \in Entries /\ this = mut[f] /\ this \in Mutations
      /\ first[f] \in Entries /\ UNCHANGED first
  BY DEF TypeOK, RollbackPublished, here, this, quiet, Stuck
<1>0. /\ first[f] = Untouched(Was(f))
      /\ At(f, "new", "none", Was(f)) /\ mut[f].published
  BY <1>a DEF InstallInv, CallAt, FilesInv, FileInv, AtFile, RollbackPublished, Coherent, Idle, At,
    Named, Was, Entries
<1>1. CASE Directory([here EXCEPT !.target = "none"]) /\ UNCHANGED mut /\ Goes("rollback_sync", ofile) /\ UNCHANGED <<quiet, oused>>
  <2> DEFINE d == [here EXCEPT !.target = "none"]
  <2>1. /\ d \in Entries
        /\ d.target = "none" /\ d.tmp = "none" /\ d.bak = Was(f)
    BY <1>a, <1>0 DEF Entries, TargetStates, At, Idle, Untouched
  <2>3. DirsTyped' /\ dirs'[f] = d /\ kept'[f] = kept[f] \cup {d}
    BY <1>1, <2>1, DirectoryFacts
  <2>4. MutTyped' /\ mut'[f] = mut[f]
    BY <1>1 DEF RollbackPublished, MutTyped, TypeOK
  <2> HIDE DEF d
  <2>5. At(f, "none", "none", Was(f))'
    BY <1>a, <1>0, <2>1, <2>3, <2>4 DEF At, Named, Was
  <2>6. KeepsOld(f)
    BY <1>a, <1>0, <2>1, <2>3 DEF KeepsOld, TypeOK, At, Was
  <2> QED
    BY <1>a, <1>0, <1>1, <2>3, <2>4, <2>5, <2>6 DEF FileStep, FilesInv, FileInv, AtFile, Behind, Ahead,
      Anywhere, Applying, RollingBack, Goes, Stuck, Raises, Answers, Files, Bounds, TypeOK
<1>2. CASE Directory([here EXCEPT !.target = "none"]) /\ UNCHANGED mut /\ Fault /\ Stuck
  <2> DEFINE d == [here EXCEPT !.target = "none"]
  <2>1. /\ d \in Entries
        /\ d.target = "none" /\ d.tmp = "none" /\ d.bak = Was(f)
    BY <1>a, <1>0 DEF Entries, TargetStates, At, Idle, Untouched
  <2>3. DirsTyped' /\ dirs'[f] = d /\ kept'[f] = kept[f] \cup {d}
    BY <1>2, <2>1, DirectoryFacts
  <2>4. MutTyped' /\ mut'[f] = mut[f]
    BY <1>2 DEF RollbackPublished, MutTyped, TypeOK
  <2> HIDE DEF d
  <2>6. KeepsOld(f)
    BY <1>a, <1>0, <2>1, <2>3 DEF KeepsOld, TypeOK, At, Was
  <2> QED
    BY <1>a, <1>0, <1>2, <2>3, <2>4, <2>6 DEF FileStep, FilesInv, FileInv, AtFile, Behind, Ahead,
      Anywhere, Applying, RollingBack, Goes, Stuck, Raises, Answers
<1>3. CASE Fault /\ Stuck /\ UNCHANGED <<dirs, kept, mut>>
  <2>1. Same(f)
    BY <1>a, <1>3 DEF Same, RollbackPublished
  <2>2. DirsTyped' /\ MutTyped'
    BY <1>3 DEF DirsTyped, MutTyped, TypeOK, RollbackPublished
  <2> QED
    BY <1>3, <2>1, <2>2, FileFrame DEF FileStep, KeepsOld, Same, FilesInv, FileInv, AtFile, Behind,
      Ahead, Anywhere, Applying, RollingBack, Goes, Stuck, Raises, Answers
<1> QED
  BY <1>a, <1>1, <1>2, <1>3 DEF RollbackPublished

LEMMA RollbackPublishedKeeps ==
  ASSUME Bounds, TypeOK, InstallInv, RollbackPublished
  PROVE  TypeOK' /\ InstallInv'
<1>1. CallTyped'
  BY DEF CallTyped, TypeOK, Bounds, Files, RollbackPublished, Goes, quiet, Fault, Stuck, Raises,
    Answers
<1>2. CallAt'
  BY DEF InstallInv, CallAt, Was, TypeOK, RollbackPublished, this, Directory, here, Goes, quiet, Fault,
    Stuck, Raises, Answers
<1>3. ASSUME NEW f \in Files, f # ofile PROVE FileInv(f)' /\ Same(f)
  <2>1. Same(f)
    BY <1>3 DEF Same, TypeOK, RollbackPublished, this, Directory, here, Goes, quiet, Fault, Stuck,
      Raises, Answers
  <2> QED
    BY <1>3, <2>1, FileFrame DEF InstallInv, FilesInv, FileInv, AtFile, Behind, Ahead, Anywhere,
      Applying, RollingBack, RollbackPublished, this, Directory, here, Goes, quiet, Fault, Stuck,
      Raises, Answers
<1>4. \A f \in Files : f = ofile => FileStep(f)
  BY RollbackPublishedFile
<1>5. ResultsTrue'
  BY DEF InstallInv, ResultsTrue, RollbackPublished, this, here, Goes, quiet, Fault, Stuck, Raises,
    Answers
<1>6. OldFiles'
  <2>1. UNCHANGED <<had, first>> /\ opc \notin {"idle", "answered", "cleanup", "finish"} /\ opc' \notin {"cleanup", "finish"}
    BY DEF RollbackPublished, this, here, Goes, quiet, Fault, Stuck, Raises, Answers
  <2>2. \A f \in Files : KeepsOld(f)
    BY <1>3, <1>4 DEF FileStep, Same, KeepsOld
  <2> QED
    BY <2>1, <2>2, OldFilesStep
<1>7. InstallHonest'
  BY DEF InstallInv, InstallHonest, CallAt, RollbackPublished, this, here, Goes, quiet, Fault, Stuck,
    Raises, Answers
<1> QED
  BY <1>1, <1>2, <1>3, <1>4, <1>5, <1>6, <1>7, TypeParts DEF InstallInv, FilesInv, FileStep, Files, TypeOK

LEMMA RollbackSyncFile ==
  ASSUME Bounds, TypeOK, InstallInv, RollbackSync, NEW f \in Files, f = ofile
  PROVE  FileStep(f)
<1>a. /\ here = dirs[f] /\ here \in Entries /\ this = mut[f] /\ this \in Mutations
      /\ first[f] \in Entries /\ UNCHANGED first
  BY DEF TypeOK, RollbackSync, here, this, quiet
<1>0. /\ first[f] = Untouched(Was(f))
      /\ At(f, "none", "none", Was(f))
  BY <1>a DEF InstallInv, CallAt, FilesInv, FileInv, AtFile, RollbackSync
<1>1. CASE /\ Synced /\ UNCHANGED <<quiet, dirs, oused>>
          /\ Mutation([this EXCEPT !.published = FALSE]) /\ Goes("rollback", ofile)
  <2> DEFINE m == [this EXCEPT !.published = FALSE]
  <2>2. /\ m \in Mutations
        /\ m.stage = mut[f].stage
        /\ (m.temporary_name <=> mut[f].temporary_name)
        /\ (m.backup_name <=> mut[f].backup_name)
        /\ ~m.published
    BY <1>a DEF Mutations, Stages
  <2>3. DirsTyped' /\ dirs'[f] = dirs[f] /\ kept'[f] = {dirs[f]}
    BY <1>1, SyncedFacts DEF RollbackSync
  <2>4. MutTyped' /\ mut'[f] = m
    BY <1>1, <2>2, MutationFacts DEF RollbackSync
  <2> HIDE DEF m
  <2>5. Coherent(f)'
    BY <1>a, <1>0, <2>2, <2>3, <2>4 DEF Coherent, Idle, At, Named, Was
  <2>6. KeepsOld(f)
    BY <2>3 DEF KeepsOld, TypeOK
  <2> QED
    BY <1>a, <1>0, <1>1, <2>3, <2>4, <2>5, <2>6 DEF FileStep, FilesInv, FileInv, AtFile, Behind, Ahead,
      Anywhere, Applying, RollingBack, Goes, Files, Bounds, TypeOK
<1> QED
  BY <1>a, <1>1 DEF RollbackSync

LEMMA RollbackSyncKeeps ==
  ASSUME Bounds, TypeOK, InstallInv, RollbackSync
  PROVE  TypeOK' /\ InstallInv'
<1>1. CallTyped'
  BY DEF CallTyped, TypeOK, RollbackSync, quiet, Goes
<1>2. CallAt'
  BY DEF InstallInv, CallAt, Was, TypeOK, RollbackSync, Synced, quiet, Mutation, this, Goes
<1>3. ASSUME NEW f \in Files, f # ofile PROVE FileInv(f)' /\ Same(f)
  <2>1. Same(f)
    BY <1>3 DEF Same, RollbackSync, Synced, quiet, Mutation, this, Goes
  <2> QED
    BY <1>3, <2>1, FileFrame DEF InstallInv, FilesInv, FileInv, AtFile, Behind, Ahead, Anywhere,
      Applying, RollingBack, RollbackSync, Synced, quiet, Mutation, this, Goes
<1>4. \A f \in Files : f = ofile => FileStep(f)
  BY RollbackSyncFile
<1>5. ResultsTrue'
  BY DEF InstallInv, ResultsTrue, RollbackSync, quiet, this, Goes
<1>6. OldFiles'
  <2>1. UNCHANGED <<had, first>> /\ opc \notin {"idle", "answered", "cleanup", "finish"} /\ opc' \notin {"cleanup", "finish"}
    BY DEF RollbackSync, quiet, this, Goes
  <2>2. \A f \in Files : KeepsOld(f)
    BY <1>3, <1>4 DEF FileStep, Same, KeepsOld
  <2> QED
    BY <2>1, <2>2, OldFilesStep
<1>7. InstallHonest'
  BY DEF InstallInv, InstallHonest, CallAt, RollbackSync, quiet, this, Goes
<1> QED
  BY <1>1, <1>2, <1>3, <1>4, <1>5, <1>6, <1>7, TypeParts DEF InstallInv, FilesInv, FileStep, Files, TypeOK

LEMMA RollbackRestoreFile ==
  ASSUME Bounds, TypeOK, InstallInv, RollbackRestore, NEW f \in Files, f = ofile
  PROVE  FileStep(f)
<1>a. /\ here = dirs[f] /\ here \in Entries /\ this = mut[f] /\ this \in Mutations
      /\ first[f] \in Entries /\ UNCHANGED first
  BY DEF TypeOK, RollbackRestore, here, this, quiet, Stuck
<1>0. /\ first[f] = Untouched(Was(f))
      /\ Coherent(f) /\ ~mut[f].published
  BY <1>a DEF InstallInv, CallAt, FilesInv, FileInv, AtFile, RollbackRestore
<1>1. CASE /\ Was(f) # "none" /\ this.backup_name /\ here.target = "none"
          /\ Directory([here EXCEPT !.target = here.bak, !.bak = "none"]) /\ Mutation([this EXCEPT !.backup_name = FALSE])
          /\ Goes("rollback_hold", ofile) /\ UNCHANGED <<quiet, oused>>
  <2> DEFINE d == [here EXCEPT !.target = here.bak, !.bak = "none"]
             m == [this EXCEPT !.backup_name = FALSE]
  <2>1. /\ d \in Entries
        /\ d.target = Was(f) /\ d.tmp = dirs[f].tmp /\ d.bak = "none"
        /\ Was(f) # "new" /\ mut[f].stage # "NOT_ATTEMPTED"
    BY <1>a, <1>0, <1>1 DEF Entries, TargetStates, At, Idle, Untouched, Was, Coherent, Named
  <2>2. /\ m \in Mutations
        /\ m.stage = mut[f].stage
        /\ (m.temporary_name <=> mut[f].temporary_name)
        /\ ~m.backup_name
        /\ (m.published <=> mut[f].published)
    BY <1>a DEF Mutations, Stages
  <2>3. DirsTyped' /\ dirs'[f] = d /\ kept'[f] = kept[f] \cup {d}
    BY <1>1, <2>1, DirectoryFacts
  <2>4. MutTyped' /\ mut'[f] = m
    BY <1>1, <2>2, MutationFacts DEF RollbackRestore
  <2> HIDE DEF d, m
  <2>5. (Was(f) # "new" /\ mut[f].stage # "NOT_ATTEMPTED" /\ Restored(f))'
    BY <1>a, <1>0, <1>1, <2>1, <2>2, <2>3, <2>4 DEF Restored, At, Named, Was, TypeOK, Entries,
      TargetStates, Coherent, Idle
  <2>6. KeepsOld(f)
    BY <1>a, <1>0, <1>1, <2>1, <2>2, <2>3 DEF KeepsOld, Was, Restored, Entries, TypeOK, Coherent, At
  <2> QED
    BY <1>a, <1>0, <1>1, <2>3, <2>4, <2>5, <2>6 DEF FileStep, FilesInv, FileInv, AtFile, Behind, Ahead,
      Anywhere, Applying, RollingBack, Goes, PreviousFile, Stuck, Raises, Answers, Files, Bounds,
      TypeOK
<1>2. CASE /\ Was(f) # "none" /\ this.backup_name /\ here.target = "none"
          /\ Directory([here EXCEPT !.target = here.bak, !.bak = "none"]) /\ Mutation([this EXCEPT !.backup_name = FALSE]) /\ Fault /\ Stuck
  <2> DEFINE d == [here EXCEPT !.target = here.bak, !.bak = "none"]
             m == [this EXCEPT !.backup_name = FALSE]
  <2>1. /\ d \in Entries
        /\ d.target = Was(f) /\ d.tmp = dirs[f].tmp /\ d.bak = "none"
        /\ Was(f) # "new" /\ mut[f].stage # "NOT_ATTEMPTED"
    BY <1>a, <1>0, <1>2 DEF Entries, TargetStates, At, Idle, Untouched, Was, Coherent, Named
  <2>2. /\ m \in Mutations
        /\ m.stage = mut[f].stage
        /\ (m.temporary_name <=> mut[f].temporary_name)
        /\ ~m.backup_name
        /\ (m.published <=> mut[f].published)
    BY <1>a DEF Mutations, Stages
  <2>3. DirsTyped' /\ dirs'[f] = d /\ kept'[f] = kept[f] \cup {d}
    BY <1>2, <2>1, DirectoryFacts
  <2>4. MutTyped' /\ mut'[f] = m
    BY <1>2, <2>2, MutationFacts DEF RollbackRestore
  <2> HIDE DEF d, m
  <2>6. KeepsOld(f)
    BY <1>a, <1>0, <1>2, <2>1, <2>2, <2>3 DEF KeepsOld, Was, Restored, Entries, TypeOK, Coherent, At
  <2> QED
    BY <1>a, <1>0, <1>2, <2>3, <2>4, <2>6 DEF FileStep, FilesInv, FileInv, AtFile, Behind, Ahead,
      Anywhere, Applying, RollingBack, Goes, PreviousFile, Stuck, Raises, Answers
<1>3. CASE Stuck /\ UNCHANGED <<dirs, kept, mut>>
  <2>1. Same(f)
    BY <1>a, <1>3 DEF Same, RollbackRestore
  <2>2. DirsTyped' /\ MutTyped'
    BY <1>3 DEF DirsTyped, MutTyped, TypeOK, RollbackRestore
  <2> QED
    BY <1>3, <2>1, <2>2, FileFrame DEF FileStep, KeepsOld, Same, FilesInv, FileInv, AtFile, Behind,
      Ahead, Anywhere, Applying, RollingBack, Goes, PreviousFile, Stuck, Raises, Answers
<1>4. CASE /\ ~(Was(f) # "none" /\ this.backup_name) /\ ~(Was(f) = "none" /\ here.target # "none")
          /\ Mutation(RolledBack(this)) /\ PreviousFile /\ UNCHANGED <<quiet, dirs, kept, oused>>
  <2> DEFINE m == RolledBack(this)
  <2>2. /\ m \in Mutations
        /\ (m.temporary_name <=> mut[f].temporary_name) /\ (m.backup_name <=> mut[f].backup_name)
        /\ (m.published <=> mut[f].published)
    BY <1>a DEF Mutations, Stages, RolledBack
  <2>3. DirsTyped' /\ dirs'[f] = dirs[f] /\ kept'[f] = kept[f]
    BY <1>4 DEF RollbackRestore, DirsTyped, TypeOK
  <2>4. MutTyped' /\ mut'[f] = m
    BY <1>4, <2>2, MutationFacts DEF RollbackRestore
  <2> HIDE DEF m
  <2>a. dirs[f].target = Was(f) /\ dirs[f].bak = "none" /\ Named(f)
        /\ (Was(f) = "new" => dirs[f] = first[f])
    <3>1. CASE Was(f) = "new"
      BY <1>0, <3>1 DEF Coherent, Idle, Untouched, Named
    <3>2. CASE Was(f) # "new"
      BY <1>a, <1>0, <1>4, <3>2 DEF Coherent, Named
    <3> QED
      BY <3>1, <3>2
  <2>5. Restored(f)'
    BY <1>a, <1>0, <1>4, <2>2, <2>a, <2>3, <2>4 DEF Restored, At, Named, Was, TypeOK, Entries,
      TargetStates, Coherent, Idle
  <2>6. KeepsOld(f)
    BY <2>3 DEF KeepsOld, TypeOK
  <2> QED
    BY <1>a, <1>0, <1>4, <2>3, <2>4, <2>5, <2>6 DEF FileStep, FilesInv, FileInv, AtFile, Behind, Ahead,
      Anywhere, Applying, RollingBack, Goes, PreviousFile, Stuck, Raises, Answers, Files, Bounds,
      TypeOK
<1> QED
  BY <1>a, <1>0, <1>1, <1>2, <1>3, <1>4 DEF RollbackRestore, Was

LEMMA RollbackRestoreKeeps ==
  ASSUME Bounds, TypeOK, InstallInv, RollbackRestore
  PROVE  TypeOK' /\ InstallInv'
<1>1. CallTyped'
  <2>1. UNCHANGED <<asked, first, completed, had, registry, seen>> /\ (UNCHANGED oused \/ Fault)
    BY DEF RollbackRestore, Goes, quiet, Stuck, PreviousFile, Raises, Answers
  <2>2. ofile' \in Files /\ told' \in {told, "partial"}
    BY DEF TypeOK, Files, Bounds, RollbackRestore, Goes, quiet, Stuck, PreviousFile, Raises, Answers
  <2>3. opc' \in {"publish", "backup", "confirm", "failed", "rollback", "rollback_hold",
                    "rollback_cleanup", "answered"}
    BY DEF RollbackRestore, Goes, quiet, Stuck, PreviousFile, Raises, Answers
  <2> QED
    BY <2>1, <2>2, <2>3 DEF CallTyped, TypeOK, Fault, Bounds
<1>2. CallAt'
  BY DEF InstallInv, CallAt, Was, TypeOK, RollbackRestore, this, here, Directory, Mutation, Goes,
    quiet, Fault, Stuck, RolledBack, PreviousFile, Raises, Answers
<1>3. ASSUME NEW f \in Files, f # ofile PROVE FileInv(f)' /\ Same(f)
  <2>1. Same(f)
    BY <1>3 DEF Same, TypeOK, RollbackRestore, this, here, Directory, Mutation, Goes, quiet, Fault,
      Stuck, RolledBack, PreviousFile, Raises, Answers
  <2> QED
    BY <1>3, <2>1, FileFrame, SMTT(30) DEF InstallInv, Files, Bounds, TypeOK, FilesInv, FileInv, AtFile, Behind,
      Ahead, Anywhere, Applying, RollingBack, RollbackRestore, this, here, Directory, Mutation, Goes,
      quiet, Fault, Stuck, RolledBack, PreviousFile, Raises, Answers
<1>4. \A f \in Files : f = ofile => FileStep(f)
  BY RollbackRestoreFile
<1>5. ResultsTrue'
  BY DEF InstallInv, ResultsTrue, RollbackRestore, this, here, Goes, quiet, Fault, Stuck, RolledBack,
    PreviousFile, Raises, Answers
<1>6. OldFiles'
  <2>1. UNCHANGED <<had, first>> /\ opc \notin {"idle", "answered", "cleanup", "finish"} /\ opc' \notin {"cleanup", "finish"}
    BY DEF RollbackRestore, this, here, Goes, quiet, Fault, Stuck, RolledBack, PreviousFile, Raises,
      Answers
  <2>2. \A f \in Files : KeepsOld(f)
    BY <1>3, <1>4 DEF FileStep, Same, KeepsOld
  <2> QED
    BY <2>1, <2>2, OldFilesStep
<1>7. InstallHonest'
  BY DEF InstallInv, InstallHonest, CallAt, RollbackRestore, this, here, Goes, quiet, Fault, Stuck,
    RolledBack, PreviousFile, Raises, Answers
<1> QED
  BY <1>1, <1>2, <1>3, <1>4, <1>5, <1>6, <1>7, TypeParts DEF InstallInv, FilesInv, FileStep, Files, TypeOK

LEMMA RollbackHoldFile ==
  ASSUME Bounds, TypeOK, InstallInv, RollbackHold, NEW f \in Files, f = ofile
  PROVE  FileStep(f)
<1>a. /\ here = dirs[f] /\ here \in Entries /\ this = mut[f] /\ this \in Mutations
      /\ first[f] \in Entries /\ UNCHANGED first
  BY DEF TypeOK, RollbackHold, here, this, quiet
<1>0. /\ first[f] = Untouched(Was(f))
      /\ Was(f) # "new" /\ Restored(f)
  BY <1>a DEF InstallInv, CallAt, FilesInv, FileInv, AtFile, RollbackHold
<1>1. CASE /\ Synced /\ UNCHANGED <<quiet, dirs, oused>>
          /\ Mutation([RolledBack(this) EXCEPT !.backup = FALSE]) /\ PreviousFile
  <2> DEFINE m == [RolledBack(this) EXCEPT !.backup = FALSE]
  <2>2. /\ m \in Mutations
        /\ (m.temporary_name <=> mut[f].temporary_name) /\ (m.backup_name <=> mut[f].backup_name)
        /\ (m.published <=> mut[f].published)
    BY <1>a DEF Mutations, Stages, RolledBack
  <2>3. DirsTyped' /\ dirs'[f] = dirs[f] /\ kept'[f] = {dirs[f]}
    BY <1>1, SyncedFacts DEF RollbackHold
  <2>4. MutTyped' /\ mut'[f] = m
    BY <1>1, <2>2, MutationFacts DEF RollbackHold
  <2> HIDE DEF m
  <2>5. Restored(f)'
    BY <1>a, <1>0, <2>2, <2>3, <2>4 DEF Restored, At, Named, Was
  <2>6. KeepsOld(f)
    BY <2>3 DEF KeepsOld, TypeOK
  <2> QED
    BY <1>a, <1>0, <1>1, <2>3, <2>4, <2>5, <2>6 DEF FileStep, FilesInv, FileInv, AtFile, Behind, Ahead,
      Anywhere, Applying, RollingBack, Goes, PreviousFile, Files, Bounds, TypeOK
<1> QED
  BY <1>a, <1>1 DEF RollbackHold

LEMMA RollbackHoldKeeps ==
  ASSUME Bounds, TypeOK, InstallInv, RollbackHold
  PROVE  TypeOK' /\ InstallInv'
<1>1. CallTyped'
  BY DEF CallTyped, TypeOK, Bounds, Files, RollbackHold, quiet, PreviousFile, Goes
<1>2. CallAt'
  BY DEF InstallInv, CallAt, Was, TypeOK, RollbackHold, Synced, quiet, Mutation, RolledBack, this,
    PreviousFile, Goes
<1>3. ASSUME NEW f \in Files, f # ofile PROVE FileInv(f)' /\ Same(f)
  <2>1. Same(f)
    BY <1>3 DEF Same, RollbackHold, Synced, quiet, Mutation, RolledBack, this, PreviousFile, Goes
  <2> QED
    BY <1>3, <2>1, FileFrame DEF InstallInv, Files, Bounds, TypeOK, FilesInv, FileInv, AtFile, Behind,
      Ahead, Anywhere, Applying, RollingBack, RollbackHold, Synced, quiet, Mutation, RolledBack, this,
      PreviousFile, Goes
<1>4. \A f \in Files : f = ofile => FileStep(f)
  BY RollbackHoldFile
<1>5. ResultsTrue'
  BY DEF InstallInv, ResultsTrue, RollbackHold, quiet, RolledBack, this, PreviousFile, Goes
<1>6. OldFiles'
  <2>1. UNCHANGED <<had, first>> /\ opc \notin {"idle", "answered", "cleanup", "finish"} /\ opc' \notin {"cleanup", "finish"}
    BY DEF RollbackHold, quiet, RolledBack, this, PreviousFile, Goes
  <2>2. \A f \in Files : KeepsOld(f)
    BY <1>3, <1>4 DEF FileStep, Same, KeepsOld
  <2> QED
    BY <2>1, <2>2, OldFilesStep
<1>7. InstallHonest'
  BY DEF InstallInv, InstallHonest, CallAt, RollbackHold, quiet, RolledBack, this, PreviousFile, Goes
<1> QED
  BY <1>1, <1>2, <1>3, <1>4, <1>5, <1>6, <1>7, TypeParts DEF InstallInv, FilesInv, FileStep, Files, TypeOK

\* Where a cleanup goes on: to the next file, to the end, or to an exception.
LEMMA CleanupGoes ==
  ASSUME TypeOK, Bounds, Cleanup
  PROVE  /\ opc \in {"cleanup", "rollback_cleanup"}
         /\ \/ opc' = "answered" /\ ofile' = ofile /\ told' = "partial"
            \/ /\ ofile < NumFiles /\ opc' = opc /\ ofile' = ofile + 1 /\ told' = told
            \/ /\ ofile = NumFiles /\ ofile' = 1 /\ told' = told
               /\ opc' = IF opc = "cleanup" THEN "finish" ELSE "rollback_finish"
         /\ UNCHANGED <<asked, first, completed, had, registry, seen>> /\ (UNCHANGED oused \/ Fault)
BY DEF Cleanup, AfterCleanup, Goes, Stuck, Raises, Answers, quiet, TypeOK, Files, Bounds

LEMMA CleanupFile ==
  ASSUME Bounds, TypeOK, InstallInv, Cleanup, NEW f \in Files, f = ofile
  PROVE  /\ DirsTyped' /\ MutTyped' /\ FileInv(f)'
         /\ IF opc = "cleanup" THEN \A d \in kept'[f] : d \in kept[f] \/ d.target = "new" ELSE KeepsOld(f)
<1>1. /\ here = dirs[f] /\ here \in Entries /\ this = mut[f] /\ this \in Mutations /\ first'[f] = first[f]
      /\ first[f] = Untouched(Was(f)) /\ Was(f) \in TargetStates
      /\ opc = "cleanup" => InPlace(f)
      /\ opc = "rollback_cleanup" => Restored(f)
  <2>1. /\ here = dirs[f] /\ here \in Entries /\ this = mut[f] /\ this \in Mutations
        /\ first'[f] = first[f] /\ Was(f) \in TargetStates
    BY CleanupGoes DEF TypeOK, here, this, Entries, Was
  <2>2. first[f] = Untouched(Was(f))
    BY CleanupGoes DEF InstallInv, CallAt
  <2>3. (opc = "cleanup" => InPlace(f)) /\ (opc = "rollback_cleanup" => Restored(f))
    BY DEF InstallInv, FilesInv, FileInv, Anywhere, Files, TypeOK
  <2> QED
    BY <2>1, <2>2, <2>3
<1>2. here.target = IF opc = "cleanup" THEN "new" ELSE Was(f)
  BY <1>1, CleanupGoes DEF InPlace, At, Idle, Restored, Untouched
<1> DEFINE named == this.temporary_name \/ this.backup_name
           d == Untouched(here.target)
           m == [this EXCEPT !.temporary_name = FALSE, !.temporary = FALSE,
                             !.backup_name = FALSE, !.backup = FALSE]
<1>3. d \in Entries /\ d.target = here.target
  BY <1>1 DEF Untouched, Entries
<1>4. m \in Mutations
  BY <1>1 DEF Mutations
<1>5. named => Was(f) # "new"
  BY <1>1, CleanupGoes DEF InPlace, At, Idle, Restored, Named, Untouched
<1>6. ASSUME dirs'[f] = d, opc' # "answered", opc = "cleanup" => (Was(f) # "new" => kept'[f] = {dirs'[f]})
      PROVE  FileInv(f)'
  <2>1. opc = "cleanup" => Final(f)'
    BY <1>1, <1>2, <1>6 DEF Final, Was
  <2>2. opc = "rollback_cleanup" => dirs'[f] = first'[f]
    BY <1>1, <1>2, <1>6
  <2> QED
    BY <1>6, <2>1, <2>2, CleanupGoes DEF FileInv, AtFile, Behind, Ahead, Anywhere, Applying, RollingBack,
      Files, Bounds, TypeOK
<1>7. ASSUME opc' = "answered" PROVE FileInv(f)'
  BY <1>7 DEF FileInv, AtFile, Behind, Ahead, Anywhere, Applying, RollingBack
<1>8. CASE ~named /\ UNCHANGED <<dirs, kept, mut>>
  <2>1. dirs[f] = d
    BY <1>1, <1>2, <1>8, CleanupGoes DEF InPlace, At, Idle, Restored, Named, Untouched, Entries
  <2>2. opc = "cleanup" /\ Was(f) # "new" => kept[f] = {dirs[f]}
    BY <1>1 DEF InPlace
  <2>3. DirsTyped' /\ MutTyped' /\ KeepsOld(f)
    BY <1>8 DEF DirsTyped, MutTyped, KeepsOld, TypeOK
  <2> QED
    BY <1>6, <1>7, <1>8, <2>1, <2>2, <2>3 DEF KeepsOld
<1>9. CASE named /\ UNCHANGED <<dirs, kept, mut>> /\ Stuck
  <2>1. DirsTyped' /\ MutTyped' /\ KeepsOld(f) /\ opc' = "answered"
    BY <1>9 DEF DirsTyped, MutTyped, KeepsOld, TypeOK, Stuck, Raises, Answers
  <2> QED
    BY <1>7, <1>9, <2>1
<1>10. CASE /\ named /\ Mutation(m) /\ dirs' = [dirs EXCEPT ![ofile] = d]
            /\ \/ kept' = [kept EXCEPT ![ofile] = {d}]
               \/ Stuck /\ kept' = [kept EXCEPT ![ofile] = @ \cup {d}]
  <2>1. MutTyped'
    BY <1>4, <1>10, MutationFacts
  <2> HIDE DEF d, m, named
  <2>2. dirs'[f] = d /\ (kept'[f] = {d} \/ (Stuck /\ kept'[f] = kept[f] \cup {d}))
    BY <1>10 DEF TypeOK
  <2>3. DirsTyped'
    BY <1>3, <1>10 DEF TypeOK, DirsTyped
  <2>4. \A x \in kept'[f] : x \in kept[f] \/ x.target = here.target
    BY <1>3, <2>2
  <2>5. IF opc = "cleanup" THEN \A x \in kept'[f] : x \in kept[f] \/ x.target = "new" ELSE KeepsOld(f)
    BY <1>2, <1>5, <1>10, <2>4 DEF KeepsOld
  <2>6. CASE opc' = "answered"
    BY <1>7, <2>1, <2>3, <2>5, <2>6
  <2>7. CASE opc' # "answered"
    BY <1>6, <2>1, <2>2, <2>3, <2>5, <2>7 DEF Stuck, Raises, Answers
  <2> QED
    BY <2>6, <2>7
<1> QED
  BY <1>8, <1>9, <1>10 DEF Cleanup

LEMMA CleanupKeeps ==
  ASSUME Bounds, TypeOK, InstallInv, Cleanup
  PROVE  TypeOK' /\ InstallInv'
<1>1. CallTyped'
  <2>1. ofile' \in Files
    BY CleanupGoes DEF TypeOK, Files, Bounds
  <2>2. oused' \in [crashes : 0..MaxInstallCrashes, faults : 0..MaxInstallFaults]
    BY CleanupGoes DEF TypeOK, Fault, Bounds
  <2> QED
    BY <2>1, <2>2, CleanupGoes DEF CallTyped, TypeOK
<1>2. CallAt'
  BY CleanupGoes DEF InstallInv, CallAt, Was
<1>3. ASSUME NEW f \in Files, f # ofile PROVE FileInv(f)' /\ Same(f)
  <2>1. Same(f)
    BY <1>3, CleanupGoes DEF Same, Cleanup, Mutation, TypeOK
  <2>2. opc = "cleanup" => IF f < ofile THEN Final(f)' ELSE InPlace(f)'
    BY <2>1, FileFrame DEF InstallInv, FilesInv, FileInv, Anywhere
  <2>3. opc = "rollback_cleanup" => IF f < ofile THEN dirs'[f] = first'[f] ELSE Restored(f)'
    BY <2>1, FileFrame DEF InstallInv, FilesInv, FileInv, Anywhere, Same
  <2> QED
    BY <1>3, <2>1, <2>2, <2>3, CleanupGoes, SMTT(30) DEF FileInv, AtFile, Behind, Ahead, Anywhere, Applying,
      RollingBack, Files, Bounds, TypeOK
<1>4. \A f \in Files : f = ofile => /\ DirsTyped' /\ MutTyped' /\ FileInv(f)'
        /\ IF opc = "cleanup" THEN \A d \in kept'[f] : d \in kept[f] \/ d.target = "new" ELSE KeepsOld(f)
  BY CleanupFile
<1>5. ResultsTrue'
  BY CleanupGoes DEF InstallInv, ResultsTrue
<1>6. OldFiles'
  <2>1. CASE opc = "cleanup"
    <3>1. OldReplaced
      BY <2>1 DEF InstallInv, OldFiles
    <3>2. OldReplaced'
      BY <1>3, <1>4, <2>1, <3>1, CleanupGoes DEF OldReplaced, Same, TypeOK
    <3> QED
      BY <2>1, <3>2, CleanupGoes DEF OldFiles
  <2>2. CASE opc = "rollback_cleanup"
    <3>1. \A f \in Files : KeepsOld(f)
      BY <1>3, <1>4, <2>2 DEF Same, KeepsOld
    <3> QED
      BY <2>2, <3>1, CleanupGoes, OldFilesStep
  <2> QED
    BY <2>1, <2>2, CleanupGoes
<1>7. InstallHonest'
  BY CleanupGoes DEF InstallInv, InstallHonest, CallAt
<1> QED
  BY <1>1, <1>2, <1>3, <1>4, <1>5, <1>6, <1>7, TypeParts DEF InstallInv, FilesInv, Files, TypeOK

LEMMA UnchangedKeeps ==
  ASSUME Bounds, TypeOK, InstallInv, Unchanged
  PROVE  TypeOK' /\ InstallInv'
<1>1. TypeOK'
  <2>1. Targets \in [Files -> TargetStates]
    BY DEF TypeOK, Targets, Entries
  <2>2. completed' \in [InstallRequests -> [kind : {"none", "success", "rolled_back"},
                                            facts : [Files -> TargetStates]]]
    BY <2>1 DEF TypeOK, Returns, Raises, Unchanged
  <2>3. /\ UNCHANGED <<ofile, asked, first, dirs, kept, had, mut, registry, seen>>
        /\ opc' = "answered" /\ told' \in {"success", "rolled_back", "refused", "partial"}
        /\ UNCHANGED oused \/ Fault
    BY DEF Unchanged, Returns, Raises, Answers
  <2> QED
    BY <2>2, <2>3 DEF TypeOK, Fault, Bounds
<1>2. CallAt'
  BY DEF InstallInv, CallAt, Unchanged, RegistryUnchanged, Returns, Raises, Fault, Answers
<1>3. ASSUME NEW f \in Files PROVE FileInv(f)'
  <2>1. Same(f)
    BY DEF Same, Unchanged, RegistryUnchanged, Returns, Raises, Fault, Answers
  <2> QED
    BY <1>3, <2>1, FileFrame DEF InstallInv, FilesInv, FileInv, AtFile, Behind, Ahead, Anywhere,
      Applying, RollingBack, Unchanged, RegistryUnchanged, Returns, Raises, Fault, Answers
<1>4. FilesInv'
  BY <1>3 DEF FilesInv, Files
<1>5. ResultsTrue'
  <2>1. \A f \in Files : Targets[f] = "new"
    BY DEF InstallInv, FilesInv, FileInv, Anywhere, Final, Idle, Was, Targets, Untouched, Unchanged
  <2> QED
    BY <2>1 DEF InstallInv, CallAt, ResultsTrue, TypeOK, Returns, Raises, Unchanged
<1>6. OldFiles'
  BY DEF InstallInv, OldFiles, OldHeld, OldReplaced, Was, Unchanged, RegistryUnchanged, Returns,
    Raises, Fault, Answers
<1>7. InstallHonest'
  BY DEF InstallInv, InstallHonest, CallAt, FilesInv, FileInv, Anywhere, Final, Idle, Was, Untouched,
    Residue, Targets, TypeOK, Coherent, Unchanged, RegistryUnchanged, Returns, Raises, Fault, Answers
<1> QED
  BY <1>1, <1>2, <1>4, <1>5, <1>6, <1>7 DEF InstallInv

LEMMA StartApplyingKeeps ==
  ASSUME Bounds, TypeOK, InstallInv, StartApplying
  PROVE  TypeOK' /\ InstallInv'
<1>1. TypeOK'
  BY SMTT(30) DEF TypeOK, Bounds, Files, StartApplying, quiet, RegistryUnchanged, Goes, Breaks, Fault
<1>2. CallAt'
  BY DEF InstallInv, CallAt, Was, TypeOK, StartApplying, quiet, RegistryUnchanged, Goes, Breaks, Fault
<1>3. ASSUME NEW f \in Files PROVE FileInv(f)'
  <2>1. Same(f)
    BY DEF Same, StartApplying, quiet, RegistryUnchanged, Goes, Breaks, Fault
  <2> QED
    BY <1>3, <2>1, FileFrame, FileOrder DEF InstallInv, CallAt, Files, Bounds, TypeOK, FilesInv,
      FileInv, AtFile, Behind, Ahead, Anywhere, Applying, RollingBack, StartApplying, quiet,
      RegistryUnchanged, Goes, Breaks, Fault
<1>4. FilesInv'
  BY <1>3 DEF FilesInv, Files
<1>5. ResultsTrue'
  BY DEF InstallInv, ResultsTrue, StartApplying, quiet, RegistryUnchanged, Goes, Breaks, Fault
<1>6. OldFiles'
  BY DEF InstallInv, OldFiles, OldHeld, OldReplaced, Was, StartApplying, quiet, RegistryUnchanged,
    Goes, Breaks, Fault
<1>7. InstallHonest'
  BY DEF InstallInv, InstallHonest, CallAt, StartApplying, quiet, RegistryUnchanged, Goes, Breaks,
    Fault
<1> QED
  BY <1>1, <1>2, <1>4, <1>5, <1>6, <1>7 DEF InstallInv

LEMMA VerifyAllKeeps ==
  ASSUME Bounds, TypeOK, InstallInv, VerifyAll
  PROVE  TypeOK' /\ InstallInv'
<1>1. TypeOK'
  BY SMTT(30) DEF TypeOK, Bounds, Files, VerifyAll, quiet, RegistryUnchanged, Goes, Breaks, Fault
<1>2. CallAt'
  BY DEF InstallInv, CallAt, Was, TypeOK, VerifyAll, quiet, RegistryUnchanged, Goes, Breaks, Fault
<1>3. ASSUME NEW f \in Files PROVE FileInv(f)'
  <2>1. Same(f)
    BY DEF Same, VerifyAll, quiet, RegistryUnchanged, Goes, Breaks, Fault
  <2> QED
    BY <1>3, <2>1, FileFrame, FileOrder DEF InstallInv, CallAt, Files, Bounds, TypeOK, FilesInv,
      FileInv, AtFile, Behind, Ahead, Anywhere, Applying, RollingBack, VerifyAll, quiet,
      RegistryUnchanged, Goes, Breaks, Fault
<1>4. FilesInv'
  BY <1>3 DEF FilesInv, Files
<1>5. ResultsTrue'
  BY DEF InstallInv, ResultsTrue, VerifyAll, quiet, RegistryUnchanged, Goes, Breaks, Fault
<1>6. OldFiles'
  BY DEF InstallInv, OldFiles, OldHeld, OldReplaced, CallAt, Was, Entries, TypeOK, FilesInv, FileInv,
    AtFile, Coherent, Anywhere, Restored, InPlace, Final, Idle, At, Named, Untouched, VerifyAll, quiet,
    RegistryUnchanged, Goes, Breaks, Fault
<1>7. InstallHonest'
  BY DEF InstallInv, InstallHonest, CallAt, VerifyAll, quiet, RegistryUnchanged, Goes, Breaks, Fault
<1> QED
  BY <1>1, <1>2, <1>4, <1>5, <1>6, <1>7 DEF InstallInv

LEMMA FailedKeeps ==
  ASSUME Bounds, TypeOK, InstallInv, Failed
  PROVE  TypeOK' /\ InstallInv'
<1>1. TypeOK'
  BY DEF TypeOK, Bounds, Files, Failed, NothingStarted, Raises, Goes, Answers
<1>2. CallAt'
  BY DEF InstallInv, CallAt, Was, TypeOK, Failed, NothingStarted, Raises, Goes, Answers
<1>3. ASSUME NEW f \in Files PROVE FileInv(f)'
  <2>1. Same(f)
    BY DEF Same, Failed, NothingStarted, Raises, Goes, Answers
  <2> QED
    BY <1>3, <2>1, FileFrame DEF InstallInv, Files, Bounds, TypeOK, FilesInv, FileInv, AtFile, Behind,
      Ahead, Anywhere, Applying, RollingBack, Failed, NothingStarted, Raises, Goes, Answers
<1>4. FilesInv'
  BY <1>3 DEF FilesInv, Files
<1>5. ResultsTrue'
  BY DEF InstallInv, ResultsTrue, Failed, NothingStarted, Raises, Goes, Answers
<1>6. OldFiles'
  BY DEF InstallInv, OldFiles, OldHeld, OldReplaced, Was, Failed, NothingStarted, Raises, Goes, Answers
<1>7. InstallHonest'
  BY DEF InstallInv, InstallHonest, CallAt, FilesInv, FileInv, Anywhere, Final, Idle, Was, Untouched,
    Residue, Targets, TypeOK, Coherent, Failed, NothingStarted, Raises, Goes, Answers
<1> QED
  BY <1>1, <1>2, <1>4, <1>5, <1>6, <1>7 DEF InstallInv

LEMMA FinishKeeps ==
  ASSUME Bounds, TypeOK, InstallInv, Finish
  PROVE  TypeOK' /\ InstallInv'
<1>1. TypeOK'
  <2>1. Targets \in [Files -> TargetStates]
    BY DEF TypeOK, Targets, Entries
  <2>2. completed' \in [InstallRequests -> [kind : {"none", "success", "rolled_back"},
                                            facts : [Files -> TargetStates]]]
    BY <2>1 DEF TypeOK, Returns, Raises, Finish
  <2>3. /\ UNCHANGED <<ofile, asked, first, dirs, kept, had, mut, registry, seen>>
        /\ opc' = "answered" /\ told' \in {"success", "rolled_back", "refused", "partial"}
        /\ UNCHANGED oused \/ Fault
    BY DEF Finish, Returns, Raises, Answers
  <2> QED
    BY <2>2, <2>3 DEF TypeOK, Fault, Bounds
<1>2. CallAt'
  BY DEF InstallInv, CallAt, Finish, RegistryUnchanged, Returns, Raises, Fault, Answers
<1>3. ASSUME NEW f \in Files PROVE FileInv(f)'
  <2>1. Same(f)
    BY DEF Same, Finish, RegistryUnchanged, Returns, Raises, Fault, Answers
  <2> QED
    BY <1>3, <2>1, FileFrame DEF InstallInv, FilesInv, FileInv, AtFile, Behind, Ahead, Anywhere,
      Applying, RollingBack, Finish, RegistryUnchanged, Returns, Raises, Fault, Answers
<1>4. FilesInv'
  BY <1>3 DEF FilesInv, Files
<1>5. ResultsTrue'
  <2>1. \A f \in Files : Targets[f] = "new"
    BY DEF InstallInv, FilesInv, FileInv, Anywhere, Final, Idle, Was, Targets, Untouched, Finish
  <2> QED
    BY <2>1 DEF InstallInv, CallAt, ResultsTrue, TypeOK, Returns, Raises, Finish
<1>6. OldFiles'
  BY DEF InstallInv, OldFiles, OldHeld, OldReplaced, Was, Finish, RegistryUnchanged, Returns, Raises,
    Fault, Answers
<1>7. InstallHonest'
  BY DEF InstallInv, InstallHonest, CallAt, FilesInv, FileInv, Anywhere, Final, Idle, Was, Untouched,
    Residue, Targets, TypeOK, Coherent, Finish, RegistryUnchanged, Returns, Raises, Fault, Answers
<1> QED
  BY <1>1, <1>2, <1>4, <1>5, <1>6, <1>7 DEF InstallInv

LEMMA RollbackFinishKeeps ==
  ASSUME Bounds, TypeOK, InstallInv, RollbackFinish
  PROVE  TypeOK' /\ InstallInv'
<1>1. TypeOK'
  <2>1. Targets \in [Files -> TargetStates]
    BY DEF TypeOK, Targets, Entries
  <2>2. completed' \in [InstallRequests -> [kind : {"none", "success", "rolled_back"},
                                            facts : [Files -> TargetStates]]]
    BY <2>1 DEF TypeOK, Returns, Raises, RollbackFinish
  <2>3. /\ UNCHANGED <<ofile, asked, first, dirs, kept, had, mut, registry, seen>>
        /\ opc' = "answered" /\ told' \in {"success", "rolled_back", "refused", "partial"}
        /\ UNCHANGED oused \/ Fault
    BY DEF RollbackFinish, Returns, Raises, Answers
  <2> QED
    BY <2>2, <2>3 DEF TypeOK, Fault, Bounds
<1>2. CallAt'
  BY DEF InstallInv, CallAt, RollbackFinish, Returns, Fault, Raises, Answers
<1>3. ASSUME NEW f \in Files PROVE FileInv(f)'
  <2>1. Same(f)
    BY DEF Same, RollbackFinish, Returns, Fault, Raises, Answers
  <2> QED
    BY <1>3, <2>1, FileFrame DEF InstallInv, FilesInv, FileInv, AtFile, Behind, Ahead, Anywhere,
      Applying, RollingBack, RollbackFinish, Returns, Fault, Raises, Answers
<1>4. FilesInv'
  BY <1>3 DEF FilesInv, Files
<1>5. ResultsTrue'
  BY DEF InstallInv, CallAt, ResultsTrue, TypeOK, Returns, Raises, RollbackFinish
<1>6. OldFiles'
  BY DEF InstallInv, OldFiles, OldHeld, OldReplaced, Was, RollbackFinish, Returns, Fault, Raises,
    Answers
<1>7. InstallHonest'
  BY DEF InstallInv, InstallHonest, CallAt, FilesInv, FileInv, Anywhere, Final, Idle, Was, Untouched,
    Residue, Targets, TypeOK, Coherent, RollbackFinish, Returns, Fault, Raises, Answers
<1> QED
  BY <1>1, <1>2, <1>4, <1>5, <1>6, <1>7 DEF InstallInv

-----------------------------------------------------------------------------
(***************************************************************************)
(* The beginning and the end of a request, and of the process.             *)
(***************************************************************************)
\* A call that has ended, or not begun, asks nothing of the files.
LEMMA NoCall ==
  ASSUME opc' \in {"idle", "answered"}
  PROVE  FilesInv'
BY DEF FilesInv, FileInv, AtFile, Behind, Ahead, Anywhere, Applying, RollingBack

\* An entry without the other names is its target alone.
LEMMA Residueless ==
  ASSUME TypeOK, ~Residue
  PROVE  \A f \in Files : dirs[f] = Untouched(dirs[f].target)
BY DEF TypeOK, Residue, Entries, Untouched

LEMMA ReplayKeeps ==
  ASSUME Bounds, TypeOK, InstallInv, NEW r \in InstallRequests, Replay(r)
  PROVE  TypeOK' /\ InstallInv'
<1>1. /\ opc' = "answered" /\ asked' = r /\ first' = dirs
      /\ UNCHANGED <<ofile, completed, dirs, kept, had, mut, registry, seen>> /\ (UNCHANGED oused \/ Fault)
  BY DEF Replay, Raises, Answers
<1>2. \/ told' \in {"refused", "partial"}
      \/ told' = completed[r].kind /\ CachedSuccess(r) /\ told' \in {"success", "rolled_back"}
  BY DEF Replay, Raises, Answers, TypeOK
<1>3. TypeOK'
  BY <1>1, <1>2 DEF TypeOK, Fault, Bounds
<1>4. CallAt' /\ ResultsTrue' /\ FilesInv'
  BY <1>1, NoCall DEF InstallInv, CallAt, ResultsTrue
<1>5. OldFiles'
  BY <1>1 DEF InstallInv, OldFiles, OldHeld, OldReplaced
<1>6. InstallHonest'
  <2>1. CASE told' \in {"refused", "partial"}
    BY <1>1, <2>1 DEF InstallHonest
  <2>2. CASE told' = completed[r].kind /\ CachedSuccess(r) /\ told' \in {"success", "rolled_back"}
    <3>1. Residue' = Residue /\ Targets' = Targets
      BY <1>1 DEF Residue, Targets
    <3>2. ~Residue /\ Targets = completed[r].facts /\ completed'[asked'] = completed[r]
      BY <1>1, <2>2 DEF CachedSuccess
    <3>3. told' = "success" => \A f \in Files : dirs'[f] = Untouched("new") /\ first'[f].target = "new"
      <4> SUFFICES ASSUME told' = "success", NEW f \in Files
                   PROVE  dirs'[f] = Untouched("new") /\ first'[f].target = "new"
        OBVIOUS
      <4>1. Targets[f] = "new"
        BY <2>2, <3>2 DEF InstallInv, ResultsTrue
      <4>2. dirs[f] = Untouched("new")
        BY <3>2, <4>1, Residueless DEF Targets
      <4> QED
        BY <1>1, <4>2 DEF Untouched
    <3> QED
      BY <1>1, <3>1, <3>2, <3>3 DEF InstallHonest
  <2> QED
    BY <1>2, <2>1, <2>2
<1> QED
  BY <1>3, <1>4, <1>5, <1>6 DEF InstallInv

LEMMA BeginKeeps ==
  ASSUME Bounds, TypeOK, InstallInv, NEW r \in InstallRequests, Begin(r)
  PROVE  TypeOK' /\ InstallInv'
<1>1. /\ opc = "idle" /\ asked' = r /\ first' = dirs /\ mut' = [f \in Files |-> NoMutation] /\ seen' = registry
      /\ UNCHANGED <<completed, dirs, kept, had, registry>> /\ (UNCHANGED oused \/ Fault)
  BY DEF Begin, Raises
<1>2. \/ opc' = "answered" /\ told' \in {"refused", "partial"} /\ ofile' = ofile
      \/ /\ ~Residue /\ opc' \in {"unchanged", "ready"} /\ told' = told /\ ofile' = 1
         /\ opc' = "unchanged" => \A f \in Files : Targets[f] = "new"
  BY DEF Begin, Raises, Answers, Goes
<1>3. mut' \in [Files -> Mutations] /\ 1 \in Files
  BY <1>1 DEF NoMutation, Mutations, Stages, Files, Bounds
<1>4. TypeOK'
  BY <1>1, <1>2, <1>3 DEF TypeOK, Fault, Bounds
<1>5. ResultsTrue' /\ InstallHonest'
  BY <1>1, <1>2 DEF InstallInv, ResultsTrue, InstallHonest, CallAt
<1>6. CASE opc' = "answered"
  <2>1. CallAt' /\ FilesInv'
    BY <1>1, <1>6, NoCall DEF CallAt
  <2>2. OldFiles'
    BY <1>1, <1>6 DEF InstallInv, OldFiles, OldHeld, OldReplaced
  <2> QED
    BY <1>4, <1>5, <2>1, <2>2 DEF InstallInv
<1>7. CASE /\ ~Residue /\ opc' \in {"unchanged", "ready"} /\ told' = told
           /\ opc' = "unchanged" => \A f \in Files : Targets[f] = "new"
  <2>1. \A f \in Files : first'[f] = Untouched(dirs[f].target) /\ Was(f)' = dirs[f].target
    BY <1>1, <1>7, Residueless DEF Was
  <2>2. CallAt'
    BY <1>1, <1>7, <2>1 DEF InstallInv, CallAt
  <2>3. FilesInv'
    <3> SUFFICES ASSUME NEW f \in Files PROVE FileInv(f)'
      BY DEF FilesInv, Files
    <3>1. Idle(f)'
      BY <1>1 DEF Idle, NoMutation
    <3>2. opc' = "unchanged" => Was(f)' = "new"
      BY <1>7, <2>1 DEF Targets
    <3> QED
      BY <1>7, <3>1, <3>2 DEF FileInv, AtFile, Behind, Ahead, Anywhere, Applying, RollingBack
  <2>4. OldFiles'
    <3>1. CASE OldHeld
      <4>1. \A f \in had : Was(f)' = "old"
        BY <2>1, <3>1, <1>7 DEF OldHeld, TypeOK, Residue
      <4> QED
        BY <1>1, <1>7, <3>1, <4>1 DEF OldFiles, OldHeld
    <3>2. CASE OldReplaced
      <4>1. \A f \in had : Was(f)' = "new"
        BY <2>1, <3>2 DEF OldReplaced, TypeOK
      <4> QED
        BY <1>1, <1>7, <3>2, <4>1 DEF OldFiles, OldReplaced
    <3> QED
      BY <3>1, <3>2 DEF InstallInv, OldFiles
  <2> QED
    BY <1>4, <1>5, <2>2, <2>3, <2>4 DEF InstallInv
<1> QED
  BY <1>2, <1>6, <1>7

LEMMA ReturnKeeps ==
  ASSUME Bounds, TypeOK, InstallInv, Return
  PROVE  TypeOK' /\ InstallInv'
<1>1. mut' \in [Files -> Mutations] /\ 1 \in Files
  BY DEF Return, NoMutation, Mutations, Stages, Files, Bounds
<1>2. TypeOK'
  BY <1>1 DEF Return, TypeOK, Bounds
<1>3. CallAt' /\ ResultsTrue' /\ FilesInv' /\ InstallHonest'
  BY NoCall DEF Return, InstallInv, CallAt, ResultsTrue, InstallHonest
<1>4. OldFiles'
  BY DEF Return, InstallInv, OldFiles, OldHeld, OldReplaced
<1> QED
  BY <1>2, <1>3, <1>4 DEF InstallInv

\* Nothing but the registry is somebody else's.
LEMMA InstallInvFrame ==
  ASSUME TypeOK, InstallInv, UNCHANGED <<opc, ofile, asked, dirs, kept, had, first, mut, completed, told>>
  PROVE  InstallInv'
<1>1. ASSUME NEW f \in Files PROVE FileInv(f)'
  BY FileFrame DEF Same, InstallInv, FilesInv, FileInv, AtFile, Behind, Ahead, Anywhere, At, Named, Was
<1>2. FilesInv'
  BY <1>1 DEF FilesInv, Files
<1>3. CallAt' /\ ResultsTrue' /\ OldFiles'
  BY DEF InstallInv, CallAt, ResultsTrue, OldFiles, OldHeld, OldReplaced, Was
<1>4. InstallHonest'
  BY DEF InstallInv, InstallHonest, Residue, Targets
<1> QED
  BY <1>2, <1>3, <1>4 DEF InstallInv

LEMMA EditRegistryKeeps ==
  ASSUME Bounds, TypeOK, InstallInv, EditRegistry
  PROVE  TypeOK' /\ InstallInv'
<1>1. TypeOK'
  BY DEF EditRegistry, TypeOK, Bounds
<1> QED
  BY <1>1, InstallInvFrame DEF EditRegistry

LEMMA CrashKeeps ==
  ASSUME Bounds, TypeOK, InstallInv, Crash
  PROVE  TypeOK' /\ InstallInv'
<1>1. mut' \in [Files -> Mutations] /\ 1 \in Files
  BY DEF Crash, NoMutation, Mutations, Stages, Files, Bounds
<1>2. completed' = [r \in InstallRequests |-> NoResult] /\ NoResult.kind = "none"
      /\ NoResult \in [kind : {"none", "success", "rolled_back"}, facts : [Files -> TargetStates]]
  BY DEF Crash, NoResult, TargetStates
<1>3. DirsTyped' /\ \A f \in Files : kept'[f] \subseteq kept[f]
  BY DEF Crash, DirsTyped, TypeOK
<1>4. TypeOK'
  <2>1. oused' \in [crashes : 0..MaxInstallCrashes, faults : 0..MaxInstallFaults]
    BY DEF Crash, TypeOK, Bounds
  <2> QED
    BY <1>1, <1>2, <1>3, <2>1 DEF Crash, TypeOK, DirsTyped, Bounds
<1>5. CallAt' /\ ResultsTrue' /\ FilesInv' /\ InstallHonest'
  BY <1>2, NoCall DEF Crash, CallAt, ResultsTrue, InstallHonest
<1>6. OldFiles'
  BY <1>3 DEF Crash, InstallInv, OldFiles, OldHeld, OldReplaced, TypeOK
<1> QED
  BY <1>4, <1>5, <1>6 DEF InstallInv

-----------------------------------------------------------------------------
LEMMA InstallInit ==
  ASSUME Bounds, Init
  PROVE  TypeOK /\ InstallInv
<1>1. PICK t \in [Files -> {"none", "old", "new"}] :
        /\ dirs = [f \in Files |-> Untouched(t[f])] /\ kept = [f \in Files |-> {Untouched(t[f])}]
        /\ had = {f \in Files : t[f] = "old"}
  BY DEF Init
<1>2. \A f \in Files : Untouched(t[f]) \in Entries
  BY DEF Untouched, Entries, TargetStates
<1>3. mut \in [Files -> Mutations] /\ 1 \in Files
  BY DEF Init, NoMutation, Mutations, Stages, Files, Bounds
<1>4. completed = [r \in InstallRequests |-> NoResult] /\ NoResult.kind = "none"
      /\ NoResult \in [kind : {"none", "success", "rolled_back"}, facts : [Files -> TargetStates]]
  BY DEF Init, NoResult, TargetStates
<1>5. TypeOK
  <2>1. dirs \in [Files -> Entries] /\ kept \in [Files -> SUBSET Entries] /\ \A f \in Files : dirs[f] \in kept[f]
    BY <1>1, <1>2
  <2> QED
    BY <1>1, <1>3, <1>4, <2>1 DEF Init, TypeOK, Bounds
<1>6. CallAt /\ ResultsTrue /\ InstallHonest
  BY <1>4 DEF Init, CallAt, ResultsTrue, InstallHonest
<1>7. FilesInv
  BY DEF Init, FilesInv, FileInv, AtFile, Behind, Ahead, Anywhere, Applying, RollingBack
<1>8. OldFiles
  BY <1>1 DEF Init, OldFiles, OldHeld, Untouched
<1> QED
  BY <1>5, <1>6, <1>7, <1>8 DEF InstallInv

LEMMA InstallInvariant == ASSUME Bounds PROVE Spec => [](TypeOK /\ InstallInv)
<1>1. Init => TypeOK /\ InstallInv
  BY InstallInit
<1>2. (TypeOK /\ InstallInv) /\ [Next]_openclawVars => (TypeOK /\ InstallInv)'
  <2> SUFFICES ASSUME TypeOK, InstallInv, [Next]_openclawVars
               PROVE  TypeOK' /\ InstallInv'
    OBVIOUS
  <2>1. CASE UNCHANGED openclawVars
    <3>1. TypeOK'
      BY <2>1 DEF openclawVars, TypeOK
    <3> QED
      BY <2>1, <3>1, InstallInvFrame DEF openclawVars
  <2> QED
    BY <2>1, ReplayKeeps, BeginKeeps, UnchangedKeeps, StartApplyingKeeps, CreateTemporaryKeeps,
      WriteTemporaryKeeps, MoveBackupKeeps, HoldBackupKeeps, PublishKeeps, ConfirmPublishedKeeps,
      VerifyAllKeeps, FailedKeeps, RollbackPublishedKeeps, RollbackSyncKeeps, RollbackRestoreKeeps,
      RollbackHoldKeeps, CleanupKeeps, FinishKeeps, RollbackFinishKeeps, ReturnKeeps, EditRegistryKeeps,
      CrashKeeps DEF Next
<1> QED
  BY <1>1, <1>2, PTL DEF Spec

\* An openclaw.install that reports success has put every packaged file in place,
\* durably and without a leftover; one that reports a rollback or refuses has left
\* the files as it found them; and the bytes it replaces are under their name or
\* their backup's until every one of them is durably replaced (openclaw.install,
\* _apply_one, _rollback, _cleanup). Whatever fails, crashes or loses power, for any
\* number of files and requests.
THEOREM InstallAlwaysSafe == ASSUME Bounds PROVE Spec => []InstallSafe
<1>1. TypeOK /\ InstallInv => InstallSafe
  BY DEF InstallInv, InstallSafe, OldFiles, OldHeld, OldReplaced, OldBytesKept
<1> QED
  BY <1>1, InstallInvariant, PTL

-----------------------------------------------------------------------------
(* The installer in the composition *)

\* A behaviour of the composition is, seen through the variables of the
\* installer, a behaviour of OpenClawInstall.
LEMMA OuterRunsInstall == OuterSpec => Spec
<1>1. OuterInit => Init
  BY DEF OuterInit
<1>2. [OuterNext]_outerVars => [Next]_openclawVars
  BY DEF outerVars, OuterNext, MachineOnly, ProviderOnly, OpenClawOnly
<1> QED
  BY <1>1, <1>2, PTL DEF OuterSpec, Spec

\* The answers of openclaw.install are true of the disk and no file is lost, in the
\* composition (openclaw.install).
THEOREM OuterInstallSafe == OuterSpec => []InstallSafe
<1>1. Bounds
  BY OuterAssumption DEF Bounds
<1> QED
  BY <1>1, InstallAlwaysSafe, OuterRunsInstall, PTL

-----------------------------------------------------------------------------
(* The provider's client in the composition *)

\* A behaviour of the composition is, seen through the variables of the
\* provider's client, a behaviour of LocalComfyUI.
LEMMA OuterRunsProvider == OuterSpec => Provider!Spec
<1>1. OuterInit => Provider!Init
  BY DEF OuterInit
<1>2. [OuterNext]_outerVars => [Provider!Next]_(Provider!providerVars)
  <2> SUFFICES ASSUME [OuterNext]_outerVars
               PROVE  Provider!Next \/ UNCHANGED Provider!providerVars
    OBVIOUS
  <2>1. CASE ProviderOnly /\ Provider!Next
    BY <2>1
  <2>2. CASE MachineOnly \/ OpenClawOnly \/ UNCHANGED outerVars
    BY <2>2 DEF outerVars, MachineOnly, OpenClawOnly, providerVars, Provider!providerVars,
      Provider!dictionaries, Provider!objects, Provider!ages, Provider!world
  <2> QED
    BY <2>1, <2>2 DEF OuterNext
<1> QED
  BY <1>1, <1>2, PTL DEF OuterSpec, Provider!Spec

\* Places are never oversold, the dictionaries of the provider's client agree, a busy
\* state has exactly one caller and an image is handed out once, in the composition
\* (prepare, submit, poll, retrieve, release and _purge_expired).
THEOREM OuterOwnershipSafe == OuterSpec => []OwnershipSafe
<1>1. Provider!Bounds
  BY OuterAssumption DEF Provider!Bounds, Provider!Nobody, IsFiniteSet, Provider!IsFiniteSet
<1> QED
  BY <1>1, Provider!OwnershipAlwaysSafe, OuterRunsProvider, PTL DEF OwnershipSafe
=============================================================================
