------------------------ MODULE RootfsInstallProofs ------------------------
(***************************************************************************)
(* Proofs about RootfsInstall for any number of install commands.          *)
(***************************************************************************)
EXTENDS RootfsInstall, TLAPS

-----------------------------------------------------------------------------
(* The inductive invariant. *)

\* Where a command has a complete staging directory.
Ready == {"look", "moveAway", "activate", "restore", "putBack"}

\* Where its own directory may have been put in place.
Placed == {"cleanup", "ok", "cleanupFailed", "interrupted"}

\* A staging directory is what its position says.
StagingInv == \A i \in Installer :
  /\ pc[i] \in {"extract", "validate", "manifest"} \cup Ready => staging[i].by = i
  /\ pc[i] = "validate" => "rootfs" \in staging[i].parts
  /\ pc[i] = "manifest" => {"rootfs", "shell"} \subseteq staging[i].parts
  /\ pc[i] \in Ready => staging[i].parts = Part

\* A directory in place or in a backup is the old one, or one of a command that has
\* come far enough; and no directory has no parts.
Sound(d, at) ==
  /\ d.by \in Installer => at[d.by] \in Placed
  /\ ~IsDir(d) => d = NoDir

PlaceInv == Sound(final, pc) /\ \A i \in Installer : Sound(backup[i], pc)

\* What a command built is complete in place, and in the backup of a command that
\* may yet put it back.
Complete(d) == d.by \in Installer => d.parts = Part
Undecided   == {"activate", "restore", "putBack"}

CompleteInv ==
  /\ Complete(final)
  /\ \A i \in Installer : pc[i] \in Undecided => Complete(backup[i])

\* A command has nothing in its backup until it moves a directory there, and
\* puts back only what it has.
BackupInv == \A i \in Installer :
  /\ pc[i] \in {"exists", "compare", "mkdtemp", "extract", "validate",
                "manifest", "look", "moveAway"} => backup[i] = NoDir
  /\ pc[i] = "putBack" => IsDir(backup[i])

\* While the name is free although it was taken or a command has taken it, the
\* directory is in the backup of one that has yet to put another there or to
\* put it back.
HolderInv ==
  /\ \A i \in Installer : pc[i] # "interrupted"
  /\ IsDir(before.dir) \/ \E i \in Installer : pc[i] \in {"cleanup", "ok"}
  /\ ~IsDir(final)
  => \E i \in Installer : /\ pc[i] \in {"activate", "restore", "putBack"}
                          /\ IsDir(backup[i])

\* The old environment untouched, or a whole new one.
Good(d) == d = before.dir \/ (d.by \in Installer /\ d.parts = Part)

\* One is in place or in a backup that is not being removed.
GoodInv == IsDir(before.dir) =>
  Good(final) \/ \E i \in Installer : pc[i] # "cleanup" /\ Good(backup[i])

IInv == /\ TypeOK
        /\ StagingInv /\ PlaceInv /\ CompleteInv /\ BackupInv
        /\ HolderInv /\ GoodInv

LEMMA Initially == Init => IInv
<1> SUFFICES ASSUME Init PROVE IInv
  OBVIOUS
<1>1. TypeOK
  BY DEF Init, TypeOK, Dir, NoDir, Part, Control
<1>2. final \in Dir /\ Sound(final, pc) /\ Sound(NoDir, pc) /\ before.dir = final
  BY InstallerAssumption DEF Init, Sound, Dir, NoDir, IsDir, Part
<1>3. StagingInv /\ PlaceInv /\ BackupInv
  BY <1>2 DEF Init, StagingInv, PlaceInv, BackupInv, Ready
<1>4. CompleteInv /\ HolderInv /\ GoodInv
  BY <1>2, InstallerAssumption
  DEF Init, CompleteInv, Complete, Undecided, HolderInv, GoodInv, Good, NoDir
<1>5. QED
  BY <1>1, <1>3, <1>4 DEF IInv

-----------------------------------------------------------------------------
(* What a step of one command leaves alone. *)

Step(i) == \/ Exists(i) \/ Compare(i) \/ MakeStaging(i) \/ Extract(i)
           \/ ValidateRootfs(i) \/ WriteManifest(i) \/ Look(i) \/ MoveAway(i)
           \/ Activate(i) \/ Restore(i) \/ PutBack(i) \/ Cleanup(i) \/ Interrupt(i)

\* The other commands, their staging directories and their backups.
Others(i) == \A j \in Installer \ {i} :
  pc'[j] = pc[j] /\ staging'[j] = staging[j] /\ backup'[j] = backup[j]

LEMMA Shapes ==
  ASSUME TypeOK
  PROVE  /\ pc \in [Installer -> Control]
         /\ staging \in [Installer -> Dir] /\ backup \in [Installer -> Dir]
         /\ final \in Dir /\ NoDir \in Dir /\ before.dir \in Dir
  BY DEF TypeOK, Dir, NoDir

LEMMA StepOthers ==
  ASSUME TypeOK, NEW i \in Installer, Step(i)
  PROVE  Others(i) /\ Given
  BY Shapes DEF Others, Step, Exists, Compare, MakeStaging, Extract,
     ValidateRootfs, WriteManifest, Look, MoveAway, Activate, Restore, PutBack,
     Cleanup, Interrupt, Raise, Goto, Given

LEMMA StepControl ==
  ASSUME TypeOK, NEW i \in Installer, Step(i)
  PROVE  pc' \in [Installer -> Control]
<1>1. \E l \in Control : pc' = [pc EXCEPT ![i] = l]
  BY DEF Step, Exists, Compare, MakeStaging, Extract,
     ValidateRootfs, WriteManifest, Look, MoveAway, Activate, Restore, PutBack,
     Cleanup, Interrupt, Raise, Goto, Control, Building, Swapping, Over
<1>2. QED
  BY <1>1, Shapes

LEMMA StepDirs ==
  ASSUME TypeOK, NEW i \in Installer, Step(i)
  PROVE  /\ staging' \in [Installer -> Dir] /\ backup' \in [Installer -> Dir]
         /\ final' \in Dir
<1>1. [by |-> i, parts |-> {}] \in Dir
  BY DEF Dir
<1>2. \A d \in Dir, p \in SUBSET Part :
        /\ [d EXCEPT !.parts = p] \in Dir
        /\ [d EXCEPT !.parts = @ \cup {"manifest"}] \in Dir
  BY DEF Dir, Part
<1>3. {"rootfs"} \in SUBSET Part /\ {"rootfs", "shell"} \in SUBSET Part
  BY DEF Part
<1>4. \E d \in Dir : staging' \in {staging, [staging EXCEPT ![i] = d]}
  BY <1>1, <1>2, <1>3, Shapes DEF Step, Exists, Compare, MakeStaging, Extract,
     ValidateRootfs, WriteManifest, Look, MoveAway, Activate, Restore, PutBack,
     Cleanup, Interrupt, Raise, Goto
<1>5. \E d \in Dir : backup' \in {backup, [backup EXCEPT ![i] = d]}
  <2>1. CASE Cleanup(i)
    <3>1. \A left \in SUBSET backup[i].parts :
            /\ [backup[i] EXCEPT !.parts = left] \in Dir
            /\ [backup EXCEPT ![i].parts = left]
                 = [backup EXCEPT ![i] = [backup[i] EXCEPT !.parts = left]]
      BY Shapes DEF Dir
    <3>2. QED
      BY <2>1, <3>1, Shapes DEF Cleanup
  <2>2. CASE ~Cleanup(i)
    BY <2>2, Shapes DEF Step, Exists, Compare, MakeStaging, Extract,
       ValidateRootfs, WriteManifest, Look, MoveAway, Activate, Restore, PutBack,
       Interrupt
  <2>3. QED
    BY <2>1, <2>2
<1>6. final' \in Dir
  BY Shapes DEF Step, Exists, Compare, MakeStaging, Extract,
     ValidateRootfs, WriteManifest, Look, MoveAway, Activate, Restore, PutBack,
     Cleanup, Interrupt
<1>7. QED
  BY <1>4, <1>5, <1>6, Shapes

LEMMA StepTypes ==
  ASSUME TypeOK, NEW i \in Installer, Step(i)
  PROVE  TypeOK'
<1>1. request' = request /\ before' = before
  BY StepOthers DEF Given
<1>2. QED
  BY <1>1, StepControl, StepDirs DEF TypeOK

-----------------------------------------------------------------------------
(* Building and swapping. *)

LEMMA StagingKept ==
  ASSUME IInv, NEW i \in Installer, Step(i)
  PROVE  StagingInv'
<1> DEFINE Held(l, d) ==
      /\ l \in {"extract", "validate", "manifest"} \cup Ready => d.by = i
      /\ l = "validate" => "rootfs" \in d.parts
      /\ l = "manifest" => {"rootfs", "shell"} \subseteq d.parts
      /\ l \in Ready => d.parts = Part
<1>1. Held(pc'[i], staging'[i])
  <2>1. pc \in [Installer -> Control] /\ staging \in [Installer -> Dir]
    BY Shapes DEF IInv
  <2>2. Held(pc[i], staging[i])
    BY DEF IInv, StagingInv
  <2>3. CASE MakeStaging(i)
    BY <2>1, <2>3 DEF MakeStaging, Goto, Ready
  <2>4. CASE Extract(i)
    BY <2>1, <2>2, <2>4 DEF Extract, Raise, Goto, Ready, Dir
  <2>5. CASE ValidateRootfs(i)
    BY <2>1, <2>2, <2>5 DEF ValidateRootfs, Raise, Goto, Ready
  <2>6. CASE WriteManifest(i)
    BY <2>1, <2>2, <2>6 DEF WriteManifest, Raise, Goto, Ready, Part, Dir
  <2>7. CASE Exists(i) \/ Compare(i)
    BY <2>1, <2>7 DEF Exists, Compare, Goto, Ready
  <2>8. CASE Look(i) \/ MoveAway(i)
    BY <2>1, <2>2, <2>8 DEF Look, MoveAway, Raise, Goto, Ready
  <2>9. CASE Activate(i) \/ Restore(i)
    BY <2>1, <2>2, <2>9 DEF Activate, Restore, Raise, Goto, Ready
  <2>10. CASE PutBack(i) \/ Cleanup(i) \/ Interrupt(i)
    BY <2>1, <2>10 DEF PutBack, Cleanup, Interrupt, Raise, Goto, Ready
  <2>11. QED
    BY <2>3, <2>4, <2>5, <2>6, <2>7, <2>8, <2>9, <2>10 DEF Step
<1>2. Others(i)
  BY StepOthers DEF IInv
<1>3. QED
  BY <1>1, <1>2 DEF Others, IInv, StagingInv

LEMMA BackupKept ==
  ASSUME IInv, NEW i \in Installer, Step(i)
  PROVE  BackupInv'
<1>1. pc \in [Installer -> Control] /\ backup \in [Installer -> Dir]
  BY Shapes DEF IInv
<1>2. /\ pc'[i] \in {"exists", "compare", "mkdtemp", "extract", "validate",
                     "manifest", "look", "moveAway"} => backup'[i] = NoDir
      /\ pc'[i] = "putBack" => IsDir(backup'[i])
  BY <1>1 DEF IInv, BackupInv, Step, Exists, Compare, MakeStaging, Extract,
     ValidateRootfs, WriteManifest, Look, MoveAway, Activate, Restore, PutBack,
     Cleanup, Interrupt, Raise, Goto
<1>3. Others(i)
  BY StepOthers DEF IInv
<1>4. QED
  BY <1>2, <1>3 DEF Others, IInv, BackupInv

\* A directory that is sound stays so: a command whose directory is in place
\* ends with it there.
LEMMA SoundStays ==
  ASSUME IInv, NEW i \in Installer, Step(i), NEW d \in Dir, Sound(d, pc)
  PROVE  Sound(d, pc')
<1>1. Others(i) /\ pc \in [Installer -> Control]
  BY StepOthers, Shapes DEF IInv
<1>2. pc[i] \in Placed => pc'[i] \in Placed
  BY <1>1 DEF Placed, Step, Exists, Compare, MakeStaging, Extract,
     ValidateRootfs, WriteManifest, Look, MoveAway, Activate, Restore, PutBack,
     Cleanup, Interrupt, Raise, Goto, Over
<1>3. QED
  BY <1>1, <1>2 DEF Sound, Others

\* Directories are moved about, a staging directory only by Activate, and a backup
\* loses parts only while it is removed.
LEMMA Moves ==
  ASSUME IInv, NEW i \in Installer, Step(i)
  PROVE  /\ \/ final' \in {final, NoDir}
            \/ final' = backup[i] /\ pc[i] = "putBack"
            \/ final' = staging[i] /\ pc[i] = "activate" /\ pc'[i] = "cleanup"
         /\ \/ backup'[i] \in {backup[i], NoDir, final}
            \/ /\ IsDir(backup[i]) /\ backup'[i].by = backup[i].by
               /\ pc[i] = "cleanup" /\ pc'[i] \in {"cleanup", "cleanupFailed"}
<1>1. pc \in [Installer -> Control] /\ backup \in [Installer -> Dir]
  BY Shapes DEF IInv
<1>2. CASE Cleanup(i)
  <2>1. final' = final /\ pc[i] = "cleanup"
    BY <1>2 DEF Cleanup
  <2>2. CASE backup' = [backup EXCEPT ![i] = NoDir]
    BY <1>1, <2>1, <2>2
  <2>3. CASE /\ IsDir(backup[i])
             /\ \E left \in SUBSET backup[i].parts :
                  backup' = [backup EXCEPT ![i].parts = left]
             /\ Goto(i, "cleanup") \/ Goto(i, "cleanupFailed")
    <3>1. backup'[i].by = backup[i].by
      BY <1>1, <2>3 DEF Dir
    <3>2. IsDir(backup[i]) /\ pc'[i] \in {"cleanup", "cleanupFailed"}
      BY <1>1, <2>3 DEF Goto
    <3>3. QED
      BY <2>1, <3>1, <3>2
  <2>4. QED
    BY <1>2, <2>2, <2>3 DEF Cleanup
<1>3. CASE ~Cleanup(i)
  BY <1>1, <1>3 DEF Step, Exists, Compare, MakeStaging, Extract,
     ValidateRootfs, WriteManifest, Look, MoveAway, Activate, Restore, PutBack,
     Interrupt, Goto
<1>4. QED
  BY <1>2, <1>3

LEMMA PlaceKept ==
  ASSUME IInv, NEW i \in Installer, Step(i)
  PROVE  PlaceInv'
<1>1. /\ backup \in [Installer -> Dir] /\ final \in Dir /\ NoDir \in Dir
      /\ Others(i)
  BY Shapes, StepOthers DEF IInv
<1>2. Sound(NoDir, pc)
  BY InstallerAssumption DEF Sound, NoDir, IsDir
<1>3. \A d \in {final, NoDir} \cup {backup[j] : j \in Installer} : Sound(d, pc')
  BY <1>1, <1>2, SoundStays DEF IInv, PlaceInv
<1>4. pc[i] = "activate" => staging[i].by = i
  BY DEF IInv, StagingInv, Ready
<1>5. pc[i] = "activate" /\ pc'[i] = "cleanup" => Sound(staging[i], pc')
  BY <1>4, InstallerAssumption DEF Sound, Placed, IsDir
<1>6. Sound(final', pc')
  BY <1>3, <1>5, Moves
<1>7. Sound(backup'[i], pc')
  BY <1>1, <1>3, Moves DEF Sound, IsDir
<1>8. \A j \in Installer \ {i} : Sound(backup'[j], pc')
  BY <1>1, <1>3 DEF Others
<1>9. QED
  BY <1>6, <1>7, <1>8 DEF PlaceInv

\* Only what is complete is moved into place.
LEMMA CompleteKept ==
  ASSUME IInv, NEW i \in Installer, Step(i)
  PROVE  CompleteInv'
<1>1. pc \in [Installer -> Control] /\ Others(i) /\ Complete(NoDir)
  BY Shapes, StepOthers, InstallerAssumption DEF IInv, Complete, NoDir
<1>2. Complete(final)
  BY DEF IInv, CompleteInv
<1>3. pc[i] = "activate" => Complete(staging[i])
  BY DEF IInv, StagingInv, Ready, Complete
<1>4. pc[i] = "putBack" => Complete(backup[i])
  BY DEF IInv, CompleteInv, Undecided
<1>5. Complete(final')
  BY <1>1, <1>2, <1>3, <1>4, Moves
<1>6. pc'[i] \in Undecided => pc[i] \in Undecided \cup {"look", "moveAway"}
  BY <1>1 DEF Undecided, Step, Exists, Compare, MakeStaging, Extract,
     ValidateRootfs, WriteManifest, Look, MoveAway, Activate, Restore, PutBack,
     Cleanup, Interrupt, Raise, Goto
<1>7. pc[i] \in Undecided \cup {"look", "moveAway"} => Complete(backup[i])
  BY <1>1 DEF IInv, CompleteInv, BackupInv, Undecided
<1>8. pc'[i] \in Undecided => Complete(backup'[i])
  BY <1>1, <1>2, <1>6, <1>7, Moves DEF Undecided
<1>9. QED
  BY <1>1, <1>2, <1>5, <1>8 DEF Others, IInv, CompleteInv

\* A good directory is only ever moved, by commands whose backup is empty, and not
\* into the place of another one; what a command gives up is no longer the only one.
LEMMA GoodKept ==
  ASSUME IInv, NEW i \in Installer, Step(i)
  PROVE  GoodInv'
<1> SUFFICES ASSUME IsDir(before.dir)
             PROVE  \/ Good(final')
                    \/ \E j \in Installer : pc'[j] # "cleanup" /\ Good(backup'[j])
  BY StepOthers DEF IInv, GoodInv, Good, Given
<1>1. /\ pc \in [Installer -> Control] /\ backup \in [Installer -> Dir]
      /\ Others(i)
  BY Shapes, StepOthers DEF IInv
<1>2. \A d \in Dir : Good(d) => IsDir(d)
  BY InstallerAssumption DEF Good, IsDir
<1>3. final \in Dir /\ NoDir \in Dir /\ ~IsDir(NoDir)
  BY Shapes DEF IInv, IsDir, NoDir
<1>4. CASE Good(final)
  <2>1. IsDir(final)
    BY <1>2, <1>3, <1>4
  <2>2. final' = final \/ (pc'[i] = "activate" /\ backup'[i] = final)
    BY <1>1, <2>1 DEF Step, Exists, Compare, MakeStaging, Extract,
     ValidateRootfs, WriteManifest, Look, MoveAway, Activate, Restore, PutBack,
     Cleanup, Interrupt, Goto
  <2>3. QED
    BY <1>4, <2>2
<1>5. CASE pc[i] # "cleanup" /\ Good(backup[i])
  <2>1. pc[i] # "moveAway"
    BY <1>1, <1>2, <1>3, <1>5 DEF IInv, BackupInv
  <2>2. CASE pc[i] = "activate" /\ pc'[i] = "cleanup"
    <3>1. final' = staging[i]
      BY <1>1, <2>2 DEF Step, Exists, Compare, MakeStaging, Extract,
       ValidateRootfs, WriteManifest, Look, MoveAway, Activate, Restore, PutBack,
       Cleanup, Interrupt, Goto
    <3>2. Good(staging[i])
      BY <2>2 DEF IInv, StagingInv, Ready, Good
    <3>3. QED
      BY <3>1, <3>2
  <2>3. CASE ~(pc[i] = "activate" /\ pc'[i] = "cleanup")
    <3>1. pc'[i] # "cleanup"
      BY <1>1, <1>5, <2>3 DEF Step, Exists, Compare, MakeStaging, Extract,
       ValidateRootfs, WriteManifest, Look, MoveAway, Activate, Restore, PutBack,
       Cleanup, Interrupt, Raise, Goto
    <3>2. backup'[i] = backup[i] \/ final' = backup[i]
      BY <1>1, <1>5, <2>1 DEF Step, Exists, Compare, MakeStaging, Extract,
       ValidateRootfs, WriteManifest, Look, MoveAway, Activate, Restore, PutBack,
       Cleanup, Interrupt
    <3>3. QED
      BY <1>5, <3>1, <3>2
  <2>4. QED
    BY <2>2, <2>3
<1>6. CASE \E j \in Installer \ {i} : pc[j] # "cleanup" /\ Good(backup[j])
  BY <1>1, <1>6 DEF Others
<1>7. QED
  BY <1>4, <1>5, <1>6 DEF IInv, GoodInv

\* Whoever empties the name keeps what was there until it has filled it.
LEMMA HolderKept ==
  ASSUME IInv, NEW i \in Installer, Step(i)
  PROVE  HolderInv'
<1> DEFINE Holds(l, d) == l \in {"activate", "restore", "putBack"} /\ IsDir(d)
           Taken(l) == l \in {"cleanup", "ok"}
<1> SUFFICES ASSUME \A j \in Installer : pc'[j] # "interrupted",
                    IsDir(before.dir) \/ \E j \in Installer : Taken(pc'[j]),
                    ~IsDir(final')
             PROVE  \E j \in Installer : Holds(pc'[j], backup'[j])
  BY StepOthers DEF IInv, HolderInv, Given
<1>1. /\ pc \in [Installer -> Control] /\ backup \in [Installer -> Dir]
      /\ staging \in [Installer -> Dir] /\ Others(i)
  BY Shapes, StepOthers DEF IInv
<1>2. \A j \in Installer : pc[j] # "interrupted"
  BY <1>1 DEF Others, Step, Exists, Compare, MakeStaging, Extract,
     ValidateRootfs, WriteManifest, Look, MoveAway, Activate, Restore, PutBack,
     Cleanup, Interrupt, Over
<1>3. CASE IsDir(final)
  <2>1. MoveAway(i) /\ pc'[i] = "activate" /\ backup'[i] = final
    BY <1>1, <1>3 DEF Step, Exists, Compare, MakeStaging, Extract,
     ValidateRootfs, WriteManifest, Look, MoveAway, Activate, Restore, PutBack,
     Cleanup, Interrupt, Goto
  <2>2. QED
    BY <1>3, <2>1
<1>4. CASE ~IsDir(final)
  <2>1. pc'[i] = "cleanup" => pc[i] = "cleanup"
    <3>1. pc[i] = "activate" => IsDir(staging[i])
      BY InstallerAssumption DEF IInv, StagingInv, Ready, IsDir
    <3>2. QED
      BY <1>1, <3>1 DEF Step, Exists, Compare, MakeStaging, Extract,
       ValidateRootfs, WriteManifest, Look, MoveAway, Activate, Restore,
       PutBack, Cleanup, Interrupt, Raise, Goto
  <2>2. pc'[i] = "ok" => pc[i] = "cleanup"
    <3>1. "manifest" \notin final.parts
      BY <1>4 DEF IInv, PlaceInv, Sound, NoDir
    <3>2. QED
      BY <1>1, <3>1 DEF Step, Exists, Compare, MakeStaging, Extract,
       ValidateRootfs, WriteManifest, Look, MoveAway, Activate, Restore,
       PutBack, Cleanup, Interrupt, Raise, Goto
  <2>3. IsDir(before.dir) \/ \E j \in Installer : Taken(pc[j])
    BY <1>1, <2>1, <2>2 DEF Others
  <2>4. PICK j \in Installer : Holds(pc[j], backup[j])
    BY <1>2, <1>4, <2>3 DEF IInv, HolderInv
  <2>5. CASE j # i
    BY <1>1, <2>4, <2>5 DEF Others
  <2>6. CASE j = i
    <3>1. Holds(pc'[i], backup'[i])
      BY <1>1, <1>2, <1>4, <2>1, <2>4, <2>6 DEF Step, Exists, Compare,
       MakeStaging, Extract, ValidateRootfs, WriteManifest, Look, MoveAway,
       Activate, Restore, PutBack, Cleanup, Interrupt, Raise, Goto
    <3>2. QED
      BY <3>1
  <2>7. QED
    BY <2>5, <2>6
<1>5. QED
  BY <1>3, <1>4

THEOREM Inductive == Spec => []IInv
<1>1. IInv /\ [Next]_vars => IInv'
  <2> SUFFICES ASSUME IInv, [Next]_vars PROVE IInv'
    OBVIOUS
  <2>1. CASE Next
    <3>1. PICK i \in Installer : Step(i)
      BY <2>1 DEF Next, Step
    <3>2. QED
      BY <3>1, StepTypes, StagingKept, PlaceKept, CompleteKept, BackupKept,
         HolderKept, GoodKept DEF IInv
  <2>2. CASE UNCHANGED vars
    BY <2>2 DEF IInv, TypeOK, StagingInv, PlaceInv, CompleteInv, BackupInv,
       HolderInv, GoodInv, Good, vars
  <2>3. QED
    BY <2>1, <2>2
<1>2. QED
  BY <1>1, Initially, PTL DEF Spec

-----------------------------------------------------------------------------
(* What follows. *)

\* The state stays within its types.
THEOREM TypeCorrect == Spec => []TypeOK
<1>1. IInv => TypeOK
  BY DEF IInv
<1>2. QED
  BY <1>1, Inductive, PTL

\* Whatever any number of install commands do at the same time, and wherever
\* they are interrupted, what os.replace makes visible is complete.
THEOREM VisibleIsComplete == Spec => []OnlyCompleteVisible
<1>1. IInv => OnlyCompleteVisible
  BY DEF IInv, CompleteInv, Complete, OnlyCompleteVisible
<1>2. QED
  BY <1>1, Inductive, PTL

\* A command that reported a conflict or a failure has not changed which
\* environment is visible: its own is neither in place nor in anyone's backup.
FailureInstallsNothing == \A i \in Installer :
  pc[i] \in {"conflict", "failed"} =>
    final.by # i /\ \A j \in Installer : backup[j].by # i

\* The directory of a command that reported a conflict or a failure is nowhere.
THEOREM FailureIsClean == Spec => []FailureInstallsNothing
<1>1. IInv => FailureInstallsNothing
  BY DEF IInv, PlaceInv, Sound, Placed, FailureInstallsNothing
<1>2. QED
  BY <1>1, Inductive, PTL

\* When all commands have ended without an interruption, a name that was taken,
\* or that one of them reported as installed, is taken.
THEOREM NameStaysTaken == Spec => []EnvironmentNeverLost
<1>1. IInv => EnvironmentNeverLost
  <2> SUFFICES ASSUME IInv, \A i \in Installer : pc[i] \in Over \ {"interrupted"},
                      IsDir(before.dir) \/ \E i \in Installer : pc[i] = "ok",
                      ~IsDir(final)
               PROVE  FALSE
    BY DEF EnvironmentNeverLost
  <2>1. \E i \in Installer : pc[i] \in {"activate", "restore", "putBack"}
    BY DEF IInv, HolderInv
  <2>2. QED
    BY <2>1 DEF Over
<1>2. QED
  BY <1>1, Inductive, PTL

\* The environment that was there before, untouched, or a whole new one is in place
\* or in a backup, also while backups are removed and where a removal stops.
THEOREM OldIsKept == Spec => []OldKeptUntilReplaced
<1>1. IInv => OldKeptUntilReplaced
  BY DEF IInv, GoodInv, Good, OldKeptUntilReplaced
<1>2. QED
  BY <1>1, Inductive, PTL

-----------------------------------------------------------------------------
(* One command after the other. *)

\* A command that has begun to look at the name, and has not ended.
Busy(i) == pc[i] \notin {"exists"} \cup Over

\* Commands do not overlap, whoever sees to that.
OneAtATime == \A i, j \in Installer : Busy(i) /\ Busy(j) => i = j

\* A command without --replace that goes on has found the name free, and nobody
\* has taken it since.
Unasked(i) ==
  ~request[i].replace =>
    /\ backup[i] = NoDir /\ pc[i] \notin {"moveAway", "putBack"}
    /\ pc[i] \in (Building \cup {"activate", "restore"}) => ~IsDir(final)

SInv == IInv /\ \A i \in Installer : Unasked(i)

LEMMA UnaskedKept ==
  ASSUME SInv, OneAtATime, OneAtATime', NEW i \in Installer, Step(i)
  PROVE  \A j \in Installer : Unasked(j)'
<1>1. /\ pc \in [Installer -> Control] /\ backup \in [Installer -> Dir]
      /\ Others(i) /\ request' = request
  BY Shapes, StepOthers DEF SInv, IInv, Given
<1>2. Unasked(i)'
  <2> SUFFICES ASSUME ~request[i].replace PROVE Unasked(i)'
    BY <1>1 DEF Unasked
  <2>1. Unasked(i)
    BY DEF SInv
  <2>2. CASE Exists(i) \/ Compare(i)
    BY <1>1, <2>1, <2>2 DEF Unasked, Exists, Compare, Goto, Building, Over
  <2>3. CASE MakeStaging(i) \/ Extract(i) \/ ValidateRootfs(i) \/ WriteManifest(i)
    BY <1>1, <2>1, <2>3 DEF Unasked, MakeStaging, Extract, ValidateRootfs,
       WriteManifest, Raise, Goto, Building
  <2>4. CASE Look(i) \/ MoveAway(i)
    BY <1>1, <2>1, <2>4 DEF Unasked, Look, MoveAway, Goto, Building
  <2>5. CASE Activate(i) \/ Restore(i)
    BY <1>1, <2>1, <2>5 DEF Unasked, Activate, Restore, Raise, Goto, Building,
       IsDir, NoDir
  <2>6. CASE PutBack(i)
    BY <1>1, <2>1, <2>6 DEF Unasked, PutBack, Raise, Goto, Building
  <2>7. CASE Cleanup(i)
    <3>1. ~IsDir(backup[i]) /\ backup[i] = NoDir
      BY <2>1 DEF Unasked, IsDir, NoDir
    <3>2. backup' = [backup EXCEPT ![i] = NoDir] /\ pc'[i] = "ok"
      BY <1>1, <2>7, <3>1 DEF Cleanup, Goto
    <3>3. QED
      BY <1>1, <3>2 DEF Unasked, Building
  <2>8. CASE Interrupt(i)
    BY <1>1, <2>1, <2>8 DEF Unasked, Interrupt, Goto, Building, Over
  <2>9. QED
    BY <2>2, <2>3, <2>4, <2>5, <2>6, <2>7, <2>8 DEF Step
<1>3. ASSUME NEW j \in Installer \ {i} PROVE Unasked(j)'
  <2>1. Unasked(j) /\ pc'[j] = pc[j] /\ backup'[j] = backup[j]
    BY <1>1 DEF SInv, Others
  <2>2. CASE Busy(j)
    <3>1. ~Busy(i) /\ ~Busy(i)'
      BY <1>1, <2>1, <2>2 DEF OneAtATime, Busy
    <3>2. final' = final
      BY <3>1 DEF Busy, Over, Step, Exists, Compare, MakeStaging, Extract,
         ValidateRootfs, WriteManifest, Look, MoveAway, Activate, Restore,
         PutBack, Cleanup, Interrupt
    <3>3. QED
      BY <1>1, <2>1, <3>2 DEF Unasked
  <2>3. CASE ~Busy(j)
    BY <1>1, <2>1, <2>3 DEF Unasked, Busy, Building, Over
  <2>4. QED
    BY <2>2, <2>3
<1>4. QED
  BY <1>2, <1>3

\* What the run install_conflict refutes for commands that overlap holds of any
\* number of commands that do not, wherever they fail or are interrupted: without
\* --replace no command moves an environment away.
THEOREM ReplacesOnlyOnRequestInTurn ==
  Spec /\ []OneAtATime => []ReplaceOnlyOnRequest
<1>1. Init => SInv
  BY Initially DEF Init, SInv, Unasked, Building
<1>2. SInv /\ OneAtATime /\ OneAtATime' /\ IInv' /\ [Next]_vars => SInv'
  <2> SUFFICES ASSUME SInv, OneAtATime, OneAtATime', IInv', [Next]_vars
               PROVE  \A i \in Installer : Unasked(i)'
    BY DEF SInv
  <2>1. CASE Next
    <3>1. PICK i \in Installer : Step(i)
      BY <2>1 DEF Next, Step
    <3>2. QED
      BY <3>1, UnaskedKept
  <2>2. CASE UNCHANGED vars
    BY <2>2 DEF SInv, Unasked, vars
  <2>3. QED
    BY <2>1, <2>2
<1>3. SInv => ReplaceOnlyOnRequest
  BY DEF SInv, Unasked, ReplaceOnlyOnRequest, IsDir, NoDir
<1>4. QED
  BY <1>1, <1>2, <1>3, Inductive, PTL DEF Spec

-----------------------------------------------------------------------------
(* The commands implement EnvironmentContract. *)

\* A directory with a manifest has everything.
Whole(d) == "manifest" \in d.parts => d.parts = Part

RecordInv == /\ Whole(final)
             /\ \A i \in Installer : pc[i] \in Undecided => Whole(backup[i])

LEMMA RecordKept ==
  ASSUME IInv, RecordInv, NEW i \in Installer, Step(i)
  PROVE  RecordInv'
<1>1. Others(i) /\ Whole(NoDir) /\ pc \in [Installer -> Control]
  BY Shapes, StepOthers DEF IInv, Whole, NoDir
<1>2. pc[i] = "activate" => Whole(staging[i])
  BY DEF IInv, StagingInv, Ready, Whole
<1>3. pc[i] \in Undecided => Whole(backup[i])
  BY DEF RecordInv
<1>4. Whole(final')
  BY <1>1, <1>2, <1>3, Moves DEF RecordInv, Undecided
<1>5. pc'[i] \in Undecided => pc[i] \in Undecided \cup {"look", "moveAway"}
  BY <1>1 DEF Undecided, Step, Exists, Compare, MakeStaging, Extract,
     ValidateRootfs, WriteManifest, Look, MoveAway, Activate, Restore, PutBack,
     Cleanup, Interrupt, Raise, Goto
<1>6. pc[i] \in {"look", "moveAway"} => backup[i] = NoDir
  BY DEF IInv, BackupInv
<1>7. pc'[i] \in Undecided => Whole(backup'[i])
  BY <1>1, <1>3, <1>5, <1>6, Moves DEF RecordInv, Undecided
<1>8. QED
  BY <1>1, <1>4, <1>7 DEF RecordInv, Others

THEOREM RecordInductive == Spec => []RecordInv
<1>1. Init => RecordInv
  BY DEF Init, RecordInv, Whole, NoDir, Undecided
<1>2. IInv /\ RecordInv /\ [Next]_vars => RecordInv'
  <2> SUFFICES ASSUME IInv, RecordInv, [Next]_vars PROVE RecordInv'
    OBVIOUS
  <2>1. ASSUME NEW i \in Installer, Step(i) PROVE RecordInv'
    BY <2>1, RecordKept
  <2>2. CASE UNCHANGED vars
    BY <2>2 DEF RecordInv, Whole, vars
  <2>3. QED
    BY <2>1, <2>2 DEF Next, Step
<1>3. QED
  BY <1>1, <1>2, Inductive, PTL DEF Spec

\* The contract sees that a directory is there, and whose a whole one is.
LEMMA EnvFacts ==
  /\ \A d \in Dir : (Env(d) = "nobody") <=> ~IsDir(d)
  /\ \A d \in Dir : d.parts = Part => Env(d) = d.by
  /\ Env(NoDir) = "nobody"
  BY DEF Env, IsDir, NoDir

\* What the contract sees of a step of one command.
LEMMA Shadows ==
  ASSUME IInv, NEW i \in Installer, Step(i)
  PROVE  /\ wanted' = wanted /\ origin' = origin
         /\ visible = Env(final) /\ visible' = Env(final')
         /\ aside[i] = Env(backup[i]) /\ phase[i] = PhaseOf(pc[i])
         /\ aside' = [aside EXCEPT ![i] = Env(backup'[i])]
         /\ phase' = [phase EXCEPT ![i] = PhaseOf(pc'[i])]
<1>1. Others(i) /\ Given
  BY StepOthers DEF IInv
<1>2. wanted' = wanted /\ origin' = origin
  BY <1>1 DEF Given, wanted, origin
<1>3. \A j \in Installer \ {i} :
        Env(backup'[j]) = Env(backup[j]) /\ PhaseOf(pc'[j]) = PhaseOf(pc[j])
  BY <1>1 DEF Others
<1>4. /\ aside' = [aside EXCEPT ![i] = Env(backup'[i])]
      /\ phase' = [phase EXCEPT ![i] = PhaseOf(pc'[i])]
  BY <1>3 DEF aside, phase
<1>5. QED
  BY <1>2, <1>4 DEF visible, aside, phase

\* What a step does to one command, whose phase is p before it and q after it.
Seen(i, p, q) ==
  \/ /\ IsDir(final) /\ ~IsDir(backup[i])
     /\ backup'[i] = final /\ final' = NoDir /\ p = "working" /\ q = "working"
  \/ /\ ~IsDir(final) /\ Env(final') = i /\ backup'[i] = backup[i]
     /\ p = "working" /\ q = "installed"
  \/ /\ ~IsDir(final) /\ IsDir(backup[i])
     /\ final' = backup[i] /\ backup'[i] = NoDir /\ p = "working" /\ q = "failed"
  \/ final' = final /\ backup'[i] = NoDir /\ p = "installed" /\ q = "ok"
  \/ /\ final' = final /\ IsDir(backup[i])
     /\ Env(backup'[i]) \in {Env(backup[i]), "unrecorded"}
     /\ p = "installed" /\ q \in {"installed", "cleanupFailed"}
  \/ /\ final' = final /\ backup'[i] = backup[i]
     /\ \/ p = "working" /\ q = "working"
        \/ /\ ~IsDir(backup[i]) /\ IsDir(final) /\ final.parts = Part
           /\ ProvOf(final) = request[i].prov /\ p = "working" /\ q = "ok"
        \/ ~IsDir(backup[i]) /\ p = "working" /\ q = "conflict"
        \/ (~IsDir(backup[i]) \/ IsDir(final)) /\ p = "working" /\ q = "failed"
        \/ p \in {"working", "installed"} /\ q = "interrupted"

LEMMA StepSeen ==
  ASSUME IInv, RecordInv, NEW i \in Installer, Step(i)
  PROVE  Seen(i, PhaseOf(pc[i]), PhaseOf(pc'[i]))
<1>1. pc \in [Installer -> Control] /\ backup \in [Installer -> Dir] /\ final \in Dir
  BY Shapes DEF IInv
<1>2. /\ \A l \in Control \ (Over \cup {"cleanup"}) : PhaseOf(l) = "working"
      /\ \A l \in Over : PhaseOf(l) = l
      /\ PhaseOf("cleanup") = "installed"
  BY DEF PhaseOf, Over
<1>3. /\ PhaseOf("exists") = "working" /\ PhaseOf("compare") = "working"
      /\ PhaseOf("mkdtemp") = "working" /\ PhaseOf("extract") = "working"
      /\ PhaseOf("validate") = "working" /\ PhaseOf("manifest") = "working"
      /\ PhaseOf("look") = "working" /\ PhaseOf("moveAway") = "working"
      /\ PhaseOf("activate") = "working" /\ PhaseOf("restore") = "working"
      /\ PhaseOf("putBack") = "working" /\ PhaseOf("ok") = "ok"
      /\ PhaseOf("failed") = "failed" /\ PhaseOf("conflict") = "conflict"
      /\ PhaseOf("cleanupFailed") = "cleanupFailed"
      /\ PhaseOf("interrupted") = "interrupted"
  BY <1>2 DEF Control, Building, Swapping, Over
<1>4. CASE Exists(i) \/ MakeStaging(i) \/ Extract(i)
  <2>1. ~IsDir(backup[i])
    BY <1>4 DEF IInv, BackupInv, IsDir, NoDir, Exists, MakeStaging, Extract
  <2>2. QED
    BY <1>1, <1>2, <1>3, <1>4, <2>1 DEF Seen, Exists, MakeStaging, Extract, Raise,
       Goto
<1>5. CASE Compare(i)
  <2>1. ~IsDir(backup[i])
    BY <1>5 DEF IInv, BackupInv, IsDir, NoDir, Compare
  <2>2. "manifest" \in final.parts => IsDir(final) /\ final.parts = Part
    BY DEF RecordInv, Whole, IInv, PlaceInv, Sound, NoDir
  <2>3. QED
    BY <1>1, <1>2, <1>3, <1>5, <2>1, <2>2 DEF Seen, Compare, Goto
<1>6. CASE ValidateRootfs(i) \/ WriteManifest(i) \/ Look(i)
  <2>1. ~IsDir(backup[i])
    BY <1>6 DEF IInv, BackupInv, IsDir, NoDir, ValidateRootfs, WriteManifest, Look
  <2>2. QED
    BY <1>1, <1>2, <1>3, <1>6, <2>1 DEF Seen, ValidateRootfs, WriteManifest, Look,
       Raise, Goto
<1>7. CASE MoveAway(i)
  <2>1. ~IsDir(backup[i])
    BY <1>7 DEF IInv, BackupInv, IsDir, NoDir, MoveAway
  <2>2. QED
    BY <1>1, <1>2, <1>3, <1>7, <2>1 DEF Seen, MoveAway, Raise, Goto
<1>8. CASE Activate(i)
  <2>1. Env(staging[i]) = i
    BY <1>8 DEF IInv, StagingInv, Ready, Activate, Env
  <2>2. QED
    BY <1>1, <1>2, <1>3, <1>8, <2>1 DEF Seen, Activate, Goto
<1>9. CASE Restore(i)
  BY <1>1, <1>2, <1>3, <1>9 DEF Seen, Restore, Raise, Goto
<1>10. CASE PutBack(i)
  <2>1. IsDir(backup[i])
    BY <1>10 DEF IInv, BackupInv, PutBack
  <2>2. QED
    BY <1>1, <1>2, <1>3, <1>10, <2>1 DEF Seen, PutBack, Raise, Goto
<1>11. CASE Cleanup(i)
  <2>1. final' = final /\ PhaseOf(pc[i]) = "installed"
    BY <1>2, <1>11 DEF Cleanup
  <2>2. CASE backup' = [backup EXCEPT ![i] = NoDir] /\ Goto(i, "ok")
    BY <1>1, <1>3, <2>1, <2>2 DEF Seen, Goto
  <2>3. CASE /\ IsDir(backup[i])
             /\ \E left \in SUBSET backup[i].parts :
                  backup' = [backup EXCEPT ![i].parts = left]
             /\ Goto(i, "cleanup") \/ Goto(i, "cleanupFailed")
    <3>1. backup'[i] \in Dir /\ backup'[i].by = backup[i].by
      BY <1>1, <2>3 DEF Dir
    <3>2. backup'[i].parts = Part => backup[i].parts = Part
      <4>1. PICK left \in SUBSET backup[i].parts :
              backup' = [backup EXCEPT ![i].parts = left]
        BY <2>3
      <4>2. backup'[i].parts = left /\ backup[i].parts \subseteq Part
        BY <1>1, <4>1 DEF Dir
      <4>3. QED
        BY <4>2
    <3>3. Env(backup'[i]) \in {Env(backup[i]), "unrecorded"}
      BY <2>3, <3>1, <3>2 DEF Env, IsDir
    <3>4. PhaseOf(pc'[i]) \in {"installed", "cleanupFailed"}
      BY <1>1, <1>2, <1>3, <2>3 DEF Goto
    <3>5. QED
      BY <2>1, <2>3, <3>3, <3>4 DEF Seen
  <2>4. QED
    BY <1>11, <2>2, <2>3 DEF Cleanup
<1>12. CASE Interrupt(i)
  BY <1>1, <1>2, <1>12 DEF Seen, Interrupt, Goto, Control, Over
<1>13. QED
  BY <1>4, <1>5, <1>6, <1>7, <1>8, <1>9, <1>10, <1>11, <1>12 DEF Step

\* What was seen is a step of the contract, or nothing.
LEMMA SeenAllowed ==
  ASSUME IInv, NEW i \in Installer, Step(i),
         Seen(i, PhaseOf(pc[i]), PhaseOf(pc'[i]))
  PROVE  [Environment!Next]_(Environment!vars)
<1> DEFINE p == PhaseOf(pc[i])
           q == PhaseOf(pc'[i])
<1>1. final \in Dir /\ backup[i] \in Dir /\ backup \in [Installer -> Dir]
  BY Shapes DEF IInv
<1>2. /\ (visible = "nobody") <=> ~IsDir(final)
      /\ (aside[i] = "nobody") <=> ~IsDir(backup[i])
  BY <1>1, EnvFacts, Shadows
<1>3. aside = [aside EXCEPT ![i] = aside[i]] /\ phase = [phase EXCEPT ![i] = phase[i]]
  BY DEF aside, phase
<1>4. CASE /\ IsDir(final) /\ ~IsDir(backup[i])
           /\ backup'[i] = final /\ final' = NoDir /\ p = "working" /\ q = "working"
  <2>1. Environment!SetAside(i)
    BY <1>2, <1>4, EnvFacts, Shadows DEF Environment!SetAside, Environment!Move
  <2>2. QED
    BY <2>1 DEF Environment!Next
<1>5. CASE /\ ~IsDir(final) /\ Env(final') = i /\ backup'[i] = backup[i]
           /\ p = "working" /\ q = "installed"
  <2>1. Environment!Put(i)
    BY <1>2, <1>3, <1>5, Shadows DEF Environment!Put, Environment!Move
  <2>2. QED
    BY <2>1 DEF Environment!Next
<1>6. CASE /\ ~IsDir(final) /\ IsDir(backup[i])
           /\ final' = backup[i] /\ backup'[i] = NoDir /\ p = "working" /\ q = "failed"
  <2>1. Environment!PutBack(i)
    BY <1>2, <1>6, EnvFacts, Shadows DEF Environment!PutBack, Environment!Move
  <2>2. QED
    BY <2>1 DEF Environment!Next
<1>7. CASE final' = final /\ backup'[i] = NoDir /\ p = "installed" /\ q = "ok"
  <2>1. Environment!Discard(i)
    BY <1>7, EnvFacts, Shadows DEF Environment!Discard, Environment!Move
  <2>2. QED
    BY <2>1 DEF Environment!Next
<1>9. CASE /\ final' = final /\ IsDir(backup[i])
           /\ Env(backup'[i]) \in {Env(backup[i]), "unrecorded"}
           /\ p = "installed" /\ q \in {"installed", "cleanupFailed"}
  <2>1. visible' = visible /\ aside[i] # "nobody" /\ Environment!Move(i, p, q)
    BY <1>2, <1>9, Shadows DEF Environment!Move
  <2>2. aside' \in {aside, [aside EXCEPT ![i] = "unrecorded"]}
    BY <1>3, <1>9, Shadows
  <2>3. CASE q = "cleanupFailed"
    BY <1>9, <2>1, <2>2, <2>3 DEF Environment!KeepBoth, Environment!Next
  <2>4. CASE q = "installed" /\ aside' = aside
    BY <1>3, <1>9, <2>1, <2>4, Shadows DEF Environment!vars
  <2>5. CASE q = "installed" /\ aside' = [aside EXCEPT ![i] = "unrecorded"]
    BY <1>9, <2>1, <2>5 DEF Environment!Spoil, Environment!Next
  <2>6. QED
    BY <1>9, <2>2, <2>3, <2>4, <2>5
<1>8. CASE final' = final /\ backup'[i] = backup[i]
  <2>1. /\ visible' = visible /\ aside' = aside
        /\ wanted' = wanted /\ origin' = origin
    BY <1>3, <1>8, Shadows
  <2>2. Environment!Move(i, p, q)
    BY <2>1, Shadows DEF Environment!Move
  <2>3. CASE p = "working" /\ q = "working"
    BY <1>3, <2>1, <2>3, Shadows DEF Environment!vars
  <2>5. CASE /\ ~IsDir(backup[i]) /\ IsDir(final) /\ final.parts = Part
             /\ ProvOf(final) = request[i].prov /\ p = "working" /\ q = "ok"
    <3>1. visible = final.by /\ visible # "nobody" /\ wanted[i] = request[i].prov
      BY <1>1, <1>2, <2>5, EnvFacts DEF visible, wanted
    <3>2. final.by \in Installer \cup {"old", "nobody"}
      BY <1>1 DEF Dir
    <3>3. visible # "unrecorded"
      BY <3>1, <3>2, InstallerAssumption
    <3>4. Environment!MadeFrom(visible) = wanted[i]
      BY <2>5, <3>1 DEF Environment!MadeFrom, ProvOf, wanted, origin
    <3>5. Environment!Accept(i)
      BY <1>2, <2>1, <2>2, <2>5, <3>1, <3>3, <3>4 DEF Environment!Accept
    <3>6. QED
      BY <3>5 DEF Environment!Next
  <2>6. CASE ~IsDir(backup[i]) /\ p = "working" /\ q = "conflict"
    BY <1>2, <2>1, <2>2, <2>6 DEF Environment!Refuse, Environment!Next
  <2>7. CASE (~IsDir(backup[i]) \/ IsDir(final)) /\ p = "working" /\ q = "failed"
    BY <1>2, <2>1, <2>2, <2>7 DEF Environment!Fail, Environment!Next
  <2>8. CASE p \in {"working", "installed"} /\ q = "interrupted"
    BY <2>1, <2>2, <2>8 DEF Environment!Interrupt, Environment!Next
  <2>9. QED
    BY <1>4, <1>5, <1>6, <1>7, <1>8, <1>9, <2>3, <2>5, <2>6, <2>7, <2>8 DEF Seen
<1>10. QED
  BY <1>4, <1>5, <1>6, <1>7, <1>8, <1>9 DEF Seen

\* Any number of install commands for one name implement EnvironmentContract:
\* every system call of one is a step of the contract or invisible to it.
THEOREM EnvironmentIsKept == Spec => KeepsEnvironmentContract
<1>1. Init => Environment!Init
  <2> SUFFICES ASSUME Init PROVE Environment!Init
    OBVIOUS
  <2>1. visible \in Environment!Found
    BY DEF Init, visible, Env, IsDir, NoDir, Environment!Found
  <2>2. wanted \in [Installer -> Prov] /\ origin \in Prov
    BY DEF Init, wanted, origin
  <2>3. aside = [i \in Installer |-> "nobody"]
    BY EnvFacts DEF Init, aside
  <2>4. phase = [i \in Installer |-> "working"]
    BY DEF Init, phase, PhaseOf, Over
  <2>5. QED
    BY <2>1, <2>2, <2>3, <2>4 DEF Environment!Init
<1>2. IInv /\ RecordInv /\ [Next]_vars => [Environment!Next]_(Environment!vars)
  <2> SUFFICES ASSUME IInv, RecordInv, [Next]_vars
               PROVE  [Environment!Next]_(Environment!vars)
    OBVIOUS
  <2>1. ASSUME NEW i \in Installer, Step(i)
        PROVE  [Environment!Next]_(Environment!vars)
    BY <2>1, StepSeen, SeenAllowed
  <2>2. CASE UNCHANGED vars
    BY <2>2 DEF vars, Environment!vars, wanted, origin, visible, aside, phase,
       Env, IsDir, PhaseOf
  <2>3. QED
    BY <2>1, <2>2 DEF Next, Step
<1>3. QED
  BY <1>1, <1>2, Inductive, RecordInductive, PTL
     DEF Spec, KeepsEnvironmentContract, Environment!Spec
=============================================================================
