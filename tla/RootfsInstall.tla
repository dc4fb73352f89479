--------------------------- MODULE RootfsInstall ---------------------------
(***************************************************************************)
(* install_rootfs of etroute.py: several `install` commands for one        *)
(* environment name, each in a process of its own, over the directory      *)
(* runtime_dir/containers.  Any of them may be interrupted at any step.    *)
(* Every file system call is one step, since nothing locks the directory.  *)
(***************************************************************************)
EXTENDS FiniteSets

CONSTANTS
  Installer,  \* the install commands
  Prov        \* provenances: image, version, architecture and digest together

\* The names for what no command built.
ASSUME InstallerAssumption ==
  Installer \cap {"old", "nobody", "unrecorded"} = {}

VARIABLES
  request,  \* what each command was given: its provenance, and --replace
  before,   \* the directory that was there before, and its provenance
  final,    \* the directory of the environment
  staging,  \* the temporary directory of each command
  backup,   \* the directory each command moved out of the way
  pc

vars == <<request, before, final, staging, backup, pc>>

\* A directory, by the command that built it and the parts it holds: "rootfs"
\* an extracted tree, "shell" one with a usable shell, "manifest" its record.
Part     == {"rootfs", "shell", "manifest"}
Dir      == [by : Installer \cup {"old", "nobody"}, parts : SUBSET Part]
NoDir    == [by |-> "nobody", parts |-> {}]
IsDir(d) == d.by # "nobody"

Over     == {"ok", "conflict", "failed", "cleanupFailed", "interrupted"}
Building == {"mkdtemp", "extract", "validate", "manifest", "look"}
Swapping == {"moveAway", "activate", "restore", "putBack", "cleanup"}
Control  == {"exists", "compare"} \cup Building \cup Swapping \cup Over

TypeOK ==
  /\ request \in [Installer -> [prov : Prov, replace : BOOLEAN]]
  /\ before \in [dir : Dir, prov : Prov]
  /\ final \in Dir
  /\ staging \in [Installer -> Dir]
  /\ backup \in [Installer -> Dir]
  /\ pc \in [Installer -> Control]

\* The name is free, installed, or taken by a directory without a manifest.
Init ==
  /\ request \in [Installer -> [prov : Prov, replace : BOOLEAN]]
  /\ final \in {NoDir, [by |-> "old", parts |-> Part],
                [by |-> "old", parts |-> {"rootfs"}]}
  /\ before \in [dir : {final}, prov : Prov]
  /\ staging = [i \in Installer |-> NoDir]
  /\ backup  = [i \in Installer |-> NoDir]
  /\ pc      = [i \in Installer |-> "exists"]

Given == UNCHANGED <<request, before>>

Goto(i, l) == pc' = [pc EXCEPT ![i] = l] /\ Given

\* An error leaves the `with` block, which removes the staging directory.
Raise(i, l) == Goto(i, l) /\ staging' = [staging EXCEPT ![i] = NoDir]

ProvOf(d) == IF d.by \in Installer THEN request[d.by].prov ELSE before.prov

-----------------------------------------------------------------------------
(* The checks before staging. *)

\* The archive's checksum is verified first, then final_dir.exists().
Exists(i) ==
  /\ pc[i] = "exists"
  /\ \/ Goto(i, "failed")
     \/ Goto(i, IF IsDir(final) THEN "compare" ELSE "mkdtemp")
  /\ UNCHANGED <<final, staging, backup>>

\* The manifest of whatever directory is there by now; one that cannot be read
\* is a validation error.
Compare(i) ==
  /\ pc[i] = "compare"
  /\ LET recorded == "manifest" \in final.parts IN
     IF request[i].replace THEN Goto(i, "mkdtemp")
     ELSE \/ recorded /\ Goto(i, "failed")
          \/ Goto(i, IF recorded /\ ProvOf(final) = request[i].prov
                     THEN "ok" ELSE "conflict")
  /\ UNCHANGED <<final, staging, backup>>

-----------------------------------------------------------------------------
(* Building the staging directory. *)

MakeStaging(i) ==
  /\ pc[i] = "mkdtemp"
  /\ staging' = [staging EXCEPT ![i] = [by |-> i, parts |-> {}]]
  /\ Goto(i, "extract")
  /\ UNCHANGED <<final, backup>>

Extract(i) ==
  /\ pc[i] = "extract"
  /\ \/ Raise(i, "failed")
     \/ \E p \in {{"rootfs"}, {"rootfs", "shell"}} :
          staging' = [staging EXCEPT ![i].parts = p] /\ Goto(i, "validate")
  /\ UNCHANGED <<final, backup>>

\* Variant: the tree is not searched for a shell.
ValidateNothing(i) ==
  /\ pc[i] = "validate"
  /\ Goto(i, "manifest")
  /\ UNCHANGED <<final, staging, backup>>

ValidateRootfs(i) ==
  /\ pc[i] = "validate"
  /\ IF "shell" \in staging[i].parts
     THEN Goto(i, "manifest") /\ UNCHANGED staging
     ELSE Raise(i, "failed")
  /\ UNCHANGED <<final, backup>>

\* Variant: the temporary file of the manifest stays beside it.
WriteManifestTwice(i) ==
  /\ pc[i] = "manifest"
  /\ staging' = [staging EXCEPT ![i].parts = @ \cup {"manifest", "temporary"}]
  /\ Goto(i, "look")
  /\ UNCHANGED <<final, backup>>

WriteManifest(i) ==
  /\ pc[i] = "manifest"
  /\ \/ Raise(i, "failed")
     \/ /\ staging' = [staging EXCEPT ![i].parts = @ \cup {"manifest"}]
        /\ Goto(i, "look")
  /\ UNCHANGED <<final, backup>>

-----------------------------------------------------------------------------
(* Swapping it in. *)

\* final_dir.exists() again, this time whatever --replace says.
Look(i) ==
  /\ pc[i] = "look"
  /\ Goto(i, IF IsDir(final) THEN "moveAway" ELSE "activate")
  /\ UNCHANGED <<final, staging, backup>>

\* Variant: the old directory is deleted before the new one is in place.
DeleteOld(i) ==
  /\ pc[i] = "moveAway"
  /\ final' = NoDir /\ Goto(i, "activate")
  /\ UNCHANGED <<staging, backup>>

\* os.replace(final_dir, backup), outside the try.
MoveAway(i) ==
  /\ pc[i] = "moveAway"
  /\ \/ /\ IsDir(final)
        /\ backup' = [backup EXCEPT ![i] = final] /\ final' = NoDir
        /\ Goto(i, "activate") /\ UNCHANGED staging
     \/ Raise(i, "failed") /\ UNCHANGED <<final, backup>>

\* Variant: the staging directory is copied, and the copy may stop half way.
ActivateCopies(i) ==
  /\ pc[i] = "activate" /\ ~IsDir(final)
  /\ final' = staging[i] /\ Goto(i, "restore")
  /\ UNCHANGED <<staging, backup>>

\* os.replace(staging, final_dir) fails when another command has put a
\* directory there, and may fail for reasons of its own.
Activate(i) ==
  /\ pc[i] = "activate"
  /\ \/ /\ ~IsDir(final)
        /\ final' = staging[i]
        /\ staging' = [staging EXCEPT ![i] = NoDir]
        /\ Goto(i, "cleanup")
     \/ Goto(i, "restore") /\ UNCHANGED <<final, staging>>
  /\ UNCHANGED backup

\* Variant: the handler gives up without looking for its backup.
RestoreNothing(i) ==
  /\ pc[i] = "restore"
  /\ Raise(i, "failed")
  /\ UNCHANGED <<final, backup>>

Restore(i) ==
  /\ pc[i] = "restore"
  /\ IF IsDir(backup[i]) /\ ~IsDir(final)
     THEN Goto(i, "putBack") /\ UNCHANGED staging
     ELSE Raise(i, "failed")
  /\ UNCHANGED <<final, backup>>

\* os.replace(backup, final_dir): refused if a directory has come meanwhile,
\* and otherwise taken to succeed (one file system fault per command).
PutBack(i) ==
  /\ pc[i] = "putBack"
  /\ IF IsDir(final) THEN UNCHANGED <<final, backup>>
     ELSE final' = backup[i] /\ backup' = [backup EXCEPT ![i] = NoDir]
  /\ Raise(i, "failed")

\* shutil.rmtree(backup) removes file by file, so that an interruption finds some of
\* it left; when it fails, on the first file or on a later one, the command ends with
\* an error although its environment is in place.
Cleanup(i) ==
  /\ pc[i] = "cleanup"
  /\ \/ backup' = [backup EXCEPT ![i] = NoDir] /\ Goto(i, "ok")
     \/ /\ IsDir(backup[i])
        /\ \E left \in SUBSET backup[i].parts :
             backup' = [backup EXCEPT ![i].parts = left]
        /\ Goto(i, "cleanup") \/ Goto(i, "cleanupFailed")
  /\ UNCHANGED <<final, staging>>

\* KeyboardInterrupt unwinds the `with` block but is no OSError; SIGKILL and
\* power loss unwind nothing.
Interrupt(i) ==
  /\ pc[i] \notin Over
  /\ Goto(i, "interrupted")
  /\ staging' \in {staging, [staging EXCEPT ![i] = NoDir]}
  /\ UNCHANGED <<final, backup>>

Next == \E i \in Installer :
  \/ Exists(i) \/ Compare(i)
  \/ MakeStaging(i) \/ Extract(i) \/ ValidateRootfs(i) \/ WriteManifest(i)
  \/ Look(i) \/ MoveAway(i) \/ Activate(i) \/ Restore(i) \/ PutBack(i)
  \/ Cleanup(i) \/ Interrupt(i)

Spec == Init /\ [][Next]_vars

-----------------------------------------------------------------------------
(* Properties. *)

\* A directory an install command made visible is complete, at every moment and
\* wherever any command was interrupted.
OnlyCompleteVisible == final.by \in Installer => final.parts = Part

\* When every command has run to its end, whatever failed and in whatever order
\* they swapped directories, a name that was taken, or that a command reported
\* as installed, is taken.
EnvironmentNeverLost ==
  /\ \A i \in Installer : pc[i] \in Over \ {"interrupted"}
  /\ IsDir(before.dir) \/ \E i \in Installer : pc[i] = "ok"
  => IsDir(final)

\* The environment that was there before is not touched until a whole new one can
\* take its place: wherever commands fail, are interrupted or stop half way through
\* the removal of a backup, it is in place or aside as it was, or a whole one that a
\* command built is.
OldKeptUntilReplaced ==
  IsDir(before.dir) =>
    \E d \in {final} \cup {backup[i] : i \in Installer} :
      d = before.dir \/ (d.by \in Installer /\ d.parts = Part)

\* "Existing conflicting installations are rejected unless --replace is
\* explicit": a command without it never moves a directory away.
ReplaceOnlyOnRequest == \A i \in Installer :
  IsDir(backup[i]) => request[i].replace

\* "Installation is staged and atomically activated": an interrupted
\* replacement leaves the old environment or the new one.
InterruptedIsAtomic ==
  (\A i \in Installer : pc[i] \in Over) /\
  (\E i \in Installer : IsDir(backup[i])) => IsDir(final)

-----------------------------------------------------------------------------
(* The commands implement EnvironmentContract. *)

\* A directory as the contract sees it: whole, or nobody's work.
Env(d) == IF IsDir(d) /\ d.parts # Part THEN "unrecorded" ELSE d.by

\* How far a command has come, as the contract sees it.
PhaseOf(l) == CASE l = "cleanup" -> "installed"
                [] l \in Over -> l
                [] OTHER -> "working"

wanted  == [i \in Installer |-> request[i].prov]
origin  == before.prov
visible == Env(final)
aside   == [i \in Installer |-> Env(backup[i])]
phase   == [i \in Installer |-> PhaseOf(pc[i])]

Environment == INSTANCE EnvironmentContract

\* Whatever commands for one name do at once, and wherever they fail or are
\* interrupted: a command puts nothing but its own whole environment under the
\* name, only while the name is free, reports success only then or over an equal
\* one, gives up another environment only then, and fails with an environment
\* set aside only if the name is taken.
KeepsEnvironmentContract == Environment!Spec
=============================================================================
