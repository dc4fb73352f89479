# A TLA+ model of ETroute

ETroute runs Linux programs for Android applications. Its production path is a
C++ supervisor that an application calls through JNI from Kotlin; an older path
in Python installs a Linux root file system, enters it with PRoot, and proves to
the ETumax control plane, by a handshake, that the environment works. This
directory models both: the supervisor first, since everything above it relies on
what its answer means, and every other component that has state, concurrency or
failure of its own.

## 1. Inventory

### The system's parts

| Part | Source | State it keeps | Operations |
|---|---|---|---|
| Native supervisor | `native/src/native_supervisor.cpp` | descriptors, error pipe, one child and its process group, deadline, result | `run_process` and its helpers |
| JNI bridge and Kotlin result | `native/src/jni_native_supervisor.cpp`, `JniNativeSupervisor.kt` | pending exception, packed array | `nativeRun`, `run` |
| Android session runtime | `EtRouteRuntime.kt` | the directories, logs and output of a session | create, validate, run, finalize |
| Environment installation | `etroute.py` | `containers/<name>`, staging and backup directories, manifest | `install_rootfs` |
| ETumax bridge | `tools/etumax_bridge.py`, `bridge_protocol.py` | event, correlation, envelope, timeout | `run_bridge` |
| First-activation diagnostic | `tools/first_activation_diagnostic.py` | the activation marker in the rootfs | `marker_state`, `main` |
| Execution backends | `execution_backend.py` | registry of running processes | `execute`, `stop` |
| Command line of PRoot | `etroute.py` (`run`, `diagnose`), `execution_backend.py` (`ProotBackend`), `proot_launch_spec.py` | binds, probed flag, argument vector | `cmd_run`, `cmd_diagnose`, `build_proot_argv` (twice), `validate` |
| Package policy audit | `tools/verify_proot_s_mode.py` | the binds observed, the verdict | `audit` |
| Runtime contract | `runtime_contract.py` | immutable messages | `RuntimeRequest`, `RuntimeStatus`, `to_dict`, `from_dict`, `matches`, three constructors |
| Device validation | `tools/android_device_validation.py` | two envelopes, the report | `main`, `run_bridge`, `evaluate` |
| Device validator application | `device-validator/` | none beyond one run | a sequential pass over the JNI interface |
| Python for Android generator | `etroute_p4a.py` | none | recipe and hook text |
| Build, release, verification scripts | `tools/*.sh`, `tools/build_release.py`, ... | none | sequential |

The repository's README calls the Python and PRoot parts legacy and no part of
the production path; they are modelled because they are where concurrent
commands, interruptions and timeouts meet persistent state.

### How they interact

* `EtRouteSessionRunner.run` makes the session's directories, validates the launch
  and calls `JniNativeSupervisor.run`. That checks the launch, crosses into
  `nativeRun`, which calls `run_process`; seven numbers come back.
* `run_process` runs on the caller's thread. Concurrent calls share the descriptor
  table of the application: a fork in one duplicates the error pipe of another.
* `RuntimeSessionFinalizer` works on the same directories as programs that may still
  run, and on those of any caller that uses the same session identifier.
* `etumax_bridge.py` runs `etroute diagnose` as a subprocess with a timeout; below
  it PRoot runs the diagnostic, which leaves its marker in the rootfs that
  `install_rootfs` put in place. Killing `etroute` does not kill the guest.
* `android_device_validation.py` invokes the bridge twice, each time with a timeout
  around the bridge's own, while ETumax may invoke it for the same environment.
* `etroute.py` and `ProotBackend` each build a PRoot command line, the one from its
  own checks, the other through `proot_launch_spec.py`, "the source of truth". The
  audit compares the policy of `etroute.py` with what `proot -S` binds on this
  device.
* A controller and an adapter of the runtime exchange the messages of
  `runtime_contract.py`. The repository has the messages only.
* `execute` and `stop` of a backend run on different threads and share the registry
  and the `Popen` objects in it.

### What is hard

* **Interleaving.** Parent and child race to `setpgid`; a fork between two calls
  leaks a write end; the leader dies between `waitpid` and the look at the clock;
  two commands swap the same directory; two guests look for the same marker; two
  threads wait for one child.
* **Stale observations.** Paths of the host are looked at one step before they are
  bound or compared; a status of an earlier request arrives late.
* **Failure.** Every system call on the way to `exec` may fail with descriptors
  open; the child may be killed before it reports; another part of the
  application may collect it; a rename, an export, a marker or an allocation fails.
* **Timeouts.** The deadline escalates from TERM to KILL over a group whose leader
  may be dead already; the bridge's timeout leaves a guest behind; the wait after
  a kill has a timeout of its own.
* **Crashes.** An installation is interrupted between two renames.
* **Agreement.** Stage numbers, argument bounds and the meaning of success are
  written in two languages; the rules of a PRoot launch in three files.

`PROJECT.json` lists each of these at its line, with the properties that would
catch it, or why none does.

### What makes each part correct

* Supervisor: it returns, unless its leader escapes the group; it returns with its leader
  collected and its descriptors closed; its verdict and its success are true of the child; after a forced end
  nobody is left in the group.
* JNI: Kotlin learns what the native side found; no launch is accepted above and
  refused below; a call never comes back unreadable.
* Session: finalized means over, where nothing is left running; output goes only when a caller said so, and an
  export comes first.
* Installation: only complete environments are visible; a failed command changes
  nothing; nothing is lost before its replacement is in place.
* Bridge and diagnostic: success is claimed only of a proven handshake, and a first
  activation happens once.
* Device validation: PASS is of two runs that really followed one another, and the
  second found what the first left.
* Command line: each path of the package policy survives whatever a caller adds; the launchers
  agree; a passed audit means what it says.
* Runtime contract: a controller believes only what was proven for its very request.
* Backends: a stop that says True has ended the process; the two threads never wait
  for each other.

## 2. Modules

| Module | Models | Extends or instantiates |
|---|---|---|
| `NativeSupervisor` | `run_process`, any number of concurrent calls | instantiates `SupervisionContract` |
| `SupervisionContract` | what a caller may rely on | |
| `JniNativeSupervisor` | `run` in Kotlin, `nativeRun` in C++ | |
| `SessionRuntime` | `EtRouteRuntime.kt` | instantiates `SupervisionContract` |
| `RootfsInstall` | `install_rootfs` | instantiates `EnvironmentContract` |
| `EnvironmentContract` | what install commands promise about one name | |
| `EtumaxBridge` | bridge, `etroute diagnose`, guest | instantiates `HandshakeContract` |
| `HandshakeContract` | what ETumax may rely on | |
| `DeviceValidation` | `android_device_validation.py` over the bridge | extends `EtumaxBridge` |
| `ProotLaunch` | the three ways to a PRoot command line, and the audit | |
| `RuntimeContract` | the messages of the runtime and who may believe them | |
| `ExecutionBackend` | `execute` and `stop` | instantiates `BackendContract` |
| `BackendContract` | what their callers may rely on | |

`MCNativeSupervisor`, `MCJniNativeSupervisor`, `MCSessionRuntime`,
`MCDeviceValidation`, `MCProotLaunch` and `MCRuntimeContract` hold the values, the
symmetry and the bounds that only TLC needs. `NativeSupervisorProofs`,
`JniNativeSupervisorProofs`, `SessionRuntimeProofs`, `RootfsInstallProofs`,
`DeviceValidationProofs` (with the bridge), `ProotLaunchProofs`,
`RuntimeContractProofs` and `ExecutionBackendProofs` hold the theorems; each extends
the module it is named for (`NativeSupervisorProofs` also instantiates
`JniNativeSupervisor`).

`SessionRuntime` does not repeat the supervisor: it runs programs through
`SupervisionContract`, and `NativeSupervisor` implements that contract: the run
`calls` checks it on an instance and the theorem `ContractIsKept` proves it for
every one. What is shown of a session therefore rests on what the supervisor
has been proved to promise. `JniNativeSupervisor` does not repeat it either: it lets
`run_process` answer anything in `Answers`, and the theorem `ResultsAreAnswers`
proves that what the supervisor returns is in that set, whatever numbers its
abstract fields stand for.

An operator introduced by a comment that begins with "Variant" is a plausible bug
in the definition that follows it. No specification uses one; each exists to
show that some property notices it.

### NativeSupervisor

`pc[r]` is the position of the supervising thread in `run_process`,
`terminate_process_group` or `read_child_failure`. `fds[r]` holds the
descriptors open in the application, `result[r]` and `wstat[r]` the locals of the
same names (`wstat` is `"none"` while `status_valid` is false). On the kernel's
side, `child[r]` is the leader: the setup step it is about to take, named by the
`SpawnStage` it reports when the step fails, then `running`, or `away` once it has
left its process group, `zombie`, `reaped`.
`heir[r]` is the set of calls whose write end the leader still holds; it is set
by `Fork` to every write end open at that moment and emptied by `execve` or
death. `grouped[r]` says that the leader heads its own group, `record[r]` is the
`ChildFailure` in the pipe, `kin[r]` are the descendants.

Every system call that another process can observe is a step. `Refuse` is the
shape of the early returns. `ReadChildFailed`, `ReadExecSucceeded` and
`ReadFailed` are the three outcomes of the pipe; the second needs every copy of
the write end to be gone, wherever it is. `Poll` and `PollClock` are two steps
because the clock is read after `waitpid` has answered. `SendTerm`, `GraceReap`,
`GraceProbe`, `KillProbe`, `SendKill` and `FinalReap` are
`terminate_process_group`. The environment may end a program, kill a child
before its program, collect it from elsewhere, let the leader leave its group with
`setpgid` (`LeaderLeaves`), and let descendants start, in the group or beside a leader
that has left it, leave the group with `setsid` and end.

Abstracted: EINTR retries and partial reads and writes of the record (the loops hide
them), the fallback to `kill(pid)` after an error other than ESRCH, the reuse of a
process identifier, an allocation failure (`run_process` is `noexcept`: the
application ends), and a wait error other than ECHILD. A process that has left the
group does not join it again, although `setpgid` would let it within the session;
`NoMemberSurvivesFailure` rests on that. `Refuse` closes all that is open at once,
where the code has one `close` per descriptor. Errno, exit code, signal and time are reduced to what the result's readers
tell apart.

### SupervisionContract

Three variables: how far each call's program has come (`prog`), whether its group
holds a live descendant (`company`), the answer (`answer`). `Justified` is the
promise: a refusal means no process ever existed, a spawn failure that the
program never ran and nobody is left, success that it ran to its end, a timeout
or a lost child that nobody is left. An answer `finished` promises nothing of
descendants, because the code signals nobody when the leader ends by itself.

### JniNativeSupervisor

One call. `Construct` is the `init` blocks of `PreparedLaunch` and
`NativeResourceLimits`, `CheckScalars` is `validate_scalar_arguments`, `Convert`
converts one argument per step and may leave an exception pending, `RunProcess`
answers with any result the return paths of `run_process` can build, `Pack` is
`pack_result` with its allocation, `Back` the checks and the decoding in Kotlin.
The stages are numbered twice, as in the code (`NativeStage`, `KotlinStage`), and
`Long.toInt()` wraps at a width that is a constant. Null arguments are left out:
the only caller passes none.

### SessionRuntime

Each client goes through `create` (one directory per step), `validate`, the
opening of the logs, the supervised program and `finalize` (export, the three
deletions, the diagnostics, the report, one step each). Clients may share a
session identifier. Programs write to `workspace/output` and to the log their
output goes to, and make directories again that were deleted, for as long as a
process of theirs lives: one in the group, as long as the contract lets it, or a
descendant that has left it (`stray`), of which no answer tells anything.
`attached` remembers whether the log in place is the one a program writes to.

The result of `deleteRecursively` is ignored, and any deletion may fail, in part or
altogether, whoever runs: a directory that the program left unwritable is enough. It
follows links, as does the cutting of a log; where a program left a link to its output
among the files that are deleted or cut (`linked`), `LinksFollowed` may take any part
of the output along. A log that can be neither read nor written ends a finalization
with an exception (`diagnosticsFailed`). Links to places outside the session, which
`deleteRecursively` follows as well, are left out: nothing in the model is there. The
rules of `PreparedLaunchValidator` on paths and the environment are one
nondeterministic refusal, which the code's callers may meet with a finalization or
by giving up. Programs that write elsewhere are left out: the validator keeps
their working directory inside the session.

### RootfsInstall and EnvironmentContract

A directory is a record of who built it and which parts it holds. Every file
system call of `install_rootfs` is a step: both looks at `final_dir`, the staging
directory, extraction, the shell test, the manifest, the two renames, the
restoration and the clean-up. Errors leave by the `with` block, which removes the
staging directory; `Interrupt` stops a command anywhere, with that removal
(KeyboardInterrupt) or without (SIGKILL, power loss). `Cleanup` removes a backup part
by part, so that an error or an interruption may leave any of its parts. One file
system fault per command: a restoration after a failed activation is not made to fail
as well.

`EnvironmentContract` knows no staging, no parts and no checks: there is what is
under the name (`visible`), what each command has set aside (`aside`) and how far it
has come (`phase`). A command puts only its own environment under the name, whole
and only while the name is free; it says `ok` only then, or over an environment made
from the same; it gives up what it set aside only after that, bit by bit (`Spoil`) and
perhaps not to the end; and it ends in a
failure, with something set aside, only if the name is taken. An environment stands
for the command that built it; `"old"` is the one from before, and `"unrecorded"` a
directory that is no whole environment, to which a command only ever says conflict
or which it replaces. The mapping reads all five off the directories and `pc`.

### EtumaxBridge and HandshakeContract

One record of state per handshake for the bridge, for the `etroute diagnose`
process and for the guest, and the marker, which all share. `Expire` kills the
`etroute` process only. A report is the set of its fields that matter, built as
the shipped diagnostic builds it or as the bridge's validation expects it
(`Script`). An event is `rejected` or in `conflict` where the code says so in an
envelope; `malformed` where `load_event` meets an exception it does not catch (a field
is missing, `created_at` is no string, the file is not UTF-8); `unlaunchable` where its
session identifier holds a NUL, at which `subprocess.run` raises ValueError. The
marker is written, or not, or written in part before an error, which the report then
names. The envelope file of `--json-out`, the field rules of the event protocol and
the optional binds are left out.

`HandshakeContract` has no processes, timeouts, reports or envelopes: a handshake is
asked for once and answered once, or never; it is answered `completed` only if the
guest of that very handshake ended clean, which takes a look at the marker and the
marker left; and a look finds a first activation only while there is no marker. The
guest may begin, look and end after the answer, as the one of a bridge that timed
out does. `Said` is the mapping of an envelope to an answer.

### DeviceValidation

`EtumaxBridge` with the state of `main`: `stage`, and the bridges it had to kill. A
run of `run_bridge` is an invocation of the bridge without an event; it goes on when
that bridge is over, or `OuterExpires` kills the bridge, not what runs below it, and
raises what nothing catches. `Evaluate` is `evaluate`: what it reads of the two
envelopes, with the kernel release, the uptimes and the place of the marker each
free to be wrong. Handshakes that ETumax starts, and guests that outlive their
bridge, go on beside it.

### ProotLaunch

One launch and one audit in one environment, while `HostChanges` lets any path
appear or vanish between two steps. A launch is one of `run` in its three modes,
`diagnose`, or `ProotBackend`; its steps are the checks in the order of the code,
each of which may refuse. A bind is a host path, a destination in the guest and a
slot, by which two equal binds of a caller stay two. The host is what the symbolic
links of a path lead to (`leads`: both launchers resolve them), the destination is a
spelling, as in the code, which compares destinations as strings: those in `Covering`
hide another one, as `/etc` and `//etc/passwd` do. A release may be blank or padded
and the first word of a command blank. `AddPolicy` is
`validate_package_extra_binds` with `package_policy_binds`, `BuildArgv` the
`build_proot_argv` of `etroute.py`, `CanonicalArgv` and `SpecValidates` those of
`proot_launch_spec.py`. `AuditChecks`, `AuditProbes` and `AuditCompares` are
`audit`, which compares paths by name, without following links, and drops the
destinations.

Abstracted: a loop over paths looks at all of them in one step, so that what comes
and goes does so between loops; how PRoot's diagnostics are parsed; the JSON
form of the specification, the working directory and the environment of the guest,
which no check relates to the binds; the report file of `--json-out`.

### RuntimeContract

`Constructs` is `RuntimeStatus.__post_init__` as far as it relates fields, `ToDict`
and `FromDict` are the JSON forms, `Matches` and `AuthoritativeRunning` what a
reader asks of a status, `StartingStatus`, `RunningStatus` and `FailedStatus` the
constructors with the arguments a caller may give. Nothing in the repository calls
them, so that the controller, the adapter and the wire are the least that these
functions imply: the controller waits for the status of its last request; the
adapter turns to any request it was sent, also to one it has left, starting from
nothing, and reports what it finds; the wire loses, repeats and delays, and carries
documents written without this module, whose `authoritative_running` says anything.
One document is under way at a time: each is read against the current request only,
and an old one stays for as long as nothing else is sent.

The facts of a status are taken to be what the adapter found. `RunningStatus`
asserts all three whatever its caller knows; the model lets an adapter use it only
where they hold, and a caller who does otherwise is not caught by the contract. Nor
does anything compare `updated_at`: a RUNNING that comes after a FAILED of the same
request is taken as what was once true, and `RunningIsProven` says no more.

### ExecutionBackend and BackendContract

`execute` is Popen, registration, reading both pipes to their end, collecting the
child, removal from the registry. `stop` takes the process out of the registry
and goes through terminate, wait, kill, wait. `holders` says that a descendant
keeps the pipes open, `sweeping` that the child is a PRoot with `--kill-on-exit`
in force, whose end takes its guests along. The locking inside `Popen` is the
library's and is modelled by what it guarantees. A child that closes its output
before it ends is left out.

In `BackendContract` an execution is offered to stops once, between its registration
and its end, one stop at most takes it, and every call answers once: `True` of a
child that is over, `False` of one that was not on offer or could not be ended,
`completed` of one that exited with zero, and an execution that has returned is
offered no longer. A stop that comes before the registration is told `False`, as in
the code (`execution_backend.py:227`).

## 3. Runs

| Run | Instance | States, time | What it shows |
|---|---|---|---|
| `calls` | 2 calls, 2 descendants | 194 000, 100 s | the safety of the supervisor with an inherited pipe, what it blocks on, `EveryCallReturns`, and `KeepsContract`: the refinement of `SupervisionContract` |
| `jni` | every launch around zero, every stage | 2 400, 2 s | the two languages agree on results and arguments |
| `session` | 2 clients, 1 session, 3 requests at odds | 1 580 000, 100 s | finalization, preservation and export over the supervisor's contract |
| `install` | 2 commands, 2 provenances | 79 000, 18 s | visibility, failure and preservation, with interruptions anywhere; the refinement of `EnvironmentContract` |
| `device` | 2 validation runs, 2 handshakes, both diagnostics | 256 000, 150 s | what a PASS may claim; the marker under retries; every invocation and the validation end; the refinement of `HandshakeContract` |
| `launch` | 1 launch, 1 audit, 3 paths and 4 further destinations | 1 161 000, 110 s | the package policy, the agreement of the launchers, the audit, with a host that changes |
| `runtime` | 4 requests that differ in one field, 2 of them sent | 1 370 000, 85 s | what a controller believes; what the module writes it reads |
| `backend` | 2 executions, 2 stops | 178 000, 100 s | stops and executions that collect one child; liveness of both; the refinement of `BackendContract` |
| `install_conflict` | as `install` | | violated: finding 1 |
| `install_crash` | as `install` | | violated: finding 2 |
| `bridge_contract` | 1 handshake, the shipped diagnostic | | violated: finding 3 |
| `bridge_envelope` | the same | | violated: finding 4 |

### Why these bounds

* Calls of `run_process` meet only through inherited write ends, and the property
  that speaks of this relates a call to one other call's child; two calls show every
  such pair. Two descendants show one that stays, one that leaves and the order of
  their ends. `Bound` of `MCNativeSupervisor` keeps the two apart: descendants exist,
  and the leader leaves its group, in one call only, always the same, and only while
  the other has not begun or has refused its arguments; descendants are born in one
  order. At most one call meets one of these at a time: an error pipe that fails or
  carries a record, an exit code other than 0, a child collected by others. Nothing
  a descendant does touches another call, and the theorems hold without the bound.
* Two installers and two provenances show a conflict, an agreement, and every order
  of two swaps of one name.
* Two clients of one session show sharing; a client with a session of its own is the
  case where the other has not begun (`Alone`). The three requests cover both values
  of each flag and each kind of sink. `Bound` of `MCSessionRuntime` gives the two
  different requests, and lets one of these be at a time: descendants of one caller in
  its group, one that has left it, a link to the output; the answers `succeeded` and
  `lost` are left to the theorems, since every rule treats them as `finished` and
  `timedOut`.
* Two handshakes show a retry beside the guest of a timed-out one, and one begun
  after another completed. `Bound` of `MCDeviceValidation` takes either those two,
  with any event and any diagnostic for one, and no validation, or a validation
  after one handshake, whose guest may live on, with a diagnostic that follows the
  contract: the shipped one never completes a handshake, so that there would be
  nothing to pass.
* One path of `launch` is in the policy, one may be HOME, and HOME may be in the
  policy; one destination is forbidden, one covers others, one is elsewhere, and two
  binds of a caller show every clash. One path may be a link. One path changes, once a launch has been asked for; the audit goes with a
  plain package launch, as its property does; binds and the other choices are varied
  one at a time where no rule relates them.
* `runtime` has one request and three that differ from it in exactly one field, so
  that each field of `matches` is needed by itself. `Limit` is how many the
  controller sends.
* Two stops of one execution, and of two, with two executions.
* `IntMax = 127` in `jni` is a small width; the theorems cover every one.

Symmetry is used in `session` only, which checks no liveness. Deadlock is not
checked anywhere: all calls, commands and handshakes end, and then the system stops.

### Fairness

* `NativeSupervisor!FairSpec`: weak fairness of each supervising thread, of the
  child's setup, and of the clock. Threads are scheduled, a forked child that is not
  killed gets to its `execve` or its `_exit`, time passes. Nothing obliges a program
  or a descendant to end or a read to fail. `EveryCallReturns` asks one thing of a
  program: that it stays in its process group, or ends. `MCSpec` of `MCNativeSupervisor` asks the same of the steps
  within the bound.
* `EtumaxBridge!FairSpec`: the bridge runs and its timeout passes. `etroute` and the
  guest may hang at any point.
* `DeviceValidation!DeviceFairSpec` adds that `main` runs, its own timeouts
  included. All bridges are one action there: each takes finitely many steps, so
  that weak fairness of their union is that of each. `MCSpec` asks the same of the
  steps within the bound.
* `ExecutionBackend!FairSpec`: the threads of `execute` and `stop` run. Children and
  descendants may live for ever; `StoppedExecuteReturns` therefore promises the end
  of an `execute` only where no descendant holds its pipes.

## 4. Properties

**Supervisor.** `DescriptorsBalanced`, `VerdictSound`, `GroupAddressable`,
`LeaderCollected`, `NoMemberSurvivesFailure`, `SuccessIsReal`, `WaitsAreMet`,
`EveryCallReturns`, `KeepsContract`. The delicate ones are `VerdictSound` (an end of file must mean
that the child is past its setup, although other children may hold the pipe),
`GroupAddressable` (whoever wins the race to `setpgid`) and
`NoMemberSurvivesFailure` (a leader that obeys TERM while descendants do not).
`WaitsAreMet` is the safety half of `EveryCallReturns`: a read of the error pipe
waits only for children on their way to their programs, of whichever call, never for
a copy left in the application; a `waitpid` that blocks waits only for a leader that
is dying or dead, or that has left its group. That is the exception of both: of a
leader that has called `setpgid` for another group, the probe at
`native_supervisor.cpp:214` finds nobody, no SIGKILL is sent, and the `waitpid` at line
220 holds the thread, past the deadline, for as long as the leader lives. A call then
returns only if that leader ends; a `timeoutMillis` does not bound it.
`GroupAddressable` and `NoMemberSurvivesFailure` are about the members of the group,
which is what `kill(-pid)` reaches.

**JNI.** `ResultFaithful`, `ArgumentsAgree`, `CrossesSafely`.

**Session.** `FinalizedIsFinal` and `ExportIsComplete` are about sessions that are
`Quiet`: one caller, an answer that means a forced end of the group, and no descendant
that had left the group. Then `cleaned` says exactly what is gone, also where
deletions failed, a retained log is within its bound, and the sink has all that was
written. In every other session a process may still write, also to the log the
finalizer has cut once (`EtRouteRuntime.kt:252`), which may then grow past the bound
`README.txt:99` speaks of without a condition, and to directories reported as cleaned.
`OutputPreserved` holds whatever callers share the session, unless a program left a
link to its output in the way of the finalizer: `README.txt:96` knows no such
exception.

**Installation.** `OnlyCompleteVisible`, `EnvironmentNeverLost` (all commands ran to
their end), `OldKeptUntilReplaced` (also when interrupted, or when the removal of a
backup stops half way: the old environment is in place or in a backup as it was, or a
whole one that a command built is), `KeepsEnvironmentContract`. A backup whose removal
stopped may be left as a part of an environment; nothing looks for it.

**Bridge.** `OneFirstActivation`, `EveryHandshakeEnds`, `KeepsHandshakeContract`.

**Device validation.** `PassIsEarned` relates the verdict to the guests themselves:
both ended by themselves and found nothing wrong, the later one with the marker
there, and no bridge was killed. `ValidationEnds` holds although a guest hangs,
because an exception without a report is an end too. Both rest on `run_bridge`'s
timeout, 10 seconds after one the bridge may still be handling.

**Command line.** `PackageKeepsPolicy` (each path of the policy that was there
throughout is bound from where its links lead onto its name, and no destination, as it
is spelled, has two sources). That no identity file is covered, as
`docs/ETROUTE_CONTEXT.md:53` has it, is true of destinations as they are spelled: a
caller's `HOST:/etc` or `HOST://etc/passwd` passes the check at `etroute.py:298`, and so
does `//dev` beside `/dev`. The property names the two ways in which a launch may cover
one: a bind of the caller whose destination is in `Covering`, and a HOME that is such a
path. `LaunchersAgree` is in both directions (nothing is built that the specification
refuses, nothing refused that it accepts), with two exceptions that are in the code:
`etroute.py` passes on a release that is blank or padded, where the specification
strips it (`proot_launch_spec.py:114`), and builds a command whose first word is blank,
which the specification refuses (`:79`). `AuditedEquivalence` is about each path that
stays, while others come and go: the launch binds it onto its name if and only if `proot -S`
named it as bound. It says nothing of where `proot -S` maps the path to or of what its
links lead to: the audit sees neither (`verify_proot_s_mode.py:160`, `:297`).

**Runtime contract.** `RunningIsProven`, `AcceptsItsOwn` (of the fields that decide;
what JSON does to tuples or keys inside the diagnostics is abstracted).

**Backends.** `StopMeansGone`, `StoppedExecuteReturns`, `EveryStopEnds`,
`KeepsBackendContract`.

Four more are only proved: `FailureInstallsNothing` (a command that failed has
nothing of its own in place or in a backup), `HandshakeProven` (exit code, state and
acknowledgement of an envelope agree, and claim success only of a proven
handshake), `StoppedOnce` and `ReturnsClean`. The runs of their modules check the
contracts, which a step that broke one of them would break as well; they are defined
in the modules of the proofs.

### Findings

1. `etroute.py:261` looks at the target directory again after staging and moves
   away whatever is there, also without `--replace`. `docs/ETROUTE_CONTEXT.md:49`
   says conflicting installations are rejected unless `--replace` is explicit. Run
   `install_conflict`.
2. `etroute.py:263` and `:265` are two renames with nothing between them that
   survives an interruption; `docs/ETROUTE_CONTEXT.md:48` says the installation is
   atomically activated. Run `install_crash`.
3. The diagnostic that ships with the repository emits a report that the bridge's
   validation (`etumax_bridge.py:64`) cannot accept, so a healthy handshake ends
   FAILED. `docs/ETROUTE_CONTEXT.md:97` says the bridge completes the proof. Run
   `bridge_contract`.
4. An event object without one of its required fields, or whose `created_at` is no
   string, raises a `TypeError` that nothing catches; bytes that are not UTF-8 and a
   `session_id` with a NUL raise a `ValueError`. No envelope is printed, although the
   docstring of `etumax_bridge.py` promises a terminal one. Run `bridge_envelope`.

## 5. Proofs

`NativeSupervisorProofs` proves, for every set of calls and of descendants and with
no assumption on either, `TypeCorrect`, `NeverLeaksDescriptors`, `VerdictIsSound`,
`SignalsReachTheLeader`, `LeaderIsCollected`, `FailureEmptiesTheGroup`,
`SuccessNeverInvented` and `EveryWaitIsMet`: every safety invariant that `calls`
checks.

None of them is inductive by itself. `IInv` is `TypeOK` and, for each call,

* `fds[r] = Held(pc[r])`;
* `ChildInv`: a record is written only by a child that never reaches its program,
  descendants exist only beside a program, a known status is the child's own;
* `PipeInv`: a child before its program holds the write end of its own call. This is
  why an end of file cannot come early, whatever the other calls do, and the
  only conjunct that speaks of other calls;
* `GroupInv`: past its own `setpgid` or past the parent's, a live leader heads its
  group until it leaves it;
* `StageInv`: what the position of the thread says of the stage it will report;
* `EndInv`: who can still be there at each step of the end of a call: at the last
  `waitpid` nobody in the group, and the leader dying, dead or away.

There is one lemma per group of actions; a step of one call leaves the conjuncts of
the others alone except through `heir`, `KillGroup` and the clock, which touch only
their own call's entry.

`EveryWaitIsMet` needs one more conjunct, `HeirInv`: only a child that has not
reached its program holds write ends. A child that inherits the pipes of other
calls, and hands none on, cannot be what these wait for once it runs.

`ResultsAreAnswers` links the supervisor to the JNI bridge. `Stands(n, res)` says
that the record of numbers `n` is one that the abstract result `res` stands for;
`ShapeInv` says how the fields of a result go together (`timed_out` exactly with
stage TimeoutKill, an errno with every other failed stage, never an exit code and a
signal) and that nothing is decoded before the end. Every such `n` is in
`Answers`, some `n` exists, and `succeeded()` holds of both or of neither. So
`ResultsAgree`, proved for `Answers`, is about what the supervisor really returns.

`ContractIsKept` is the refinement, proved with the same invariant. `Abstract(r)`
says what a step of one call may do to its own three values of the contract,
`Mapping` how these follow from the position of the thread and the state of the
child. Each action is shown to be `Abstract` (an answer is justified because of what
`EndInv` and `StageInv` say of the child), the other calls do not change, and `Lift`
turns both into a step of `SupervisionContract` or a stutter.

`JniNativeSupervisorProofs` proves `TypeCorrect`, `ResultsAgree`, `ChecksAgree` and
`AlwaysReadable` for every set of exit codes, signals and errnos that an Int of any
width holds (`WidthAssumption`: the width holds the fourteen stages, exit codes are
not negative, signals and errnos are positive). `ToIntKeeps` shows that such a
number survives the Long, `RoundTrip` that decoding undoes packing up to the two
nullable fields; the inductive invariant says of each position what is known of the
launch, of a pending exception and of the result.

`SessionRuntimeProofs` proves `TypeCorrect`, `OutputIsPreserved`, `FinalIsFinal` and
`ExportedIsComplete` for any callers, sessions and requests (`WishAssumption`:
requests are of their type). `NativeInv` carries the contract: after a forced end no
process of the group is left. `SinkInv` says that a finalization that goes on had no
sink that threw, `QuietInv` how far a caller that is alone has got with a
session in which nothing runs any more, and `KeptInv` that its output is there until it
exports it.

`RootfsInstallProofs` proves every invariant of `install`, and `FailureIsClean`, for
any number of commands (`InstallerAssumption`: no command is called "old", "nobody"
or "unrecorded", the marks of directories without one). A removal that stops half way
is a step like any other.
`StagingInv` follows a staging directory through its parts, `PlaceInv` says that
what is in place or in a backup is the old directory or a complete one of a command
that came that far, and `HolderInv` that while the name is free although it was
taken, somebody who has not ended has the directory in a backup.
`EnvironmentIsKept` is the refinement of `EnvironmentContract`. It rests on
`RecordInv` (a directory under the name or in a backup that has a manifest has all its
parts), because the code accepts what it finds by its manifest alone; one lemma per
step of the command names the step of the contract it is, or none.
`ReplacesOnlyOnRequestInTurn` marks off finding 1: as long as no two commands are
under way at once (`OneAtATime`, a hypothesis of the theorem, since nothing in the
code guarantees it), only a command with `--replace` moves an environment away. A
command without it that goes on has found the name free, and `Unasked` says that it
still is.

`DeviceValidationProofs` proves `BridgeSound` for the bridge alone and
`TypeCorrect`, `PassEarned`, `EnvelopesSound` and `FirstActivationOnce` for the
validation over it, for any handshakes, events and diagnostics (`ScriptAssumption`,
`RunsAssumption`). `HandshakesKept` is the refinement of `HandshakeContract` by the
bridge alone, `HandshakesKeptUnderValidation` by the bridges a validation starts and
kills: a killed bridge is a handshake that is never answered, whose guest goes on.
`BridgeInv`, `GuestInv`, `MarkerInv` and `Proven` say of each
handshake what its bridge, its guest, the marker and its envelope may be at each
step; `StageInv` that the two runs follow one another and that nothing changes the
envelopes a report is made of. The steps of the bridge are shown to keep the first
four once, and used twice.
Three theorems mark off findings 3 and 4. `VerdictIsExact`: with a diagnostic whose
report has what `validate_diagnostic` asks for, a healthy guest always completes its
handshake, and with the shipped one none ever does. `NoPassAsShipped`: hence no
validation reports PASS with the shipped diagnostic. `SilentOnlyIfUncaught`: only an
event that is malformed or unlaunchable ends a bridge without an envelope. They rest on `Judged`: a
bridge judges exactly when etroute has ended by itself, and nothing changes the
guest's end after that.

`ProotLaunchProofs` proves `TypeCorrect`, `PolicyIsKept`, `LaunchersDoTheSame` and
`AuditIsEquivalence` for any paths, policy and destinations (`PathAssumption`:
the policy names no destination that is forbidden or covers others, no covering one is
a forbidden one, and the markers are no paths; of HOME nothing is assumed). `KindInv` keeps the launchers apart, `BindsInv` and `ArgvInv` say what the
binds and the command line are made of and what was checked of them, `RefusedInv`
that nothing is refused that the specification accepts, `AuditInv` what the audit
knows.

`RuntimeContractProofs` proves `TypeCorrect`, `BelievedIsProven` and `OwnIsRead` for
any requests in any number (`RequestAssumption`: what the constructor of a request
lets through). `WireInv` says that a document that names all three proofs is of a
request for which they held, which stays true when the request is superseded: a
retry differs in a field that `matches` compares.

`ExecutionBackendProofs` proves the invariants of `backend`, `TakenOnce` and
`ReturnIsClean` for any number of executions and stops: an execute that has returned
left nothing in the registry, its child, if it started one, has been collected, and it
says completed exactly of one that exited with zero. `TakenInv` says that whoever was
given a process took it out of the registry for good, `ResultInv` that a result is made of a child that has been
collected. `BackendIsKept` is the refinement of `BackendContract`; `CallInv` adds what
it needs of the children: one that is over has an exit code, and one that `execute`
goes on with exists.

Every contract is thereby proved of its implementation for all values of the
constants: `ContractIsKept`, `EnvironmentIsKept`, `HandshakesKept` and
`BackendIsKept` have the same shape: what one step does to the values of the
contract, that it leaves those of the others alone, and that both together are a step
of the contract or a stutter.

Checked by TLC only: every liveness property (`EveryCallReturns`,
`EveryHandshakeEnds`, `ValidationEnds`, `StoppedExecuteReturns`, `EveryStopEnds`:
fairness and ENABLED are beyond the prover), and that the four violated properties are
violated. Every invariant of the other runs is proved.

## 6. Not modelled

* `etroute_p4a.py`: recipe and hook text from a plan, in one process, without state.
* The device validator application: one sequential pass over the JNI interface,
  whose two sides are in `JniNativeSupervisor` and `SessionRuntime`.
* The build, release and verification scripts: sequential drivers of Gradle, adb and
  hashes.
* Archive member rules and checksums of an installation: decided per file, before
  anything is visible. `list`, which only reads.
* The field rules of the event protocol, the envelope file of the bridge, the text
  of the reports.
* The reuse of process identifiers (see the hazards at `native_supervisor.cpp:218`),
  and a process that joins again the group it has left.
* A `communicate` that fails with an OSError (`execution_backend.py:238` and `:340`
  catch that of `Popen` and its own alike); a KeyboardInterrupt in a caller of a
  backend.

## 7. Plan

What the model could still take, in this order:

1. Loops over the paths of the policy as one step per path, which would show that
   `PackageKeepsPolicy` does not depend on a snapshot of the host.
2. Reuse of process identifiers in `NativeSupervisor`, to state what the grace
   period may signal.
3. The JSON form of `ProotLaunchSpec` with its round trip, as functions with lemmas.
4. Interrupts of a caller of `ExecutionBackend` between Popen and registration.

## 8. Running

    tlc -config calls.cfg MCNativeSupervisor.tla
    tlc -config jni.cfg MCJniNativeSupervisor.tla
    tlc -config session.cfg MCSessionRuntime.tla
    tlc -config install.cfg RootfsInstall.tla
    tlc -config device.cfg MCDeviceValidation.tla
    tlc -config launch.cfg MCProotLaunch.tla
    tlc -config runtime.cfg MCRuntimeContract.tla
    tlc -config backend.cfg ExecutionBackend.tla
    tlapm NativeSupervisorProofs.tla
    tlapm JniNativeSupervisorProofs.tla
    tlapm SessionRuntimeProofs.tla
    tlapm RootfsInstallProofs.tla
    tlapm DeviceValidationProofs.tla
    tlapm ProotLaunchProofs.tla
    tlapm RuntimeContractProofs.tla
    tlapm ExecutionBackendProofs.tla

The violation runs are `install_conflict` and `install_crash` (`RootfsInstall`),
`bridge_contract` and `bridge_envelope` (`EtumaxBridge`); TLC reports a
counterexample for each.
