------------------------ MODULE JniNativeSupervisor ------------------------
(***************************************************************************)
(* One call of run in JniNativeSupervisor.kt through nativeRun of          *)
(* jni_native_supervisor.cpp: a PreparedLaunch is checked in Kotlin, its   *)
(* scalars again in JNI and everything once more by run_process; the       *)
(* result crosses back as seven numbers that Kotlin decodes.               *)
(*                                                                         *)
(* What run_process answers is any result its return paths can build.      *)
(***************************************************************************)
EXTENDS Integers, Sequences

CONSTANTS
  ExitCode, Signal, Errno, Duration,  \* the values a result may hold
  Scalar,                             \* timeouts, graces and limits to try
  IntMax                              \* the largest Int, 2^31 - 1

ASSUME WidthAssumption ==
  /\ IntMax \in Nat /\ IntMax >= 13
  /\ ExitCode \subseteq 0 .. IntMax
  /\ Signal \subseteq 1 .. IntMax
  /\ Errno \subseteq 1 .. IntMax
  /\ Duration \subseteq Nat
  /\ Scalar \subseteq Int

VARIABLES
  launch,   \* the arguments of the PreparedLaunch constructor
  pc,
  next,     \* the argument that is converted next
  pending,  \* a Java exception is pending in the JNI environment
  native,   \* the NativeRunResult, once run_process has returned
  wire,     \* the long array nativeRun returned; <<>> for null
  kotlin    \* the decoded NativeRunResult

vars == <<launch, pc, next, pending, native, wire, kotlin>>

\* Whether every path starts with a slash stands for the checks of strings.
Launch == [absolute : BOOLEAN, timeout : Scalar, grace : Scalar, limit : Scalar]

\* The arguments that to_string and to_strings convert, in their order.
Arguments == 6

\* SpawnStage of native_supervisor.h and NativeSpawnStage of Kotlin, by number.
NativeStage == <<"Ok", "InvalidArgument", "OpenStdout", "OpenStderr", "ErrorPipe",
  "Fork", "Setpgid", "ResourceLimit", "Chdir", "Dup2Stdout", "Dup2Stderr",
  "Execve", "Waitpid", "TimeoutKill">>

KotlinStage == <<"Ok", "InvalidArgument", "OpenStdout", "OpenStderr", "ErrorPipe",
  "Fork", "Setpgid", "ResourceLimit", "Chdir", "Dup2Stdout", "Dup2Stderr",
  "Execve", "Waitpid", "TimeoutKill">>

Stage == 0 .. 13

NativeRunResult ==
  [exit : ExitCode \cup {-1}, signal : Signal \cup {0}, timedOut : BOOLEAN,
   errno : Errno \cup {0}, stage : Stage, duration : Duration]

\* The return paths of run_process: how the child ended is known or not, every
\* failed stage comes with an errno, and a killed call may.
Answers == {r \in NativeRunResult :
  /\ r.exit = -1 \/ r.signal = 0
  /\ r.timedOut <=> NativeStage[r.stage + 1] = "TimeoutKill"
  /\ NativeStage[r.stage + 1] = "Ok" => r.errno = 0
  /\ r.errno = 0 => NativeStage[r.stage + 1] \in {"Ok", "TimeoutKill"}}

\* An Int? of Kotlin: <<>> is null.
Nullable(S) == {<<>>} \cup {<<v>> : v \in S}

KotlinRunResult ==
  [exit : Nullable(0 .. IntMax), signal : Nullable(1 .. IntMax),
   timedOut : BOOLEAN, errno : Int, duration : Int,
   stage : {KotlinStage[i] : i \in DOMAIN KotlinStage}]

NoResult == [none |-> TRUE]

TypeOK ==
  /\ launch \in Launch
  /\ pc \in {"construct", "scalars", "convert", "run", "pack", "back", "done",
             "rejected", "threw", "nullResult", "refused"}
  /\ next \in 0 .. Arguments + 1
  /\ pending \in BOOLEAN
  /\ native \in Answers \cup {NoResult}
  /\ wire \in Seq(Int)
  /\ kotlin \in KotlinRunResult \cup {NoResult}

Init ==
  /\ launch \in Launch
  /\ pc = "construct"
  /\ next = 0
  /\ pending = FALSE
  /\ native = NoResult
  /\ wire = <<>>
  /\ kotlin = NoResult

-----------------------------------------------------------------------------
(* The three checks of the arguments. *)

\* Variant: a timeout of zero means none.
ConstructWithoutTimeout ==
  /\ pc = "construct"
  /\ pc' = IF launch.absolute /\ launch.timeout >= 0 /\ launch.grace >= 0
                              /\ launch.limit >= 0
           THEN "scalars" ELSE "rejected"
  /\ UNCHANGED <<launch, next, pending, native, wire, kotlin>>

\* PreparedLaunch and NativeResourceLimits throw IllegalArgumentException.
Construct ==
  /\ pc = "construct"
  /\ pc' = IF launch.absolute /\ launch.timeout > 0 /\ launch.grace >= 0
                              /\ launch.limit >= 0
           THEN "scalars" ELSE "rejected"
  /\ UNCHANGED <<launch, next, pending, native, wire, kotlin>>

\* validate_scalar_arguments.
CheckScalars ==
  /\ pc = "scalars"
  /\ IF launch.timeout <= 0 \/ launch.grace < 0 \/ launch.limit < 0
     THEN pending' = TRUE /\ pc' = "back" /\ UNCHANGED next
     ELSE pc' = "convert" /\ next' = 1 /\ UNCHANGED pending
  /\ UNCHANGED <<launch, native, wire, kotlin>>

\* Variant: the loop runs over one argument too many.
ConvertPast ==
  /\ pc = "convert"
  /\ next' = next + 1
  /\ pc' = IF next > Arguments THEN "run" ELSE "convert"
  /\ UNCHANGED <<launch, pending, native, wire, kotlin>>

\* to_string and to_strings: one that fails leaves an exception pending, and
\* nothing after it is converted.
Convert ==
  /\ pc = "convert"
  /\ \/ /\ next' = next + 1
        /\ pc' = IF next = Arguments THEN "run" ELSE "convert"
        /\ UNCHANGED pending
     \/ pending' = TRUE /\ pc' = "back" /\ UNCHANGED next
  /\ UNCHANGED <<launch, native, wire, kotlin>>

RunProcess ==
  /\ pc = "run"
  /\ native' \in {r \in Answers :
       launch.absolute /\ launch.timeout > 0 /\ launch.grace >= 0
         <=> NativeStage[r.stage + 1] # "InvalidArgument"}
  /\ pc' = "pack"
  /\ UNCHANGED <<launch, next, pending, wire, kotlin>>

-----------------------------------------------------------------------------
(* The result. *)

ABI_VERSION == 1
EXPECTED_ABI_VERSION == 1
RESULT_FIELD_COUNT == 7

\* Variant: a layout with one more field under the same version.
PackMore(r) ==
  <<ABI_VERSION, r.exit, r.signal, IF r.timedOut THEN 1 ELSE 0, r.duration,
    r.errno, r.stage, 0>>

pack_result(r) ==
  <<ABI_VERSION, r.exit, r.signal, IF r.timedOut THEN 1 ELSE 0, r.duration,
    r.errno, r.stage>>

\* A long array that cannot be allocated leaves an exception pending.
Pack ==
  /\ pc = "pack"
  /\ pc' = "back"
  /\ \/ wire' = pack_result(native) /\ UNCHANGED pending
     \/ pending' = TRUE /\ UNCHANGED wire
  /\ UNCHANGED <<launch, next, native, kotlin>>

\* Long.toInt() keeps the low bits.
ToInt(v) == ((v + IntMax + 1) % (2 * (IntMax + 1))) - (IntMax + 1)

\* takeIf { it >= least }
TakeIf(v, least) == IF v >= least THEN <<v>> ELSE <<>>

\* Variant: a signal of 0 is not told from none.
DecodeAnySignal(w) ==
  [exit     |-> TakeIf(ToInt(w[2]), 0),
   signal   |-> TakeIf(ToInt(w[3]), 0),
   timedOut |-> w[4] # 0,
   duration |-> w[5],
   errno    |-> ToInt(w[6]),
   stage    |-> KotlinStage[ToInt(w[7]) + 1]]

Decode(w) ==
  [exit     |-> TakeIf(ToInt(w[2]), 0),
   signal   |-> TakeIf(ToInt(w[3]), 1),
   timedOut |-> w[4] # 0,
   duration |-> w[5],
   errno    |-> ToInt(w[6]),
   stage    |-> KotlinStage[ToInt(w[7]) + 1]]

Acceptable(w) ==
  /\ Len(w) = RESULT_FIELD_COUNT
  /\ w[1] = EXPECTED_ABI_VERSION
  /\ ToInt(w[7]) + 1 \in DOMAIN KotlinStage

\* Back in Kotlin: a pending exception is thrown, a null array is a
\* NullPointerException, an array that is not as expected is refused.
Back ==
  /\ pc = "back"
  /\ \/ pending /\ pc' = "threw" /\ UNCHANGED kotlin
     \/ ~pending /\ wire = <<>> /\ pc' = "nullResult" /\ UNCHANGED kotlin
     \/ /\ ~pending /\ wire # <<>>
        /\ IF Acceptable(wire) THEN kotlin' = Decode(wire) /\ pc' = "done"
                               ELSE pc' = "refused" /\ UNCHANGED kotlin
  /\ UNCHANGED <<launch, next, pending, native, wire>>

Next == \/ Construct \/ CheckScalars \/ Convert \/ RunProcess \/ Pack \/ Back

Spec == Init /\ [][Next]_vars

-----------------------------------------------------------------------------
(* Properties. *)

\* succeeded() of the two NativeRunResult types.
NativeSucceeded(r) == /\ NativeStage[r.stage + 1] = "Ok"
                      /\ ~r.timedOut /\ r.errno = 0
                      /\ r.signal = 0 /\ r.exit = 0

KotlinSucceeded(k) == /\ k.stage = "Ok"
                      /\ ~k.timedOut /\ k.errno = 0
                      /\ k.signal = <<>> /\ k.exit = <<0>>

\* The result Kotlin sees says of the call what the native result says: the
\* same stage, errno and success, and an exit code or a signal exactly when
\* the child's end is known.
ResultFaithful == pc = "done" =>
  /\ KotlinSucceeded(kotlin) <=> NativeSucceeded(native)
  /\ kotlin.stage = NativeStage[native.stage + 1]
  /\ kotlin.errno = native.errno /\ kotlin.timedOut = native.timedOut
  /\ kotlin.duration = native.duration
  /\ kotlin.exit = IF native.exit = -1 THEN <<>> ELSE <<native.exit>>
  /\ kotlin.signal = IF native.signal = 0 THEN <<>> ELSE <<native.signal>>

\* The three places that check the arguments agree: a launch Kotlin accepts is
\* refused neither by JNI nor by run_process.
ArgumentsAgree ==
  /\ pending => next # 0
  /\ native # NoResult => NativeStage[native.stage + 1] # "InvalidArgument"

\* No call ends with a null array that has no exception to explain it, or with
\* an array that Kotlin does not know how to read, and none runs a program after
\* an argument could not be converted.
CrossesSafely ==
  /\ pc \notin {"nullResult", "refused"}
  /\ pc \in {"run", "pack"} => ~pending
=============================================================================
