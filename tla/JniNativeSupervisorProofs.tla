--------------------- MODULE JniNativeSupervisorProofs ---------------------
(***************************************************************************)
(* Proofs about JniNativeSupervisor for every width of an Int, every set   *)
(* of results run_process may give and every launch.                       *)
(***************************************************************************)
EXTENDS JniNativeSupervisor, TLAPS

\* A number is its own remainder by a larger one.
LEMMA Remainder ==
  ASSUME NEW x \in Nat, NEW m \in Nat, x < m
  PROVE  x % m = x
  BY SMTT(20)

\* An Int survives the way through a Long and back.
LEMMA ToIntKeeps ==
  ASSUME NEW v \in Int, -1 <= v, v <= IntMax
  PROVE  ToInt(v) = v
<1> DEFINE m == 2 * (IntMax + 1)
           x == v + IntMax + 1
<1>1. m \in Nat /\ x \in Nat /\ x < m
  BY WidthAssumption
<1> HIDE DEF m, x
<1>2. x % m = x
  BY <1>1, Remainder
<1>3. x - (IntMax + 1) = v
  BY WidthAssumption DEF x
<1>4. ToInt(v) = (x % m) - (IntMax + 1)
  BY DEF ToInt, x, m
<1>5. QED
  BY <1>2, <1>3, <1>4

-----------------------------------------------------------------------------
(* What Kotlin makes of a packed result. *)

\* Every stage number has a name on the Kotlin side, the one it has in C++.
LEMMA StageNames ==
  ASSUME NEW n \in Stage
  PROVE  /\ n + 1 \in DOMAIN KotlinStage /\ n + 1 \in DOMAIN NativeStage
         /\ KotlinStage[n + 1] = NativeStage[n + 1]
         /\ KotlinStage[n + 1] = "Ok" <=> n = 0
  BY DEF Stage, KotlinStage, NativeStage

\* The numbers of a result that run_process can give.
LEMMA Fields ==
  ASSUME NEW r \in Answers
  PROVE  /\ r \in NativeRunResult
         /\ r.exit \in Int /\ -1 <= r.exit /\ r.exit <= IntMax
         /\ r.signal \in Int /\ 0 <= r.signal /\ r.signal <= IntMax
         /\ r.errno \in Int /\ 0 <= r.errno /\ r.errno <= IntMax
         /\ r.stage \in Stage /\ r.stage \in Int /\ r.stage <= IntMax
         /\ -1 <= r.stage
         /\ r.duration \in Int /\ r.timedOut \in BOOLEAN
<1>1. r \in NativeRunResult
  BY DEF Answers
<1>2. /\ r.exit \in ExitCode \cup {-1} /\ r.signal \in Signal \cup {0}
      /\ r.errno \in Errno \cup {0} /\ r.stage \in Stage
      /\ r.duration \in Duration /\ r.timedOut \in BOOLEAN
  BY <1>1 DEF NativeRunResult
<1>3. \A v \in ExitCode \cup Signal \cup Errno \cup {0, -1} :
        v \in Int /\ -1 <= v /\ v <= IntMax
  BY WidthAssumption
<1>4. \A v \in Signal \cup Errno \cup {0} : 0 <= v
  BY WidthAssumption
<1>5. \A v \in Stage : v \in Int /\ -1 <= v /\ v <= IntMax
  BY WidthAssumption DEF Stage
<1>6. \A v \in Duration : v \in Int
  BY WidthAssumption
<1>7. QED
  BY <1>1, <1>2, <1>3, <1>4, <1>5, <1>6

\* Decoding undoes packing, up to the two fields that become nullable.
LEMMA RoundTrip ==
  ASSUME NEW r \in Answers
  PROVE  /\ Acceptable(pack_result(r))
         /\ Decode(pack_result(r)) =
              [exit     |-> TakeIf(r.exit, 0),
               signal   |-> TakeIf(r.signal, 1),
               timedOut |-> r.timedOut,
               duration |-> r.duration,
               errno    |-> r.errno,
               stage    |-> NativeStage[r.stage + 1]]
<1> DEFINE w == pack_result(r)
<1>1. /\ ToInt(r.exit) = r.exit /\ ToInt(r.signal) = r.signal
      /\ ToInt(r.errno) = r.errno /\ ToInt(r.stage) = r.stage
  BY Fields, ToIntKeeps
<1>2. /\ Len(w) = 7 /\ w[1] = 1
      /\ w[2] = r.exit /\ w[3] = r.signal
      /\ w[4] = (IF r.timedOut THEN 1 ELSE 0)
      /\ w[5] = r.duration /\ w[6] = r.errno /\ w[7] = r.stage
  BY DEF pack_result, ABI_VERSION
<1>3. (w[4] # 0) = r.timedOut
  BY <1>2, Fields
<1>4. Acceptable(w)
  BY <1>1, <1>2, Fields, StageNames
     DEF Acceptable, RESULT_FIELD_COUNT, EXPECTED_ABI_VERSION
<1>5. KotlinStage[ToInt(w[7]) + 1] = NativeStage[r.stage + 1]
  BY <1>1, <1>2, Fields, StageNames
<1> HIDE DEF w
<1>6. Decode(w) = [exit     |-> TakeIf(r.exit, 0),
                   signal   |-> TakeIf(r.signal, 1),
                   timedOut |-> r.timedOut,
                   duration |-> r.duration,
                   errno    |-> r.errno,
                   stage    |-> NativeStage[r.stage + 1]]
  BY <1>1, <1>2, <1>3, <1>5 DEF Decode
<1>7. QED
  BY <1>4, <1>6 DEF w

LEMMA DecodedType ==
  ASSUME NEW r \in Answers
  PROVE  Decode(pack_result(r)) \in KotlinRunResult
<1>1. TakeIf(r.exit, 0) \in Nullable(0 .. IntMax)
  BY Fields DEF TakeIf, Nullable
<1>2. TakeIf(r.signal, 1) \in Nullable(1 .. IntMax)
  BY Fields DEF TakeIf, Nullable
<1>3. NativeStage[r.stage + 1] \in {KotlinStage[i] : i \in DOMAIN KotlinStage}
  BY Fields, StageNames
<1>4. QED
  BY <1>1, <1>2, <1>3, RoundTrip, Fields DEF KotlinRunResult

-----------------------------------------------------------------------------
(* The inductive invariant: what each position knows of the launch, of a     *)
(* pending exception and of the result.                                      *)

Accepted == /\ launch.absolute /\ launch.timeout > 0
            /\ launch.grace >= 0 /\ launch.limit >= 0

IInv ==
  /\ TypeOK
  /\ pc \in {"scalars", "convert", "run"} => Accepted
  /\ pc \in {"construct", "scalars", "convert", "run", "pack"} =>
       ~pending /\ wire = <<>>
  /\ pc \in {"construct", "scalars", "convert", "run"} => native = NoResult
  /\ pc = "pack" => native \in Answers
  /\ pc = "back" /\ ~pending =>
       native \in Answers /\ wire = pack_result(native)
  /\ pc = "done" =>
       native \in Answers /\ kotlin = Decode(pack_result(native))
  /\ pc \notin {"construct", "scalars", "rejected"} => next # 0
  /\ pc = "convert" => next \in 1 .. Arguments
  /\ pending => next # 0
  /\ pc \notin {"nullResult", "refused"}
  /\ native # NoResult => NativeStage[native.stage + 1] # "InvalidArgument"

\* No result of run_process is the absent one.
LEMMA NotAbsent == ASSUME NEW r \in Answers PROVE r # NoResult
<1>1. r \in NativeRunResult
  BY DEF Answers
<1>2. "stage" \in DOMAIN r /\ "stage" \notin DOMAIN NoResult
  BY <1>1 DEF NativeRunResult, NoResult
<1>3. QED
  BY <1>2

LEMMA IInvInit == Init => IInv
<1> SUFFICES ASSUME Init PROVE IInv
  OBVIOUS
<1>1. TypeOK
  <2>1. next \in 0 .. Arguments + 1
    BY DEF Init, Arguments
  <2>2. wire \in Seq(Int)
    BY DEF Init
  <2>3. pending \in BOOLEAN
    BY DEF Init
  <2>4. QED
    BY <2>1, <2>2, <2>3 DEF Init, TypeOK
<1>2. QED
  BY <1>1 DEF Init, IInv

LEMMA IInvStep == IInv /\ [Next]_vars => IInv'
<1> SUFFICES ASSUME IInv, [Next]_vars PROVE IInv'
  OBVIOUS
<1> USE DEF Arguments
<1>1. CASE Construct
  <2>1. TypeOK'
    BY <1>1 DEF IInv, TypeOK, Construct
  <2>2. QED
    BY <1>1, <2>1 DEF IInv, Construct, Accepted
<1>2. CASE CheckScalars
  <2>1. ~(launch.timeout <= 0 \/ launch.grace < 0 \/ launch.limit < 0)
    <3>1. launch.timeout \in Int /\ launch.grace \in Int /\ launch.limit \in Int
      BY WidthAssumption DEF IInv, TypeOK, Launch
    <3>2. QED
      BY <1>2, <3>1 DEF IInv, CheckScalars, Accepted
  <2>2. TypeOK'
    BY <1>2, <2>1 DEF IInv, TypeOK, CheckScalars
  <2>3. QED
    BY <1>2, <2>1, <2>2 DEF IInv, CheckScalars, Accepted
<1>3. CASE Convert
  <2>1. TypeOK'
    <3>1. next' \in 0 .. Arguments + 1
      BY <1>3 DEF IInv, TypeOK, Convert
    <3>2. pending' \in BOOLEAN
      BY <1>3 DEF IInv, TypeOK, Convert
    <3>3. pc' \in {"run", "convert", "back"}
      BY <1>3 DEF Convert
    <3>4. QED
      BY <1>3, <3>1, <3>2, <3>3 DEF IInv, TypeOK, Convert
  <2>2. QED
    BY <1>3, <2>1 DEF IInv, TypeOK, Convert, Accepted
<1>4. CASE RunProcess
  <2>1. native' \in Answers /\ NativeStage[native'.stage + 1] # "InvalidArgument"
    BY <1>4 DEF IInv, RunProcess, Accepted
  <2>2. TypeOK'
    BY <1>4, <2>1 DEF IInv, TypeOK, RunProcess
  <2>3. QED
    BY <1>4, <2>1, <2>2 DEF IInv, RunProcess
<1>5. CASE Pack
  <2>1. native \in Answers
    BY <1>5 DEF IInv, Pack
  <2>2. pack_result(native) \in Seq(Int)
    BY <2>1, Fields DEF pack_result, ABI_VERSION
  <2>3. TypeOK'
    BY <1>5, <2>2 DEF IInv, TypeOK, Pack
  <2>4. QED
    BY <1>5, <2>1, <2>3 DEF IInv, Pack
<1>6. CASE Back
  <2>1. CASE pending
    <3>1. pc' = "threw" /\ UNCHANGED <<launch, next, pending, native, wire, kotlin>>
      BY <1>6, <2>1 DEF Back
    <3>2. TypeOK'
      BY <3>1 DEF IInv, TypeOK
    <3>3. QED
      BY <1>6, <3>1, <3>2 DEF IInv, Back
  <2>2. CASE ~pending
    <3>1. native \in Answers /\ wire = pack_result(native)
      BY <1>6, <2>2 DEF IInv, Back
    <3>2. wire # <<>>
      BY <3>1 DEF pack_result
    <3>3. kotlin' = Decode(wire) /\ pc' = "done"
      BY <1>6, <2>2, <3>1, <3>2, RoundTrip DEF Back
    <3>4. UNCHANGED <<launch, next, pending, native, wire>>
      BY <1>6 DEF Back
    <3>5. TypeOK'
      BY <3>1, <3>3, <3>4, DecodedType DEF IInv, TypeOK
    <3>6. QED
      BY <1>6, <2>2, <3>1, <3>3, <3>4, <3>5 DEF IInv, Back
  <2>3. QED
    BY <2>1, <2>2
<1>7. CASE UNCHANGED vars
  BY <1>7 DEF vars, IInv, TypeOK, Accepted
<1>8. QED
  BY <1>1, <1>2, <1>3, <1>4, <1>5, <1>6, <1>7 DEF Next

LEMMA IInvAlways == Spec => []IInv
  BY IInvInit, IInvStep, PTL DEF Spec

-----------------------------------------------------------------------------
(* The theorems. *)

\* A call stays within its types, whatever the width of an Int.
THEOREM TypeCorrect == Spec => []TypeOK
<1>1. IInv => TypeOK
  BY DEF IInv
<1>2. QED
  BY <1>1, IInvAlways, PTL

\* Kotlin is told of a call what the native side found out about it, and the
\* two succeeded agree, for every result run_process may give.
THEOREM ResultsAgree == Spec => []ResultFaithful
<1>1. IInv => ResultFaithful
  <2> SUFFICES ASSUME IInv, pc = "done"
               PROVE  /\ KotlinSucceeded(kotlin) <=> NativeSucceeded(native)
                      /\ kotlin.stage = NativeStage[native.stage + 1]
                      /\ kotlin.errno = native.errno
                      /\ kotlin.timedOut = native.timedOut
                      /\ kotlin.duration = native.duration
                      /\ kotlin.exit = IF native.exit = -1 THEN <<>>
                                                           ELSE <<native.exit>>
                      /\ kotlin.signal = IF native.signal = 0 THEN <<>>
                                                       ELSE <<native.signal>>
    BY DEF ResultFaithful
  <2>1. native \in Answers /\ kotlin = Decode(pack_result(native))
    BY DEF IInv
  <2>2. /\ kotlin.exit = TakeIf(native.exit, 0)
        /\ kotlin.signal = TakeIf(native.signal, 1)
        /\ kotlin.timedOut = native.timedOut
        /\ kotlin.duration = native.duration
        /\ kotlin.errno = native.errno
        /\ kotlin.stage = NativeStage[native.stage + 1]
    BY <2>1, RoundTrip
  <2>3. kotlin.exit = IF native.exit = -1 THEN <<>> ELSE <<native.exit>>
    BY <2>1, <2>2, Fields DEF TakeIf
  <2>4. kotlin.signal = IF native.signal = 0 THEN <<>> ELSE <<native.signal>>
    BY <2>1, <2>2, Fields DEF TakeIf
  <2>5. kotlin.exit = <<0>> <=> native.exit = 0
    BY <2>1, <2>3, Fields
  <2>6. kotlin.signal = <<>> <=> native.signal = 0
    BY <2>1, <2>4, Fields
  <2>7. KotlinSucceeded(kotlin) <=> NativeSucceeded(native)
    BY <2>2, <2>5, <2>6 DEF KotlinSucceeded, NativeSucceeded
  <2>8. QED
    BY <2>2, <2>3, <2>4, <2>7
<1>2. QED
  BY <1>1, IInvAlways, PTL

\* A launch that Kotlin accepts is refused by no later check of its arguments.
THEOREM ChecksAgree == Spec => []ArgumentsAgree
<1>1. IInv => ArgumentsAgree
  BY DEF IInv, ArgumentsAgree
<1>2. QED
  BY <1>1, IInvAlways, PTL

\* No call comes back with nothing to read and no exception, or runs a program
\* while an exception is pending.
THEOREM AlwaysReadable == Spec => []CrossesSafely
<1>1. IInv => CrossesSafely
  BY DEF IInv, CrossesSafely
<1>2. QED
  BY <1>1, IInvAlways, PTL
=============================================================================
