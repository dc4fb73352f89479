--------------------------- MODULE ProotLaunchProofs ---------------------------
(***************************************************************************)
(* Proofs about ProotLaunch, for any paths of the host, any policy and any *)
(* binds of a caller.                                                      *)
(***************************************************************************)
EXTENDS ProotLaunch, TLAPS

-----------------------------------------------------------------------------
(* The functions of the module. *)

LEMMA CallerBindsType == CallerBinds \subseteq SUBSET Bind
  BY DEF CallerBinds, Bind, Path, Guest

LEMMA AskedType == Asked \subseteq Request
<1>1. ASSUME NEW q \in Asked PROVE q \in Request
  <2>1. q \in [kind : Kind, binds : CallerBinds, release : Release,
               command : Command, kill : BOOLEAN]
    BY DEF Asked
  <2>2. QED
    BY <2>1, CallerBindsType DEF Request
<1>2. QED
  BY <1>1

\* The binds that are not the caller's.
Own(B) == {b \in B : b.slot \in {"policy", "home"}}

LEMMA PolicyBindsType ==
  ASSUME home \in HomePath, leads \in [Path -> Path]
  PROVE  /\ PolicyBinds \in SUBSET Bind
         /\ Own(PolicyBinds) = PolicyBinds
         /\ \A b \in PolicyBinds :
              /\ b.guest \in Fixed \cup {home} /\ b.host = leads[b.guest]
              /\ Exists(b.guest)
         /\ \A p \in Fixed \cup {home} : Exists(p) =>
              \E b \in PolicyBinds : b.guest = p /\ b.host = leads[p]
<1>1. \A p \in Fixed \cup {home} : p \in Path /\ p \in Guest /\ leads[p] \in Path
  BY DEF Path, Guest
<1>2. \A b \in PolicyBinds :
        /\ b \in Bind /\ b.slot \in {"policy", "home"}
        /\ b.guest \in Fixed \cup {home} /\ b.host = leads[b.guest] /\ Exists(b.guest)
  BY <1>1 DEF PolicyBinds, PolicyBind, Bind
<1>3. \A p \in Fixed \cup {home} : Exists(p) =>
        \E b \in PolicyBinds : b.guest = p /\ b.host = leads[p]
  <2> SUFFICES ASSUME NEW p \in Fixed \cup {home}, Exists(p)
               PROVE  \E b \in PolicyBinds : b.guest = p /\ b.host = leads[p]
    OBVIOUS
  <2>1. CASE p \in Fixed
    <3>1. PolicyBind("policy", p) \in PolicyBinds
      BY <2>1 DEF PolicyBinds
    <3>2. QED
      BY <3>1 DEF PolicyBind
  <2>2. CASE p = home
    <3>1. PolicyBind("home", p) \in PolicyBinds
      BY <2>2 DEF PolicyBinds
    <3>2. QED
      BY <3>1 DEF PolicyBind
  <2>3. QED
    BY <2>1, <2>2
<1>4. QED
  BY <1>2, <1>3 DEF Own

LEMMA CallerSlots ==
  ASSUME NEW q \in Asked
  PROVE  Own(q.binds) = {}
<1>1. q.binds \in CallerBinds
  BY DEF Asked
<1>2. \A b \in q.binds : b.slot \in {"first", "second"}
  BY <1>1 DEF CallerBinds
<1>3. QED
  BY <1>2 DEF Own

-----------------------------------------------------------------------------
(* The inductive invariant. *)

\* Each launcher has steps of its own.
KindInv ==
  /\ pc \in {"rootfs", "binds", "command", "probe", "policy", "join"}
       => request.kind # "backend"
  /\ pc \in {"construct", "resolve", "flag", "constructed", "specified"}
       => request.kind = "backend"
  /\ pc = "policy" => request.kind = "package"
  /\ pc = "join" => request.kind # "package" \/ home # Unset

\* The binds are the caller's, with those of the policy in package mode: each of
\* its paths that stays as it is goes in if and only if it is there.
PolicyIn(B) ==
  /\ \A b \in Own(B) : b.guest \in Fixed \cup {home} /\ b.host = leads[b.guest]
  /\ \A p \in Fixed \cup {home} : Steady(p) =>
       (Exists(p) <=> \E b \in Own(B) : b.guest = p)

BindsInv ==
  /\ Own(request.binds) = {}
  /\ pc # "asked" /\ request.kind \in {"login-root", "login-user", "backend"}
       => binds = request.binds
  /\ pc \in {"join", "exec", "launched"} /\ request.kind = "package" =>
       /\ home # Unset
       /\ ExtraBindsAllowed(request.binds)
       /\ binds = request.binds \cup Own(binds)
       /\ PolicyIn(binds)

\* A command line is made of the request and the binds, after they have been
\* validated, as the host was then.
ArgvInv ==
  Built => /\ argv.binds = binds /\ argv.kill = kill
           /\ argv.release = IF request.kind = "backend" THEN Stripped(request.release)
                                                        ELSE request.release
           /\ argv.root = (request.kind # "login-user")
           /\ argv.command = GuestCommand(request)
           /\ request.kind = "backend" => request.command = "given"
           /\ usable = TRUE /\ ~Clash(binds)
           /\ \A b \in binds : b.guest # Bad /\ (b.host \notin touched => b.host \in present)

\* The command the specification is asked about: etroute.py takes any.
Asks == IF request.kind = "login-root" THEN "given" ELSE request.command

\* Nothing is refused that the specification accepts.
RefusedInv ==
  /\ pc = "refused" /\ request.kind \in {"login-root", "backend"}
  /\ \A b \in request.binds : b.host \notin touched
  => ~SpecValidates(request.binds, Asks)

\* What the audit has found out, about each path that stays as it is.
AuditInv ==
  audit = "over" /\ verdict = 0 =>
    \A p \in Path : Steady(p) =>
      (p \in observed <=> p \in Fixed \cup {home} /\ Exists(p))

LInv == KindInv /\ BindsInv /\ ArgvInv /\ RefusedInv
IInv == TypeOK /\ LInv /\ AuditInv

LEMMA Initially == Init => IInv
<1> SUFFICES ASSUME Init PROVE IInv
  OBVIOUS
<1>1. NoRequest \in Request /\ NoArgv \in Argv
  BY DEF NoRequest, NoArgv, Request, Argv, Kind, Release, Command
<1>2. TypeOK
  BY <1>1 DEF Init, TypeOK
<1>3. LInv /\ AuditInv
  BY DEF Init, LInv, KindInv, BindsInv, ArgvInv, RefusedInv, AuditInv, Built, NoRequest,
     Own
<1>4. QED
  BY <1>2, <1>3 DEF IInv

\* What has been touched stays so, and of that nothing is claimed.
LEMMA HostChangesKeeps ==
  ASSUME IInv, NEW q \in Path, HostChanges(q)
  PROVE  IInv'
<1>1. TypeOK'
  BY DEF IInv, TypeOK, HostChanges, given, launch, auditing
<1>2. /\ touched' = touched \cup {q}
      /\ \A p : p # q => (p \in present' <=> p \in present)
      /\ UNCHANGED <<home, usable, leads, sMode, request, pc, kill, binds, argv, audit,
                     observed, verdict>>
  BY DEF IInv, TypeOK, HostChanges, given, launch, auditing
<1>3. ASSUME NEW p PROVE Steady(p)' => Steady(p) /\ (Exists(p)' <=> Exists(p))
  BY <1>2 DEF Steady, Exists
<1>4. PolicyIn(binds) => PolicyIn(binds)'
  BY <1>2, <1>3 DEF PolicyIn, Own
<1>5. KindInv' /\ BindsInv'
  BY <1>2, <1>4 DEF IInv, LInv, KindInv, BindsInv, ExtraBindsAllowed, Own
<1>6. ArgvInv'
  BY <1>2 DEF IInv, LInv, ArgvInv, Built, GuestCommand, Clash
<1>7. RefusedInv'
  BY <1>2 DEF IInv, LInv, RefusedInv, SpecValidates, Joinable, Fits, Clash, Asks
<1>8. AuditInv'
  BY <1>2, <1>3 DEF IInv, AuditInv
<1>9. QED
  BY <1>1, <1>5, <1>6, <1>7, <1>8 DEF IInv, LInv

-----------------------------------------------------------------------------
(* The audit. *)

LEMMA AuditKeeps ==
  ASSUME IInv, Audit
  PROVE  IInv'
<1>1. UNCHANGED <<home, usable, leads, sMode, present, touched, request, pc, kill,
                  binds, argv>>
  BY DEF Audit, AuditChecks, AuditProbes, AuditCompares, given, world, launch
<1>2. TypeOK'
  BY <1>1 DEF IInv, TypeOK, Audit, AuditChecks, AuditProbes, AuditCompares,
     AuditEnds
<1>3. LInv'
  BY <1>1 DEF IInv, LInv, KindInv, BindsInv, PolicyIn, Own, Steady, Exists,
     ExtraBindsAllowed, ArgvInv, RefusedInv, Built, GuestCommand, Clash, Joinable, Fits,
     SpecValidates, Asks
<1>4. AuditInv'
  <2>1. CASE AuditCompares
    BY <1>1, <2>1 DEF AuditInv, AuditCompares, AuditEnds, Expected, Exists, Steady
  <2>2. CASE AuditChecks \/ AuditProbes
    BY <1>1, <2>2 DEF AuditInv, AuditChecks, AuditProbes, AuditEnds
  <2>3. QED
    BY <2>1, <2>2 DEF Audit
<1>5. QED
  BY <1>2, <1>3, <1>4 DEF IInv, LInv

-----------------------------------------------------------------------------
(* The launch. *)

\* The audit and the host are left alone.
LEMMA LaunchStep ==
  ASSUME IInv, UNCHANGED <<given, world, auditing>>, TypeOK', LInv'
  PROVE  IInv'
  BY DEF IInv, AuditInv, Steady, Exists, given, world, auditing

\* A step that only moves on, or refuses what the specification does not accept.
LEMMA Moves ==
  ASSUME IInv, UNCHANGED <<given, world, request, kill, binds, argv, auditing>>,
         pc \notin {"asked", "exec", "launched"},
         \/ pc' \in {"binds", "command", "probe", "missing"}
         \/ pc' \in {"resolve", "specified"} /\ request.kind = "backend"
         \/ pc' = "flag" /\ request.kind = "backend"
         \/ /\ pc' = "refused"
            /\ request.kind \in {"login-root", "backend"}
                 => ~SpecValidates(request.binds, Asks),
         pc' \in {"binds", "command", "probe"} => request.kind # "backend"
  PROVE  IInv'
<1>1. TypeOK'
  BY DEF IInv, TypeOK, given, world, auditing
<1>2. KindInv' /\ BindsInv'
  BY DEF IInv, LInv, KindInv, BindsInv, Own
<1>3. ArgvInv' /\ RefusedInv'
  BY DEF IInv, ArgvInv, RefusedInv, Built, SpecValidates, Joinable, Clash, Fits, Asks,
     given, world
<1>4. QED
  BY <1>1, <1>2, <1>3, LaunchStep DEF LInv

LEMMA AskKeeps ==
  ASSUME IInv, Ask
  PROVE  IInv'
<1>1. UNCHANGED <<given, world, auditing, kill, argv>> /\ request' \in Request
  BY AskedType DEF Ask
<1>2. /\ pc' = IF request'.kind = "backend" THEN "construct" ELSE "rootfs"
      /\ binds' = IF request'.kind = "diagnose" THEN {} ELSE request'.binds
  BY DEF Ask, Goto
<1>3. binds' \in SUBSET Bind
  BY <1>1, <1>2 DEF Request
<1>4. TypeOK'
  BY <1>1, <1>2, <1>3 DEF IInv, TypeOK, given, world, auditing
<1>5. Own(request'.binds) = {}
  BY CallerSlots DEF Ask
<1>6. LInv'
  BY <1>2, <1>5 DEF LInv, KindInv, BindsInv, ArgvInv, RefusedInv, Built, Own
<1>7. QED
  BY <1>1, <1>4, <1>6, LaunchStep

\* ValidateRootfs, ParseBinds, NeedCommand, Construct, ResolveProot and
\* ToLaunchSpec.
LEMMA ChecksKeep ==
  ASSUME IInv,
         \/ ValidateRootfs \/ ParseBinds \/ NeedCommand
         \/ Construct \/ ResolveProot \/ ToLaunchSpec
  PROVE  IInv'
<1>1. KindInv /\ BindsInv
  BY DEF IInv, LInv
<1>2. CASE ValidateRootfs
  BY <1>1, <1>2, Moves DEF ValidateRootfs, Step, Goto, KindInv, SpecValidates
<1>3. CASE ParseBinds
  BY <1>1, <1>3, Moves
  DEF ParseBinds, Step, Goto, KindInv, SpecValidates, Joinable
<1>4. CASE NeedCommand
  BY <1>1, <1>4, Moves DEF NeedCommand, Step, Goto, KindInv
<1>5. CASE Construct
  BY <1>1, <1>5, Moves
  DEF Construct, Step, Goto, KindInv, BindsInv, SpecValidates, Joinable
<1>6. CASE ResolveProot
  BY <1>1, <1>6, Moves DEF ResolveProot, KindInv
<1>7. CASE ToLaunchSpec
  BY <1>1, <1>7, Moves
  DEF ToLaunchSpec, Step, Goto, KindInv, BindsInv, Asks
<1>8. QED
  BY <1>2, <1>3, <1>4, <1>5, <1>6, <1>7

LEMMA GatherBindsKeeps ==
  ASSUME IInv, GatherBinds
  PROVE  IInv'
<1>1. UNCHANGED <<given, world, request, kill, argv, auditing>>
  BY DEF GatherBinds
<1>2. request.kind = "diagnose" /\ pc' \in {"probe", "refused"}
  BY DEF GatherBinds, Goto
<1>3. binds' \in SUBSET Bind
  <2>1. request.binds \in SUBSET Bind /\ binds \in SUBSET Bind
    BY DEF IInv, TypeOK, Request
  <2>2. {[slot |-> "policy", host |-> leads[p], guest |-> p] :
           p \in {q \in Standard : Exists(q)}} \in SUBSET Bind
    BY PathAssumption DEF IInv, TypeOK, Bind, Path, Guest
  <2>3. QED
    BY <2>1, <2>2 DEF GatherBinds
<1>4. TypeOK'
  BY <1>1, <1>2, <1>3 DEF IInv, TypeOK, given, world, auditing
<1>5. LInv'
  BY <1>1, <1>2
  DEF IInv, LInv, KindInv, BindsInv, ArgvInv, RefusedInv, Built, Own
<1>6. QED
  BY <1>1, <1>4, <1>5, LaunchStep

\* What is probed goes into no condition.
LEMMA ProbesKeep ==
  ASSUME IInv, ProbeFlag \/ ProbeOnce
  PROVE  IInv'
<1>1. UNCHANGED <<given, world, request, binds, argv, auditing>>
  BY DEF ProbeFlag, ProbeOnce, Probe
<1>2. \/ pc' = "policy" /\ request.kind = "package"
      \/ pc = "probe" /\ pc' = "join" /\ request.kind # "package"
      \/ pc = "flag" /\ pc' = "constructed"
  BY DEF ProbeFlag, ProbeOnce, Probe, Goto
<1>3. kill' \in BOOLEAN
  BY DEF IInv, TypeOK, Request, ProbeFlag, ProbeOnce, Probe
<1>4. TypeOK'
  BY <1>1, <1>2, <1>3 DEF IInv, TypeOK, given, world, auditing
<1>5. pc # "asked" /\ KindInv /\ BindsInv
  BY DEF IInv, LInv, ProbeFlag, ProbeOnce, Probe
<1>6. LInv'
  BY <1>1, <1>2, <1>5 DEF LInv, KindInv, BindsInv, ArgvInv, RefusedInv, Built, Own
<1>7. QED
  BY <1>1, <1>4, <1>6, LaunchStep

LEMMA AddPolicyKeeps ==
  ASSUME IInv, AddPolicy
  PROVE  IInv'
<1>1. UNCHANGED <<given, world, request, kill, argv, auditing>>
  BY DEF AddPolicy
<1>2. /\ request.kind = "package" /\ request.binds \in SUBSET Bind
      /\ home \in HomePath \cup {Unset} /\ leads \in [Path -> Path]
      /\ Own(request.binds) = {}
  BY DEF IInv, LInv, KindInv, BindsInv, TypeOK, Request, AddPolicy
<1>3. CASE pc' = "join" /\ binds' = request.binds \cup PolicyBinds
           /\ ExtraBindsAllowed(request.binds) /\ home # Unset
  <2>1. home \in HomePath
    BY <1>2, <1>3
  <2>2. binds' \in SUBSET Bind
    BY <1>2, <1>3, <2>1, PolicyBindsType
  <2>3. TypeOK'
    BY <1>1, <1>3, <2>2 DEF IInv, TypeOK, given, world, auditing
  <2>4. UNCHANGED <<home, leads, present, touched>>
    BY <1>1 DEF given, world
  <2>5. Own(binds') = PolicyBinds
    BY <1>2, <1>3, <2>1, PolicyBindsType DEF Own
  <2>6. PolicyIn(binds)'
    <3>1. \A b \in PolicyBinds :
            /\ b.guest \in Fixed \cup {home} /\ b.host = leads[b.guest]
            /\ Exists(b.guest)
      BY <1>2, <2>1, PolicyBindsType
    <3>2. \A p \in Fixed \cup {home} : Exists(p) <=> \E b \in PolicyBinds : b.guest = p
      BY <1>2, <2>1, <3>1, PolicyBindsType
    <3>3. QED
      BY <2>4, <2>5, <3>1, <3>2 DEF PolicyIn, Own, Exists
  <2>7. BindsInv'
    BY <1>1, <1>2, <1>3, <2>4, <2>5, <2>6 DEF BindsInv, ExtraBindsAllowed, Own
  <2>8. KindInv' /\ ArgvInv' /\ RefusedInv'
    BY <1>1, <1>2, <1>3, <2>4 DEF KindInv, ArgvInv, RefusedInv, Built
  <2>9. QED
    BY <1>1, <2>3, <2>7, <2>8, LaunchStep DEF LInv
<1>4. CASE pc' = "refused" /\ UNCHANGED binds
  <2>1. TypeOK'
    BY <1>1, <1>4 DEF IInv, TypeOK, given, world, auditing
  <2>2. LInv'
    BY <1>1, <1>2, <1>4 DEF LInv, KindInv, BindsInv, ArgvInv, RefusedInv, Built, Own
  <2>3. QED
    BY <1>1, <2>1, <2>2, LaunchStep
<1>5. QED
  BY <1>3, <1>4 DEF AddPolicy, Goto

\* What is claimed of the binds and of the request, when neither changes.
LEMMA SameBinds ==
  ASSUME IInv, UNCHANGED <<given, world, request, binds>>,
         pc = "asked" => pc' = "asked",
         \/ pc' \notin {"join", "exec", "launched"}
         \/ pc \in {"join", "exec", "launched"}
  PROVE  BindsInv'
<1>1. UNCHANGED <<home, leads, present, touched, request, binds>>
  BY DEF given, world
<1>2. PolicyIn(binds) => PolicyIn(binds)'
  BY <1>1 DEF PolicyIn, Own, Steady, Exists
<1>3. Own(request.binds)' = Own(request.binds) /\ Own(binds)' = Own(binds)
  BY <1>1 DEF Own
<1>4. ExtraBindsAllowed(request.binds)' = ExtraBindsAllowed(request.binds)
  BY <1>1 DEF ExtraBindsAllowed
<1>5. BindsInv
  BY DEF IInv, LInv
<1>6. QED
  BY <1>1, <1>2, <1>3, <1>4, <1>5 DEF BindsInv

\* A refusal, or a command line of binds that fit.
LEMMA BuildArgvKeeps ==
  ASSUME IInv, BuildArgv
  PROVE  IInv'
<1>1. UNCHANGED <<given, world, request, kill, binds, auditing>>
  BY DEF BuildArgv
<1>2. /\ pc = "join" /\ request.kind # "backend" /\ request \in Request
      /\ binds \in SUBSET Bind /\ kill \in BOOLEAN
  BY DEF IInv, LInv, KindInv, TypeOK, BuildArgv
<1>3. UNCHANGED <<home, usable, leads, present, touched>>
  BY <1>1 DEF given, world
<1>4. BindsInv'
  BY <1>1, <1>2, SameBinds DEF BuildArgv, Goto
<1>5. CASE usable /\ Joinable(binds)
  <2>1. /\ pc' = "exec"
        /\ argv' = [root |-> request.kind # "login-user",
                    release |-> request.release, kill |-> kill, binds |-> binds,
                    command |-> GuestCommand(request)]
    BY <1>5 DEF BuildArgv, Goto
  <2>2. argv' \in Argv
    BY <1>2, <2>1 DEF Argv, Request, GuestCommand, Command
  <2>3. TypeOK'
    BY <1>1, <2>1, <2>2 DEF IInv, TypeOK, given, world, auditing
  <2>4. KindInv' /\ RefusedInv'
    BY <1>1, <1>2, <1>3, <2>1 DEF IInv, LInv, KindInv, RefusedInv
  <2>5. /\ usable = TRUE /\ ~Clash(binds)
        /\ \A b \in binds : b.guest # Bad /\ b.host \in present
    BY <1>5 DEF Joinable, Fits, IInv, TypeOK
  <2>6. Clash(binds)' = Clash(binds) /\ GuestCommand(request)' = GuestCommand(request)
    BY <1>1 DEF Clash, GuestCommand
  <2>7. ArgvInv'
    BY <1>1, <1>2, <1>3, <2>1, <2>5, <2>6 DEF ArgvInv
  <2>8. QED
    BY <1>1, <1>4, <2>3, <2>4, <2>7, LaunchStep DEF LInv
<1>6. CASE ~(usable /\ Joinable(binds))
  <2>1. pc' = "refused" /\ UNCHANGED argv
    BY <1>6 DEF BuildArgv, Goto
  <2>2. TypeOK'
    BY <1>1, <2>1 DEF IInv, TypeOK, given, world, auditing
  <2>3. KindInv' /\ ArgvInv'
    BY <1>1, <1>2, <2>1 DEF IInv, LInv, KindInv, ArgvInv, Built
  <2>4. request.kind = "login-root" => binds = request.binds
    BY <1>2 DEF IInv, LInv, BindsInv
  <2>5. request.kind = "login-root" => ~SpecValidates(request.binds, Asks)'
    BY <1>1, <1>3, <1>6, <2>4 DEF SpecValidates, Joinable, Clash, Fits
  <2>6. RefusedInv'
    BY <1>1, <1>2, <2>5 DEF RefusedInv
  <2>7. QED
    BY <1>1, <1>4, <2>2, <2>3, <2>6, LaunchStep DEF LInv
<1>7. QED
  BY <1>5, <1>6

LEMMA BuildCanonicalArgvKeeps ==
  ASSUME IInv, BuildCanonicalArgv
  PROVE  IInv'
<1>1. UNCHANGED <<given, world, request, kill, binds, auditing>>
  BY DEF BuildCanonicalArgv
<1>2. /\ pc = "specified" /\ request.kind = "backend" /\ request \in Request
      /\ kill \in BOOLEAN /\ binds = request.binds
  BY DEF IInv, LInv, KindInv, BindsInv, TypeOK, BuildCanonicalArgv
<1>3. UNCHANGED <<home, usable, leads, present, touched>>
  BY <1>1 DEF given, world
<1>4. BindsInv'
  <2>1. BindsInv
    BY DEF IInv, LInv
  <2>2. QED
    BY <1>1, <1>2, <2>1 DEF BindsInv, Own
<1>5. CASE SpecValidates(binds, request.command)
  <2>1. pc' = "exec" /\ argv' = CanonicalArgv(request, kill)
    BY <1>5 DEF BuildCanonicalArgv, Goto
  <2>2. argv' \in Argv
    BY <1>2, <2>1 DEF Argv, Request, Release, Stripped, CanonicalArgv
  <2>3. TypeOK'
    BY <1>1, <2>1, <2>2 DEF IInv, TypeOK, given, world, auditing
  <2>4. KindInv' /\ RefusedInv'
    BY <1>1, <1>2, <2>1 DEF KindInv, RefusedInv
  <2>5. /\ usable = TRUE /\ ~Clash(binds) /\ request.command = "given"
        /\ \A b \in binds : b.guest # Bad /\ b.host \in present
    BY <1>5 DEF SpecValidates, Joinable, Fits, IInv, TypeOK
  <2>6. Clash(binds)' = Clash(binds)
    BY <1>1 DEF Clash
  <2>7. /\ argv'.binds = binds /\ argv'.kill = kill
        /\ argv'.release = Stripped(request.release)
        /\ argv'.root = TRUE /\ argv'.command = "given"
    BY <1>2, <2>1 DEF CanonicalArgv
  <2>8. (request.kind # "login-user") = TRUE /\ GuestCommand(request)' = "given"
    BY <1>1, <1>2, <2>5 DEF GuestCommand
  <2>9. Stripped(request.release)' = Stripped(request.release)
    BY <1>1
  <2>10. ArgvInv'
    BY <1>1, <1>2, <1>3, <2>5, <2>6, <2>7, <2>8, <2>9 DEF ArgvInv
  <2>11. QED
    BY <1>1, <1>4, <2>3, <2>4, <2>10, LaunchStep DEF LInv
<1>6. CASE ~SpecValidates(binds, request.command)
  <2>1. pc' = "refused" /\ UNCHANGED argv
    BY <1>6 DEF BuildCanonicalArgv, Goto
  <2>2. TypeOK'
    BY <1>1, <2>1 DEF IInv, TypeOK, given, world, auditing
  <2>3. KindInv' /\ ArgvInv'
    BY <1>1, <1>2, <2>1 DEF KindInv, ArgvInv, Built
  <2>4. ~SpecValidates(request.binds, Asks)'
    BY <1>1, <1>2, <1>3, <1>6 DEF SpecValidates, Joinable, Clash, Fits, Asks
  <2>5. RefusedInv'
    BY <1>1, <2>4 DEF RefusedInv
  <2>6. QED
    BY <1>1, <1>4, <2>2, <2>3, <2>5, LaunchStep DEF LInv
<1>7. QED
  BY <1>5, <1>6

LEMMA RunProotKeeps ==
  ASSUME IInv, RunProot
  PROVE  IInv'
<1>1. /\ UNCHANGED <<home, usable, leads, present, touched, request, kill, binds, argv>>
      /\ pc = "exec" /\ pc' \in {"launched", "missing"}
  BY DEF RunProot, given, world
<1>2. TypeOK'
  BY <1>1 DEF IInv, TypeOK, RunProot, given, world, auditing
<1>3. KindInv' /\ RefusedInv'
  BY <1>1 DEF IInv, LInv, KindInv, RefusedInv
<1>4. BindsInv'
  BY <1>1, SameBinds DEF RunProot
<1>5. ArgvInv'
  BY <1>1 DEF IInv, LInv, ArgvInv, Built, GuestCommand, Clash
<1>6. QED
  BY <1>2, <1>3, <1>4, <1>5, LaunchStep DEF LInv, RunProot

LEMMA StutterKeeps ==
  ASSUME IInv, UNCHANGED vars
  PROVE  IInv'
<1>1. UNCHANGED <<home, usable, leads, sMode, present, touched, request, pc, kill,
                  binds, argv, audit, observed, verdict>>
  BY DEF vars, given, world, launch, auditing
<1>2. TypeOK'
  BY <1>1 DEF IInv, TypeOK
<1>3. KindInv' /\ BindsInv'
  BY <1>1 DEF IInv, LInv, KindInv, BindsInv, ExtraBindsAllowed, PolicyIn, Own, Steady,
     Exists
<1>4. ArgvInv' /\ RefusedInv'
  BY <1>1 DEF IInv, LInv, ArgvInv, RefusedInv, Built, GuestCommand, Clash, Joinable,
     Fits, SpecValidates, Asks
<1>5. AuditInv'
  BY <1>1 DEF IInv, AuditInv, Steady, Exists
<1>6. QED
  BY <1>2, <1>3, <1>4, <1>5 DEF IInv, LInv

THEOREM Inductive == Spec => []IInv
<1>1. IInv /\ [Next]_vars => IInv'
  <2> SUFFICES ASSUME IInv, [Next]_vars PROVE IInv'
    OBVIOUS
  <2>1. CASE Launch
    BY <2>1, AskKeeps, ChecksKeep, GatherBindsKeeps, ProbesKeep, AddPolicyKeeps,
       BuildArgvKeeps, BuildCanonicalArgvKeeps, RunProotKeeps DEF Launch
  <2>2. CASE Audit
    BY <2>2, AuditKeeps
  <2>3. CASE \E p \in Path : HostChanges(p)
    BY <2>3, HostChangesKeeps
  <2>4. CASE UNCHANGED vars
    BY <2>4, StutterKeeps
  <2>5. QED
    BY <2>1, <2>2, <2>3, <2>4 DEF Next
<1>2. QED
  BY <1>1, Initially, PTL DEF Spec

-----------------------------------------------------------------------------
(* What follows. *)

\* The state stays within its types.
THEOREM TypeCorrect == Spec => []TypeOK
<1>1. IInv => TypeOK
  BY DEF IInv
<1>2. QED
  BY <1>1, Inductive, PTL

\* No caller's bind displaces the package policy, nor an identity file but by a
\* destination that covers others.
THEOREM PolicyIsKept == Spec => []PackageKeepsPolicy
<1>1. IInv => PackageKeepsPolicy
  <2> SUFFICES ASSUME IInv, Built, request.kind = "package"
               PROVE  /\ home # Unset
                      /\ \A p \in Fixed \cup {home} : Exists(p) /\ Steady(p) =>
                           \E b \in argv.binds : b.host = leads[p] /\ b.guest = p
                      /\ \A b, c \in argv.binds : b.guest = c.guest => b = c
                      /\ \/ \A b \in argv.binds : b.guest \notin Forbidden \cup Covering
                         \/ home \in Forbidden \cup Covering
                         \/ \E b \in request.binds : b.guest \in Covering
    BY DEF PackageKeepsPolicy
  <2>1. /\ argv.binds = binds /\ ~Clash(binds) /\ home # Unset /\ PolicyIn(binds)
        /\ binds = request.binds \cup Own(binds) /\ ExtraBindsAllowed(request.binds)
    BY DEF IInv, LInv, BindsInv, ArgvInv, Built
  <2>2. \A p \in Fixed \cup {home} : Exists(p) /\ Steady(p) =>
          \E b \in binds : b.host = leads[p] /\ b.guest = p
    BY <2>1 DEF PolicyIn
  <2>3. \A b \in binds :
          \/ b \in request.binds /\ b.guest \notin Forbidden
          \/ b.guest = home
          \/ b.guest \notin Forbidden \cup Covering
    BY <2>1, PathAssumption DEF PolicyIn, ExtraBindsAllowed
  <2>4. QED
    BY <2>1, <2>2, <2>3 DEF Clash
<1>2. QED
  BY <1>1, Inductive, PTL

\* Both launchers do what the specification has, but for the release and the
\* command that etroute.py takes as they are.
THEOREM LaunchersDoTheSame == Spec => []LaunchersAgree
<1>1. IInv => LaunchersAgree
  <2> DEFINE spec == CanonicalArgv(request, kill)
             made == IF request.kind = "login-root"
                     THEN [spec EXCEPT !.release = request.release,
                                       !.command = GuestCommand(request)]
                     ELSE spec
  <2> SUFFICES ASSUME IInv, request.kind \in {"login-root", "backend"},
                      \A b \in request.binds : b.host \notin touched
               PROVE  /\ Built => SpecValidates(request.binds, Asks) /\ argv = made
                      /\ pc = "refused" => ~SpecValidates(request.binds, Asks)
    BY DEF LaunchersAgree, Asks
  <2>1. ASSUME Built
        PROVE  SpecValidates(request.binds, Asks) /\ argv = made
    <3>1. binds = request.binds /\ ArgvInv
      BY <2>1 DEF IInv, LInv, BindsInv, Built
    <3>2. SpecValidates(request.binds, Asks)
      BY <2>1, <3>1 DEF ArgvInv, SpecValidates, Joinable, Fits, Asks
    <3>3. argv \in [root : BOOLEAN, release : Release, kill : BOOLEAN,
                    binds : SUBSET Bind, command : {"shell", "blank", "given"}]
      BY DEF IInv, TypeOK, Argv
    <3>4. argv = [root |-> argv.root, release |-> argv.release,
                  kill |-> argv.kill, binds |-> argv.binds,
                  command |-> argv.command]
      BY <3>3
    <3>5. /\ argv.binds = request.binds /\ argv.kill = kill
          /\ argv.root = TRUE
          /\ argv.release = IF request.kind = "backend" THEN Stripped(request.release)
                                                        ELSE request.release
          /\ argv.command = GuestCommand(request)
          /\ request.kind = "backend" => request.command = "given"
      BY <2>1, <3>1 DEF ArgvInv
    <3>6. CASE request.kind = "login-root"
      <4>1. made = [root |-> TRUE, release |-> request.release, kill |-> kill,
                    binds |-> request.binds, command |-> GuestCommand(request)]
        BY <3>6 DEF CanonicalArgv
      <4>2. argv = [root |-> TRUE, release |-> request.release, kill |-> kill,
                    binds |-> request.binds, command |-> GuestCommand(request)]
        BY <3>4, <3>5, <3>6
      <4>3. QED
        BY <3>2, <4>1, <4>2
    <3>7. CASE request.kind = "backend"
      <4>1. argv.command = "given"
        BY <3>5, <3>7 DEF GuestCommand
      <4>2. QED
        BY <3>2, <3>4, <3>5, <3>7, <4>1 DEF CanonicalArgv
    <3>8. QED
      BY <3>6, <3>7
  <2>2. ASSUME pc = "refused"
        PROVE  ~SpecValidates(request.binds, Asks)
    BY <2>2 DEF IInv, LInv, RefusedInv
  <2>3. QED
    BY <2>1, <2>2
<1>2. QED
  BY <1>1, Inductive, PTL

\* A passed audit speaks for every path that stays as it is.
THEOREM AuditIsEquivalence == Spec => []AuditedEquivalence
<1>1. IInv => AuditedEquivalence
  <2> SUFFICES ASSUME IInv, audit = "over", verdict = 0, Built,
                      request.kind = "package", request.binds = {},
                      NEW p \in Path, Steady(p)
               PROVE  p \in observed <=>
                        \E b \in argv.binds : b.guest = p /\ b.host = leads[p]
    BY DEF AuditedEquivalence
  <2>1. argv.binds = binds /\ binds = Own(binds) /\ PolicyIn(binds)
    BY DEF IInv, LInv, ArgvInv, BindsInv, Built
  <2>2. p \in Fixed \cup {home} /\ Exists(p) <=>
          \E b \in binds : b.guest = p /\ b.host = leads[p]
    BY <2>1 DEF PolicyIn
  <2>3. QED
    BY <2>1, <2>2 DEF IInv, AuditInv
<1>2. QED
  BY <1>1, Inductive, PTL
=============================================================================
