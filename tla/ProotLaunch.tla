------------------------------ MODULE ProotLaunch ------------------------------
(***************************************************************************)
(* How a PRoot command line comes about: etroute.py (run and diagnose),    *)
(* ProotBackend of execution_backend.py with the specification of          *)
(* proot_launch_spec.py, and the audit of tools/verify_proot_s_mode.py,    *)
(* which compares the package policy with what `proot -S` binds.           *)
(*                                                                         *)
(* One launch and one audit, in one environment, while paths of the host   *)
(* appear and vanish between their steps.                                  *)
(***************************************************************************)
CONSTANTS
  Fixed,      \* the paths of S_MODE_RELATIVE_PATHS other than $HOME
  Standard,   \* those among them that diagnose binds
  HomePath,   \* values of HOME
  Other,      \* further paths of the host
  Forbidden,  \* PACKAGE_MODE_FORBIDDEN_GUESTS
  Elsewhere,  \* further destinations in the guest
  Covering,   \* destinations that hide another one: its ancestors, and
              \* spellings with a second "/" in front, which PurePosixPath keeps
  Unset,      \* HOME is unset or empty
  Bad         \* a destination that is relative or holds ".."

ASSUME PathAssumption ==
  /\ Standard \subseteq Fixed
  /\ Unset \notin Fixed \cup HomePath \cup Other
  /\ Forbidden \cap Fixed = {} /\ Covering \cap (Fixed \cup Forbidden) = {}
  /\ Bad \notin Fixed \cup HomePath \cup Forbidden

Path  == Fixed \cup HomePath \cup Other
Guest == Fixed \cup HomePath \cup Forbidden \cup Elsewhere \cup Covering \cup {Bad}

\* The launchers: the modes of etroute.py run, its diagnose, and ProotBackend.
Kind    == {"package", "login-root", "login-user", "diagnose", "backend"}
Release == {"none", "blank", "padded", "given"}
Command == {"none", "blank", "given"}

\* The list of binds: the policy's, and the caller's by their place in the list.
\* The host is what its links lead to, the guest is a spelling.
Bind == [slot : {"policy", "home", "first", "second"},
         host : Path, guest : Guest]

\* What is asked for: the launcher, the caller's binds, --kernel-release, which
\* may be blank or have blanks around it, the command, whose first word may be
\* blank, and --kill-on-exit.
Request == [kind : Kind, binds : SUBSET Bind, release : Release,
            command : Command, kill : BOOLEAN]

VARIABLES
  home,      \* the value of HOME
  usable,    \* the rootfs is there and has a shell
  leads,     \* what the symbolic links of each path lead to
  present,   \* the paths that exist
  touched,   \* those that have appeared or vanished since the beginning
  sMode,     \* the paths `proot -S` names as bound where they exist
  request,   \* what was asked for
  pc,        \* where the launch is
  kill,      \* the probe has found --kill-on-exit
  binds,     \* the effective binds
  argv,      \* the command line
  audit,     \* where the audit is
  observed,  \* the hosts of the binds it has read from PRoot's output
  verdict    \* its exit code

given    == <<home, usable, leads, sMode>>
world    == <<present, touched>>
launch   == <<request, pc, kill, binds, argv>>
auditing == <<audit, observed, verdict>>
vars     == <<given, world, launch, auditing>>

Argv == [root : BOOLEAN, release : Release, kill : BOOLEAN,
         binds : SUBSET Bind, command : {"shell", "blank", "given"}]

NoRequest == [kind |-> "backend", binds |-> {}, release |-> "none",
              command |-> "none", kill |-> FALSE]
NoArgv    == [root |-> FALSE, release |-> "none", kill |-> FALSE,
              binds |-> {}, command |-> "shell"]

TypeOK ==
  /\ home \in HomePath \cup {Unset}
  /\ usable \in BOOLEAN /\ kill \in BOOLEAN
  /\ leads \in [Path -> Path]
  /\ present \in SUBSET Path /\ touched \in SUBSET Path
  /\ sMode \in SUBSET Path /\ observed \in SUBSET Path
  /\ request \in Request
  /\ pc \in {"asked", "rootfs", "binds", "command", "probe", "policy", "join",
             "construct", "resolve", "flag", "constructed", "specified",
             "exec", "launched", "missing", "refused"}
  /\ binds \in SUBSET Bind
  /\ argv \in Argv
  /\ audit \in {"idle", "probe", "compare", "over"}
  /\ verdict \in {0, 2, 3, 4, 5, 6}

\* Up to two binds of a caller.
CallerBinds ==
  LET First  == [slot : {"first"}, host : Other, guest : Guest]
      Second == [slot : {"second"}, host : Other, guest : Guest]
  IN {{}} \cup {{b} : b \in First} \cup {{b, c} : b \in First, c \in Second}

\* The script goes to a destination of its own.
Asked == {q \in [kind : Kind, binds : CallerBinds, release : Release,
                 command : Command, kill : BOOLEAN] :
            q.kind = "diagnose" =>
              /\ q.command # "none"
              /\ \E h \in Other, g \in Elsewhere :
                   q.binds = {[slot |-> "first", host |-> h, guest |-> g]}}

Init ==
  /\ home \in HomePath \cup {Unset}
  /\ usable \in BOOLEAN
  /\ leads \in {f \in [Path -> Path] : \A p \in Path : f[f[p]] = f[p]}
  /\ sMode \in SUBSET Path
  /\ present \in SUBSET Path /\ touched = {}
  /\ request = NoRequest /\ pc = "asked" /\ kill = FALSE
  /\ binds = {} /\ argv = NoArgv
  /\ audit = "idle" /\ observed = {} /\ verdict = 0

Goto(l) == pc' = l

Exists(p) == leads[p] \in present

\* What a path leads to appears or vanishes; the links stay.
HostChanges(p) ==
  /\ present' = IF p \in present THEN present \ {p} ELSE present \cup {p}
  /\ touched' = touched \cup {p}
  /\ UNCHANGED <<given, launch, auditing>>

-----------------------------------------------------------------------------
(* What the launchers have in common. *)

\* BindMount.validate; RootfsBind and LaunchBind repeat it.
Fits(b) == b.host \in present /\ b.guest # Bad

\* Destinations are compared as they are spelled.
Clash(B) == \E b, c \in B : b # c /\ b.guest = c.guest

\* The loops over the effective binds, here and in ProotLaunchSpec.validate.
Joinable(B) == ~Clash(B) /\ \A b \in B : Fits(b)

\* `proot --help` names the flag; or does not, or fails, which counts as no.
Probe(from, next) ==
  /\ pc = from /\ Goto(next)
  /\ kill' \in {FALSE, request.kill}
  /\ UNCHANGED <<given, world, request, binds, argv, auditing>>

Step(from, next, condition) ==
  /\ pc = from /\ Goto(IF condition THEN next ELSE "refused")
  /\ UNCHANGED <<given, world, request, kill, binds, argv, auditing>>

-----------------------------------------------------------------------------
(* cmd_run and cmd_diagnose. *)

Ask ==
  /\ pc = "asked"
  /\ request' \in Asked
  /\ binds' = IF request'.kind = "diagnose" THEN {} ELSE request'.binds
  /\ Goto(IF request'.kind = "backend" THEN "construct" ELSE "rootfs")
  /\ UNCHANGED <<given, world, kill, argv, auditing>>

ValidateRootfs == Step("rootfs", "binds", usable)

\* parse_bind of every --bind.
ParseBinds ==
  /\ request.kind # "diagnose"
  /\ Step("binds", "command", \A b \in request.binds : Fits(b))

\* The standard paths that exist, and the script, which must be a file.
GatherBinds ==
  /\ request.kind = "diagnose" /\ pc = "binds"
  /\ IF \A b \in request.binds : b.host \in present
       THEN /\ Goto("probe")
            /\ binds' = request.binds \cup
                 {[slot |-> "policy", host |-> leads[p], guest |-> p] :
                    p \in {q \in Standard : Exists(q)}}
       ELSE Goto("refused") /\ UNCHANGED binds
  /\ UNCHANGED <<given, world, request, kill, argv, auditing>>

NeedCommand ==
  Step("command", "probe", request.kind = "package" => request.command # "none")

ProbeFlag ==
  Probe("probe", IF request.kind = "package" THEN "policy" ELSE "join")

\* validate_package_extra_binds, by spelling: what covers an identity file is let
\* through.
ExtraBindsAllowed(B) == \A b \in B : b.guest \notin Forbidden

\* package_policy_binds: a path of the policy that does not exist is passed over,
\* and one that does is mapped onto its name from where its links lead.
PolicyBind(slot, p) == [slot |-> slot, host |-> leads[p], guest |-> p]

PolicyBinds == {PolicyBind("policy", p) : p \in {q \in Fixed : Exists(q)}}
                 \cup {PolicyBind("home", p) : p \in {q \in {home} : Exists(q)}}

\* Variant: the caller's binds are not looked at.
AddPolicyAnyBinds ==
  /\ pc = "policy"
  /\ IF home # Unset
       THEN Goto("join") /\ binds' = request.binds \cup PolicyBinds
       ELSE Goto("refused") /\ UNCHANGED binds
  /\ UNCHANGED <<given, world, request, kill, argv, auditing>>

\* The first part of build_proot_argv in package mode.
AddPolicy ==
  /\ pc = "policy"
  /\ IF ExtraBindsAllowed(request.binds) /\ home # Unset
       THEN Goto("join") /\ binds' = request.binds \cup PolicyBinds
       ELSE Goto("refused") /\ UNCHANGED binds
  /\ UNCHANGED <<given, world, request, kill, argv, auditing>>

\* Variant: a caller without a command gets none.
GuestCommandAsGiven(q) == q.command

\* Without a command the guest gets a shell; a blank one is as good as any.
GuestCommand(q) == IF q.command = "none" THEN "shell" ELSE q.command

\* Variant: the second of two binds for one destination is let through.
BuildArgvAnyTarget ==
  /\ pc = "join" /\ Goto("exec")
  /\ usable /\ \A b \in binds : Fits(b)
  /\ argv' = [root |-> request.kind # "login-user", release |-> request.release,
              kill |-> kill, binds |-> binds, command |-> GuestCommand(request)]
  /\ UNCHANGED <<given, world, request, kill, binds, auditing>>

\* Its end.  A release that is blank or padded is passed on.
BuildArgv ==
  /\ pc = "join"
  /\ IF usable /\ Joinable(binds)
       THEN /\ Goto("exec")
            /\ argv' = [root |-> request.kind # "login-user",
                        release |-> request.release, kill |-> kill, binds |-> binds,
                        command |-> GuestCommand(request)]
       ELSE Goto("refused") /\ UNCHANGED argv
  /\ UNCHANGED <<given, world, request, kill, binds, auditing>>

\* run_proot, and Popen in execute: PRoot itself may be missing.
RunProot ==
  /\ pc = "exec" /\ pc' \in {"launched", "missing"}
  /\ UNCHANGED <<given, world, request, kill, binds, argv, auditing>>

-----------------------------------------------------------------------------
(* ProotBackend, and the canonical command line of proot_launch_spec.py. *)

\* ProotLaunchSpec.validate: the command must have a first word that is not blank.
SpecValidates(B, command) == usable /\ command = "given" /\ Joinable(B)

Stripped(release) == CASE release = "blank"  -> "none"
                       [] release = "padded" -> "given"
                       [] OTHER              -> release

\* build_proot_argv of proot_launch_spec.py.
CanonicalArgv(q, known) ==
  [root |-> TRUE, release |-> Stripped(q.release), kill |-> known,
   binds |-> q.binds, command |-> "given"]

\* ProotConfig.validate in __init__: each bind by itself.
Construct == Step("construct", "resolve", usable /\ \A b \in binds : Fits(b))

\* _resolve_proot.
ResolveProot ==
  /\ pc = "resolve" /\ pc' \in {"flag", "missing"}
  /\ UNCHANGED <<given, world, request, kill, binds, argv, auditing>>

\* The flag is probed once for every execution of the backend.
ProbeOnce == Probe("flag", "constructed")

\* execute validates its request, which may come much later, and builds the
\* specification.
ToLaunchSpec ==
  Step("constructed", "specified", SpecValidates(binds, request.command))

BuildCanonicalArgv ==
  /\ pc = "specified"
  /\ IF SpecValidates(binds, request.command)
       THEN Goto("exec") /\ argv' = CanonicalArgv(request, kill)
       ELSE Goto("refused") /\ UNCHANGED argv
  /\ UNCHANGED <<given, world, request, kill, binds, auditing>>

Launch == \/ Ask
          \/ ValidateRootfs \/ ParseBinds \/ GatherBinds
          \/ NeedCommand \/ ProbeFlag \/ AddPolicy \/ BuildArgv \/ RunProot
          \/ Construct \/ ResolveProot \/ ProbeOnce \/ ToLaunchSpec \/ BuildCanonicalArgv

-----------------------------------------------------------------------------
(* The audit. *)

AuditEnds(code) == audit' = "over" /\ verdict' = code

\* Rootfs, pins, version and command; each failure has its exit code.
AuditChecks ==
  /\ audit = "idle"
  /\ \/ audit' = "probe" /\ UNCHANGED verdict
     \/ \E code \in {2, 3, 4, 5} : AuditEnds(code)
  /\ UNCHANGED <<given, world, launch, observed>>

\* `proot -S` runs, and its diagnostics name what it bound; or it fails, or they
\* cannot be read.  Of a bind only the host is kept, and its links are not
\* followed; the rootfs itself is left out.
AuditProbes ==
  /\ audit = "probe"
  /\ \/ /\ observed' = {p \in sMode : Exists(p)}
        /\ audit' = "compare" /\ UNCHANGED verdict
     \/ \E code \in {4, 5} : AuditEnds(code) /\ UNCHANGED observed
  /\ UNCHANGED <<given, world, launch>>

\* expected_existing_paths, by name.
Expected == {p \in Fixed \cup {home} : Exists(p)}

\* Variant: only what is missing counts as drift.
AuditComparesMissing ==
  /\ audit = "compare"
  /\ AuditEnds(IF home = Unset THEN 2
               ELSE IF Expected \subseteq observed THEN 0 ELSE 6)
  /\ UNCHANGED <<given, world, launch, observed>>

AuditCompares ==
  /\ audit = "compare"
  /\ AuditEnds(IF home = Unset THEN 2 ELSE IF Expected = observed THEN 0 ELSE 6)
  /\ UNCHANGED <<given, world, launch, observed>>

Audit == AuditChecks \/ AuditProbes \/ AuditCompares

Next == Launch \/ Audit \/ \E p \in Path : HostChanges(p)

Spec == Init /\ [][Next]_vars

-----------------------------------------------------------------------------
(* Properties. *)

Built == pc \in {"exec", "launched"}

\* Policy paths whose target neither appeared nor vanished so far.
Steady(p) == leads[p] \notin touched

\* A package command line maps every path of the policy that was there
\* throughout onto its own name, for a HOME that is set, whatever a caller adds,
\* and has one source for each destination as it is spelled.  It hides an identity
\* file, or another destination, only if HOME is one that does, or if the caller
\* adds one that covers others: that the code lets through.
PackageKeepsPolicy ==
  Built /\ request.kind = "package" =>
    /\ home # Unset
    /\ \A p \in Fixed \cup {home} : Exists(p) /\ Steady(p) =>
         \E b \in argv.binds : b.host = leads[p] /\ b.guest = p
    /\ \A b, c \in argv.binds : b.guest = c.guest => b = c
    /\ \/ \A b \in argv.binds : b.guest \notin Forbidden \cup Covering
       \/ home \in Forbidden \cup Covering
       \/ \E b \in request.binds : b.guest \in Covering

\* proot_launch_spec.py is "the source of truth" for what both launchers do.  With
\* hosts that stay as they are, a login-root launch of etroute.py and one of
\* ProotBackend are refused, or built, as the specification has it, except that
\* etroute.py hands on the release as it stands and takes any command.
LaunchersAgree ==
  LET own     == request.kind = "login-root"
      command == IF own THEN "given" ELSE request.command
      spec    == CanonicalArgv(request, kill)
  IN request.kind \in {"login-root", "backend"}
       /\ (\A b \in request.binds : b.host \notin touched) =>
     /\ Built =>
          /\ SpecValidates(request.binds, command)
          /\ argv = IF own THEN [spec EXCEPT !.release = request.release,
                                            !.command = GuestCommand(request)]
                           ELSE spec
     /\ pc = "refused" => ~SpecValidates(request.binds, command)

\* What a passed audit says of a package launch without further binds in the same
\* environment: whichever paths appear or vanish meanwhile, one that does not is
\* bound onto its name by the launch if and only if `proot -S` named it as bound.
\* Where `proot -S` maps it to, and what its links lead to, the audit does not see.
AuditedEquivalence ==
  /\ audit = "over" /\ verdict = 0
  /\ Built /\ request.kind = "package" /\ request.binds = {}
  => \A p \in Path : Steady(p) =>
       (p \in observed <=> \E b \in argv.binds : b.guest = p /\ b.host = leads[p])
=============================================================================
