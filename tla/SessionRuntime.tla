--------------------------- MODULE SessionRuntime ---------------------------
(***************************************************************************)
(* EtRouteRuntime.kt: callers that create a session's directories, run a   *)
(* program in it through the native supervisor and finalize it.            *)
(*                                                                         *)
(* The supervisor is used through SupervisionContract, which               *)
(* NativeSupervisor implements: what a caller may assume of the program    *)
(* and its process group when it has its answer.  A session identifier is  *)
(* the caller's choice, so two callers may work in the same directories.   *)
(***************************************************************************)
CONSTANTS
  Client,   \* the callers, each running one program and finalizing once
  Session,  \* session identifiers
  Wish      \* the finalization requests they make

Request == [preserve : BOOLEAN, retain : BOOLEAN,
            sink : {"none", "works", "throws"}]

ASSUME WishAssumption == Wish \subseteq Request

VARIABLES
  session,   \* the session identifier each caller uses
  wish,      \* its SessionFinalizationRequest
  pc,        \* where it is
  report,    \* `cleaned` of its SessionFinalizationResult
  prog, company, answer, \* its supervised program
  stray,     \* its program's descendants outside the process group
  attached,  \* its program's output goes to the log that is in place
  dirs,      \* the directories of each session that exist
  output,    \* the callers whose program has left a file in workspace/output
  log,       \* the log in diagnostics: within the retention bound, or not
  linked,    \* the sessions where a link to workspace/output was left
  exported,  \* the files each caller's export sink has received
  wrote      \* the callers whose program has ever written to workspace/output

given    == <<session, wish>>
native   == <<prog, company, answer>>
disk     == <<dirs, output, log, attached, wrote, linked>>
vars     == <<given, pc, report, native, stray, disk, exported>>

Supervisor == INSTANCE SupervisionContract WITH Run <- Client

Dir    == {"input", "tmp", "output", "diagnostics"}
Making == {"mkInput", "mkTmp", "mkOutput", "mkDiagnostics"}
Final  == {"export", "dropInput", "dropTmp", "dropOutput", "diagnostics",
           "report"}
Over   == {"done", "exportFailed", "diagnosticsFailed", "rejected"}

TypeOK ==
  /\ session \in [Client -> Session]
  /\ wish \in [Client -> Wish]
  /\ pc \in [Client -> Making \cup {"validate", "open", "supervise", "refuse"}
                       \cup Final \cup Over]
  /\ report \in [Client -> BOOLEAN]
  /\ Supervisor!TypeOK
  /\ stray \in [Client -> {"none", "running", "gone"}]
  /\ attached \in [Client -> BOOLEAN]
  /\ dirs \in [Session -> SUBSET Dir]
  /\ output \in [Session -> SUBSET Client]
  /\ log \in [Session -> {"absent", "bounded", "excess"}]
  /\ exported \in [Client -> SUBSET Client]
  /\ wrote \in SUBSET Client
  /\ linked \in SUBSET Session

Init ==
  /\ session \in [Client -> Session]
  /\ wish \in [Client -> Wish]
  /\ pc = [c \in Client |-> "mkInput"]
  /\ report = [c \in Client |-> FALSE]
  /\ Supervisor!Init
  /\ stray = [c \in Client |-> "none"]
  /\ attached = [c \in Client |-> FALSE]
  /\ dirs = [s \in Session |-> {}]
  /\ output = [s \in Session |-> {}]
  /\ log = [s \in Session |-> "absent"]
  /\ exported = [c \in Client |-> {}]
  /\ wrote = {}
  /\ linked = {}

Goto(c, l) == pc' = [pc EXCEPT ![c] = l]

\* A process of the caller's program is running: the program itself or a
\* descendant in its group, which the supervisor can signal, or a descendant
\* outside it, which it cannot.
InGroup(c) == prog[c] = "executing" \/ company[c]
Live(c)    == InGroup(c) \/ stray[c] = "running"

-----------------------------------------------------------------------------
(* EtRouteWorkspaceManager.create and PreparedLaunchValidator.validate. *)

\* One directory of the session; the caller gives up when it cannot be made.
Make(c, at, d, next) ==
  /\ pc[c] = at
  /\ \/ dirs' = [dirs EXCEPT ![session[c]] = @ \cup {d}] /\ Goto(c, next)
     \/ d \notin dirs[session[c]] /\ Goto(c, "rejected") /\ UNCHANGED dirs
  /\ UNCHANGED <<given, report, native, stray, output, log, attached, wrote, linked,
                 exported>>

Create(c) == \/ Make(c, "mkInput",       "input",       "mkTmp")
             \/ Make(c, "mkTmp",         "tmp",         "mkOutput")
             \/ Make(c, "mkOutput",      "output",      "mkDiagnostics")
             \/ Make(c, "mkDiagnostics", "diagnostics", "validate")

\* The working directory, workspace/tmp, must be a directory by now; the other
\* checks are on the launch itself and may fail for any reason.  The caller
\* of a launch that is rejected finalizes the session or gives up.
Validate(c) ==
  /\ pc[c] = "validate"
  /\ \/ "tmp" \in dirs[session[c]] /\ Goto(c, "open")
     \/ \E l \in {"export", "rejected"} : Goto(c, l)
  /\ UNCHANGED <<given, report, native, stray, disk, exported>>

-----------------------------------------------------------------------------
(* The supervised program. *)

\* run_process opens the logs by name and empties them.
OpenLogs(c) ==
  /\ pc[c] = "open"
  /\ \/ /\ "diagnostics" \in dirs[session[c]]
        /\ log' = [log EXCEPT ![session[c]] = "bounded"]
        /\ attached' = [attached EXCEPT ![c] = TRUE]
        /\ Goto(c, "supervise")
     \/ Goto(c, "refuse") /\ UNCHANGED <<log, attached>>
  /\ UNCHANGED <<given, report, native, stray, dirs, output, wrote, linked,
                 exported>>

Launch(c) ==
  /\ pc[c] = "supervise" /\ Supervisor!Launch(c)
  /\ UNCHANGED <<given, pc, report, stray, disk, exported>>

Answers(c) ==
  /\ pc[c] \in {"supervise", "refuse"} /\ Supervisor!Reply(c)
  /\ Goto(c, "export")
  /\ UNCHANGED <<given, report, stray, disk, exported>>

ProcessesMove(c) ==
  /\ Supervisor!Execute(c) \/ Supervisor!End(c) \/ Supervisor!Gather(c)
  /\ UNCHANGED <<given, pc, report, stray, disk, exported>>

\* A descendant leaves the group, or the last one outside it ends.  No answer
\* of the supervisor tells anything about those.
StraysMove(c) ==
  /\ \/ InGroup(c) /\ stray' = [stray EXCEPT ![c] = "running"]
     \/ stray[c] = "running" /\ stray' = [stray EXCEPT ![c] = "gone"]
  /\ UNCHANGED <<given, pc, report, native, disk, exported>>

\* The log is written through the descriptor every descendant inherits.
WritesLog(c) ==
  /\ Live(c) /\ attached[c]
  /\ log' = [log EXCEPT ![session[c]] = "excess"]
  /\ UNCHANGED <<given, pc, report, native, stray, dirs, output, attached, wrote,
                 linked, exported>>

WritesOutput(c) ==
  /\ Live(c) /\ "output" \in dirs[session[c]]
  /\ output' = [output EXCEPT ![session[c]] = @ \cup {c}]
  /\ wrote' = wrote \cup {c}
  /\ UNCHANGED <<given, pc, report, native, stray, dirs, log, attached, linked,
                 exported>>

\* A directory of the session comes back after its deletion.
RemakesDirectory(c) ==
  /\ Live(c)
  /\ \E d \in {"input", "tmp", "output"} :
       dirs' = [dirs EXCEPT ![session[c]] = @ \cup {d}]
  /\ UNCHANGED <<given, pc, report, native, stray, output, log, attached, wrote,
                 linked, exported>>

\* A link to workspace/output, or to a file in it, is left among the files that
\* the finalization deletes or cuts.
LinksOutput(c) ==
  /\ Live(c) /\ linked' = linked \cup {session[c]}
  /\ UNCHANGED <<given, pc, report, native, stray, dirs, output, log, attached,
                 wrote, exported>>

-----------------------------------------------------------------------------
(* RuntimeSessionFinalizer.finalize. *)

\* Variant: only output that is preserved is exported.
ExportKept(c) ==
  /\ pc[c] = "export"
  /\ Goto(c, IF wish[c].sink = "throws" THEN "exportFailed" ELSE "dropInput")
  /\ exported' = IF wish[c].sink = "works" /\ wish[c].preserve
                 THEN [exported EXCEPT ![c] = output[session[c]]] ELSE exported
  /\ UNCHANGED <<given, report, native, stray, disk>>

\* The sink runs before anything is deleted, and its exception ends the
\* finalization there.
Export(c) ==
  /\ pc[c] = "export"
  /\ Goto(c, IF wish[c].sink = "throws" THEN "exportFailed" ELSE "dropInput")
  /\ exported' = IF wish[c].sink = "works"
                 THEN [exported EXCEPT ![c] = output[session[c]]] ELSE exported
  /\ UNCHANGED <<given, report, native, stray, disk>>

\* What the program of each caller left in workspace/output is lost in part or
\* as a whole where a link leads there: deletion and cutting follow links.
LinksFollowed(c) ==
  \E lost \in SUBSET Client :
    /\ session[c] \notin linked => lost = {}
    /\ output' = [output EXCEPT ![session[c]] = @ \ lost]

\* deleteRecursively, whose result is ignored: a directory or a file in it that
\* cannot be written, or a process that writes to it meanwhile, can keep it
\* from being removed.
Drop(c, at, d, next) ==
  /\ pc[c] = at
  /\ dirs' \in {dirs, [dirs EXCEPT ![session[c]] = @ \ {d}]}
  /\ LinksFollowed(c)
  /\ Goto(c, next)
  /\ UNCHANGED <<given, report, native, stray, log, attached, wrote, linked,
                 exported>>

DropWork(c) == \/ Drop(c, "dropInput", "input", "dropTmp")
               \/ Drop(c, "dropTmp", "tmp", "dropOutput")

\* Variant: the output goes whatever the request says.
DropOutputAlways(c) ==
  /\ pc[c] = "dropOutput" /\ Goto(c, "diagnostics")
  /\ output' = [output EXCEPT ![session[c]] = {}]
  /\ dirs' = [dirs EXCEPT ![session[c]] = @ \ {"output"}]
  /\ UNCHANGED <<given, report, native, stray, log, attached, wrote, linked,
                 exported>>

DropOutput(c) ==
  /\ pc[c] = "dropOutput"
  /\ \/ wish[c].preserve /\ UNCHANGED <<output, dirs>>
     \/ /\ ~wish[c].preserve
        /\ \/ /\ dirs' = [dirs EXCEPT ![session[c]] = @ \ {"output"}]
              /\ output' = [output EXCEPT ![session[c]] = {}]
           \/ /\ UNCHANGED dirs
              /\ \E left \in SUBSET output[session[c]] :
                   output' = [output EXCEPT ![session[c]] = left]
  /\ Goto(c, "diagnostics")
  /\ UNCHANGED <<given, report, native, stray, log, attached, wrote, linked,
                 exported>>

\* Variant: the log is renamed rather than cut.
RotateLog(c) ==
  /\ pc[c] = "diagnostics" /\ Goto(c, "report")
  /\ log' = [log EXCEPT ![session[c]] = "rotated"]
  /\ UNCHANGED <<given, report, native, stray, dirs, output, attached, wrote,
                 linked, exported>>

\* retainBoundedDiagnostics cuts the log that is in place to its prefix; the
\* exception of a log that cannot be read or written ends the finalization.
RetainDiagnostics(c) ==
  LET s == session[c] IN
  /\ wish[c].retain
  /\ \/ /\ log' = [log EXCEPT ![s] = IF @ = "excess" THEN "bounded" ELSE @]
        /\ Goto(c, "report")
     \/ log[s] = "excess" /\ Goto(c, "diagnosticsFailed") /\ UNCHANGED log
  /\ UNCHANGED <<dirs, attached>>

\* The alternative removes the log together with its directory, as far as that
\* can be done.
DropDiagnostics(c) ==
  LET s == session[c] IN
  /\ ~wish[c].retain
  /\ \/ /\ log' = [log EXCEPT ![s] = "absent"]
        /\ attached' = [d \in Client |-> attached[d] /\ session[d] # s]
        /\ dirs' \in {dirs, [dirs EXCEPT ![s] = @ \ {"diagnostics"}]}
     \/ UNCHANGED <<log, attached, dirs>>
  /\ Goto(c, "report")

Diagnostics(c) ==
  /\ pc[c] = "diagnostics"
  /\ RetainDiagnostics(c) \/ DropDiagnostics(c)
  /\ LinksFollowed(c)
  /\ UNCHANGED <<given, report, native, stray, wrote, linked, exported>>

\* The directories the request gave up are not there.
Cleaned(c) == /\ dirs[session[c]] \cap {"input", "tmp"} = {}
              /\ wish[c].preserve \/ "output" \notin dirs[session[c]]

Report(c) ==
  /\ pc[c] = "report"
  /\ report' = [report EXCEPT ![c] = Cleaned(c)]
  /\ Goto(c, "done")
  /\ UNCHANGED <<given, native, stray, disk, exported>>

Next == \E c \in Client :
  \/ Create(c) \/ Validate(c)
  \/ OpenLogs(c) \/ Launch(c) \/ Answers(c)
  \/ ProcessesMove(c) \/ StraysMove(c) \/ WritesLog(c) \/ WritesOutput(c)
  \/ RemakesDirectory(c) \/ LinksOutput(c)
  \/ Export(c) \/ DropWork(c) \/ DropOutput(c) \/ Diagnostics(c) \/ Report(c)

Spec == Init /\ [][Next]_vars

-----------------------------------------------------------------------------
(* Properties. *)

\* No other caller has begun to use the session of c.
Alone(c) == \A d \in Client \ {c} :
  session[d] # session[c] \/ pc[d] = "mkInput"

\* The answers after which no process of the group is left.
Forced == {"refused", "spawnFailed", "timedOut", "lost"}

\* The end of the call was forced, and no descendant had left the group: only
\* then does the answer mean that nothing of the program runs any more.
Quiet(c) == Alone(c) /\ answer[c] \in Forced /\ stray[c] = "none"

\* What the finalization of a quiet session reports stays true: the directories
\* it calls cleaned are gone and do not come back, those it does not are there,
\* and a log it was to retain within the bound stays within it.  Without Quiet
\* (descendants outside the group, or of a program that ended by itself)
\* neither holds.
FinalizedIsFinal == \A c \in Client :
  pc[c] = "done" /\ Quiet(c) =>
    /\ report[c] <=> Cleaned(c)
    /\ wish[c].retain => log[session[c]] # "excess"

\* Where a caller has dealt with its output.
PastOutput == {"diagnostics", "report", "done", "diagnosticsFailed"}

\* What a program wrote to workspace/output is still there unless a caller of
\* that session finalized it without preserveOutput or a program of it left a
\* link to it; it never goes because its export failed.
OutputPreserved == \A c \in wrote :
  \/ c \in output[session[c]]
  \/ session[c] \in linked
  \/ \E d \in Client : /\ session[d] = session[c] /\ ~wish[d].preserve
                       /\ pc[d] \in PastOutput
                       /\ wish[d].sink # "throws"

\* An export of a quiet session is complete: whatever its program ever wrote has
\* reached the sink when its output is deleted.
ExportIsComplete == \A c \in Client :
  pc[c] = "done" /\ Quiet(c) /\ wish[c].sink = "works" /\ c \in wrote
  => c \in exported[c]
=============================================================================
