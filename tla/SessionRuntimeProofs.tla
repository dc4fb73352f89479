------------------------- MODULE SessionRuntimeProofs -------------------------
(***************************************************************************)
(* Proofs about SessionRuntime for any callers, sessions and finalization  *)
(* requests, and any supervisor that keeps the contract.                   *)
(***************************************************************************)
EXTENDS SessionRuntime, TLAPS

-----------------------------------------------------------------------------
(* The inductive invariant. *)

Before == Making \cup {"validate", "open", "refuse"}

\* A program exists only from "supervise" on, and once the end was forced no
\* process of it is left.
NativeInv(c) ==
  /\ prog[c] = "absent" => company[c] = FALSE /\ stray[c] = "none"
  /\ pc[c] \in Before => prog[c] = "absent"
  /\ pc[c] \in Before \cup {"supervise"} => answer[c] = "pending"
  /\ answer[c] = "pending" /\ pc[c] \in Final \cup Over => prog[c] = "absent"
  /\ answer[c] \in Forced =>
       prog[c] \notin {"starting", "executing"} /\ company[c] = FALSE

\* A finalization that goes on had no sink that throws.
SinkInv(c) == pc[c] \in (Final \ {"export"}) \cup {"done"} => wish[c].sink # "throws"

\* How far a caller has got with a session that is quiet.
QuietInv(c) ==
  Quiet(c) =>
    /\ pc[c] \in {"report", "done"} /\ wish[c].retain => log[session[c]] # "excess"
    /\ pc[c] = "done" => (report[c] <=> Cleaned(c))
    /\ c \in wrote /\ wish[c].sink = "works" /\ pc[c] \in (Final \ {"export"}) \cup {"done"}
         => c \in exported[c]

\* Nobody touches the output of a caller that is alone before its export.
KeptInv(c) ==
  Alone(c) /\ c \in wrote /\ pc[c] \in Before \cup {"supervise", "export"}
    => c \in output[session[c]]

CInv(c) == NativeInv(c) /\ SinkInv(c) /\ QuietInv(c) /\ KeptInv(c)

IInv == TypeOK /\ OutputPreserved /\ \A c \in Client : CInv(c)

LEMMA Types == TypeOK =>
  /\ prog \in [Client -> {"absent", "starting", "executing", "aborted", "ended"}]
  /\ company \in [Client -> BOOLEAN]
  /\ answer \in [Client -> {"pending", "refused", "spawnFailed", "succeeded",
                            "finished", "timedOut", "lost"}]
  BY DEF TypeOK, Supervisor!TypeOK, Supervisor!Prog, Supervisor!Answer

LEMMA Wishes == TypeOK => \A c \in Client :
  wish[c].preserve \in BOOLEAN /\ wish[c].retain \in BOOLEAN /\ wish[c].sink \in {"none", "works", "throws"}
<1> SUFFICES ASSUME TypeOK, NEW c \in Client
             PROVE  wish[c] \in Request
  BY DEF Request
<1>1. QED
  BY WishAssumption DEF TypeOK

\* What a step of a leaves alone: the other callers, the other sessions.
Leaves(a) ==
  /\ \A c \in Client \ {a} :
       /\ pc'[c] = pc[c] /\ report'[c] = report[c] /\ prog'[c] = prog[c]
       /\ company'[c] = company[c] /\ answer'[c] = answer[c] /\ stray'[c] = stray[c]
       /\ exported'[c] = exported[c]
       /\ c \in wrote' <=> c \in wrote
  /\ \A s \in Session \ {session[a]} :
       dirs'[s] = dirs[s] /\ output'[s] = output[s] /\ log'[s] = log[s]
  /\ UNCHANGED <<session, wish>>
  /\ pc'[a] # "mkInput"

\* Whoever is alone after a step of another was so before, and in another session.
LEMMA Elsewhere ==
  ASSUME NEW a \in Client, Leaves(a), NEW c \in Client \ {a}, Alone(c)'
  PROVE  Alone(c) /\ session[a] # session[c]
<1>1. session[a] # session[c]
  BY DEF Leaves, Alone
<1>2. \A d \in Client \ {c} : d # a => pc'[d] = pc[d]
  BY DEF Leaves
<1>3. QED
  BY <1>1, <1>2 DEF Leaves, Alone

LEMMA OneStep ==
  ASSUME IInv, NEW a \in Client, Leaves(a), TypeOK', OutputPreserved', CInv(a)'
  PROVE  IInv'
<1>1. ASSUME NEW c \in Client \ {a} PROVE CInv(c)'
  <2>1. CInv(c)
    BY DEF IInv
  <2>2. NativeInv(c)' /\ SinkInv(c)'
    BY <2>1 DEF CInv, NativeInv, SinkInv, Leaves
  <2>3. session[c] \in Session /\ c \in Client
    BY DEF IInv, TypeOK
  <2>4. QuietInv(c)'
    BY <2>1, <2>3, Elsewhere DEF CInv, QuietInv, Quiet, Cleaned, Leaves
  <2>5. KeptInv(c)'
    BY <2>1, <2>3, Elsewhere DEF CInv, KeptInv, Leaves
  <2>6. QED
    BY <2>2, <2>4, <2>5 DEF CInv
<1>2. QED
  BY <1>1 DEF IInv

LEMMA Initially == Init => IInv
<1> SUFFICES ASSUME Init PROVE IInv
  OBVIOUS
<1>1. TypeOK
  BY DEF Init, TypeOK, Supervisor!TypeOK, Supervisor!Init, Supervisor!Prog,
     Supervisor!Answer, Making
<1>2. \A c \in Client : CInv(c)
  BY DEF Init, CInv, NativeInv, SinkInv, QuietInv, KeptInv, Quiet, Supervisor!Init,
     Final, Over, Forced
<1>3. OutputPreserved
  BY DEF Init, OutputPreserved
<1>4. QED
  BY <1>1, <1>2, <1>3 DEF IInv

-----------------------------------------------------------------------------
(* The output of a session. *)

\* Steps that keep every output keep its promise, as no caller goes back behind
\* the deletion of an output.
LEMMA OutputKept ==
  ASSUME IInv, NEW a \in Client, Leaves(a), wrote' = wrote,
         \A s \in Session : output[s] \subseteq output'[s], linked \subseteq linked',
         pc[a] \in PastOutput => pc'[a] \in PastOutput
  PROVE  OutputPreserved'
<1> SUFFICES ASSUME NEW c \in wrote
             PROVE  \/ c \in output'[session[c]]
                    \/ session[c] \in linked'
                    \/ \E d \in Client : /\ session[d] = session[c] /\ ~wish[d].preserve
                                         /\ pc'[d] \in PastOutput
                                         /\ wish[d].sink # "throws"
  BY DEF OutputPreserved, Leaves
<1>1. c \in Client /\ session[c] \in Session /\ session' = session
  BY DEF IInv, TypeOK, Leaves
<1>2. CASE c \in output[session[c]] \/ session[c] \in linked
  BY <1>1, <1>2
<1>3. CASE \E d \in Client : /\ session[d] = session[c] /\ ~wish[d].preserve
                             /\ pc[d] \in PastOutput
                             /\ wish[d].sink # "throws"
  <2>1. PICK d \in Client : /\ session[d] = session[c] /\ ~wish[d].preserve
                            /\ pc[d] \in PastOutput
                            /\ wish[d].sink # "throws"
    BY <1>3
  <2>2. pc'[d] \in PastOutput
    BY <2>1 DEF Leaves
  <2>3. QED
    BY <2>1, <2>2
<1>4. QED
  BY <1>2, <1>3 DEF IInv, OutputPreserved

-----------------------------------------------------------------------------
(* Before the finalization. *)

\* Whoever has no answer yet has nothing to show for its session.
LEMMA PendingIsQuiet ==
  ASSUME NEW c \in Client, answer[c] = "pending"
  PROVE  QuietInv(c)
  BY DEF QuietInv, Quiet, Forced

\* What runs of a program was launched, and its session is not quiet.
LEMMA LiveIsNotQuiet ==
  ASSUME IInv, NEW c \in Client, Live(c)
  PROVE  ~Quiet(c) /\ prog[c] # "absent" /\ pc[c] \notin Before
<1>1. NativeInv(c) /\ company[c] \in BOOLEAN
  BY Types DEF IInv, CInv
<1>2. prog[c] # "absent" /\ ~Quiet(c)
  BY <1>1 DEF NativeInv, Live, InGroup, Quiet
<1>3. QED
  BY <1>1, <1>2 DEF NativeInv

\* Steps before the launch, in which no answer and no process is involved.
LEMMA EarlyStep ==
  ASSUME IInv, NEW a \in Client, pc[a] \in Before,
         NEW l \in (Before \cup {"supervise", "export", "rejected"}) \ {"mkInput"},
         pc' = [pc EXCEPT ![a] = l],
         UNCHANGED <<given, report, native, stray, output, exported, wrote, linked>>,
         dirs' \in [Session -> SUBSET Dir],
         log' \in [Session -> {"absent", "bounded", "excess"}],
         attached' \in [Client -> BOOLEAN],
         \A s \in Session \ {session[a]} : dirs'[s] = dirs[s] /\ log'[s] = log[s]
  PROVE  IInv'
<1>1. TypeOK'
  BY DEF IInv, TypeOK, Supervisor!TypeOK, given, native, Before, Making, Over, Final
<1>2. Leaves(a)
  BY DEF IInv, TypeOK, Leaves, given, native
<1>3. OutputPreserved'
  <2>1. pc[a] \notin PastOutput
    BY DEF Before, Making, PastOutput
  <2>2. QED
    BY <1>2, <2>1, OutputKept
<1>4. CInv(a)'
  <2>1. NativeInv(a) /\ pc'[a] = l /\ answer'[a] = "pending"
    BY DEF IInv, TypeOK, CInv, NativeInv, native
  <2>2. NativeInv(a)'
    BY <2>1 DEF NativeInv, native, Forced
  <2>3. SinkInv(a)'
    BY <2>1 DEF SinkInv, Before, Making, Final
  <2>4. QuietInv(a)'
    BY <2>1 DEF QuietInv, Quiet, Forced
  <2>5. KeptInv(a)'
    BY DEF IInv, CInv, KeptInv, Alone, given
  <2>6. QED
    BY <2>2, <2>3, <2>4, <2>5 DEF CInv
<1>5. QED
  BY <1>1, <1>2, <1>3, <1>4, OneStep

LEMMA MakeKeeps ==
  ASSUME IInv, NEW a \in Client, NEW at \in Making, NEW d \in Dir,
         NEW next \in {"mkTmp", "mkOutput", "mkDiagnostics", "validate"},
         Make(a, at, d, next)
  PROVE  IInv'
<1>1. PICK l \in {next, "rejected"} : pc' = [pc EXCEPT ![a] = l]
  BY DEF Make, Goto
<1>2. session[a] \in Session
  BY DEF IInv, TypeOK
<1>3. /\ dirs' \in [Session -> SUBSET Dir]
      /\ \A s \in Session \ {session[a]} : dirs'[s] = dirs[s]
  BY <1>2 DEF IInv, TypeOK, Make
<1>4. /\ log' = log /\ log' \in [Session -> {"absent", "bounded", "excess"}]
      /\ attached' \in [Client -> BOOLEAN]
  BY DEF IInv, TypeOK, Make
<1>5. pc[a] \in Before /\ l \in (Before \cup {"rejected"}) \ {"mkInput"}
  BY DEF Make, Before, Making
<1>6. QED
  BY <1>1, <1>3, <1>4, <1>5, EarlyStep DEF Make

LEMMA CreateKeeps ==
  ASSUME IInv, NEW a \in Client, Create(a)
  PROVE  IInv'
  BY MakeKeeps DEF Create, Making, Dir

LEMMA ValidateKeeps ==
  ASSUME IInv, NEW a \in Client, Validate(a)
  PROVE  IInv'
<1>1. PICK l \in {"open", "export", "rejected"} : pc' = [pc EXCEPT ![a] = l]
  BY DEF Validate, Goto
<1>2. pc[a] \in Before
      /\ l \in (Before \cup {"supervise", "export", "rejected"}) \ {"mkInput"}
  BY DEF Validate, Before, Making
<1>3. UNCHANGED <<given, report, native, stray, output, exported, wrote, linked,
                  dirs, log, attached>>
  BY DEF Validate, disk
<1>4. QED
  BY <1>1, <1>2, <1>3, EarlyStep DEF IInv, TypeOK

LEMMA OpenLogsKeeps ==
  ASSUME IInv, NEW a \in Client, OpenLogs(a)
  PROVE  IInv'
<1>1. PICK l \in {"supervise", "refuse"} : pc' = [pc EXCEPT ![a] = l]
  BY DEF OpenLogs, Goto
<1>2. pc[a] \in Before
      /\ l \in (Before \cup {"supervise", "export", "rejected"}) \ {"mkInput"}
  BY DEF OpenLogs, Before, Making
<1>3. session[a] \in Session
  BY DEF IInv, TypeOK
<1>4. /\ log' \in [Session -> {"absent", "bounded", "excess"}]
      /\ attached' \in [Client -> BOOLEAN]
      /\ \A s \in Session \ {session[a]} : log'[s] = log[s]
  BY <1>3 DEF IInv, TypeOK, OpenLogs
<1>5. dirs' = dirs /\ dirs' \in [Session -> SUBSET Dir]
  BY DEF IInv, TypeOK, OpenLogs
<1>6. UNCHANGED <<given, report, native, stray, output, exported, wrote, linked>>
  BY DEF OpenLogs
<1>7. QED
  BY <1>1, <1>2, <1>4, <1>5, <1>6, EarlyStep

-----------------------------------------------------------------------------
(* The supervised program. *)

LEMMA LaunchKeeps ==
  ASSUME IInv, NEW a \in Client, Launch(a)
  PROVE  IInv'
<1>1. /\ pc[a] = "supervise" /\ answer[a] = "pending"
      /\ prog' = [prog EXCEPT ![a] = "starting"]
      /\ UNCHANGED <<company, answer, stray, given, pc, report, dirs, output, log,
                     attached, wrote, linked, exported>>
  BY DEF Launch, Supervisor!Launch, disk
<1>2. TypeOK'
  BY <1>1 DEF IInv, TypeOK, Supervisor!TypeOK, Supervisor!Prog, given
<1>3. Leaves(a)
  BY <1>1, Types DEF IInv, Leaves, given
<1>4. OutputPreserved'
  BY <1>1, <1>3, OutputKept
<1>5. prog'[a] = "starting"
  BY <1>1, Types DEF IInv
<1>6. CInv(a)'
  BY <1>1, <1>5
  DEF IInv, CInv, NativeInv, SinkInv, QuietInv, KeptInv, Quiet, Alone, Before, Making,
      Forced, Final, Over, given
<1>7. QED
  BY <1>2, <1>3, <1>4, <1>6, OneStep

LEMMA AnswersKeeps ==
  ASSUME IInv, NEW a \in Client, Answers(a)
  PROVE  IInv'
<1>1. /\ pc[a] \in {"supervise", "refuse"}
      /\ pc' = [pc EXCEPT ![a] = "export"]
      /\ UNCHANGED <<prog, company, stray, given, report, dirs, output, log,
                     attached, wrote, linked, exported>>
  BY DEF Answers, Supervisor!Reply, Goto, disk
<1>2. PICK v \in Supervisor!Answer \ {"pending"} :
        Supervisor!Justified(a, v) /\ answer' = [answer EXCEPT ![a] = v]
  BY DEF Answers, Supervisor!Reply
<1>3. TypeOK'
  BY <1>1, <1>2 DEF IInv, TypeOK, Supervisor!TypeOK, given, Final
<1>4. Leaves(a)
  BY <1>1, <1>2, Types DEF IInv, TypeOK, Leaves, given
<1>5. OutputPreserved'
  BY <1>1, <1>4, OutputKept DEF PastOutput
<1>6. pc'[a] = "export" /\ answer'[a] = v /\ NativeInv(a)
  BY <1>1, <1>2, Types DEF IInv, TypeOK, CInv
<1>7. v \in Forced => prog[a] \notin {"starting", "executing"} /\ company[a] = FALSE
  <2>1. company[a] \in BOOLEAN
    BY Types DEF IInv
  <2>2. QED
    BY <1>2, <1>6, <2>1 DEF Supervisor!Justified, Forced, NativeInv
<1>8. CInv(a)'
  <2>1. NativeInv(a)' /\ SinkInv(a)' /\ QuietInv(a)'
    BY <1>1, <1>2, <1>6, <1>7
    DEF NativeInv, SinkInv, QuietInv, Before, Making, Final
  <2>2. Alone(a)' => Alone(a)
    BY <1>1 DEF IInv, TypeOK, Alone, given
  <2>3. KeptInv(a)'
    BY <1>1, <2>2 DEF IInv, CInv, KeptInv, Before, given
  <2>4. QED
    BY <2>1, <2>3 DEF CInv
<1>9. QED
  BY <1>3, <1>4, <1>5, <1>8, OneStep

LEMMA ProcessesMoveKeeps ==
  ASSUME IInv, NEW a \in Client, ProcessesMove(a)
  PROVE  IInv'
<1>1. UNCHANGED <<answer, stray, given, pc, report, dirs, output, log, attached,
                  wrote, linked, exported>>
  BY DEF ProcessesMove, Supervisor!Execute, Supervisor!End, Supervisor!Gather, disk
<1>2. /\ prog' \in [Client -> {"absent", "starting", "executing", "aborted", "ended"}]
      /\ company' \in [Client -> BOOLEAN]
      /\ \A c \in Client \ {a} : prog'[c] = prog[c] /\ company'[c] = company[c]
      /\ prog'[a] # "absent" \/ prog'[a] = prog[a]
  BY Types DEF IInv, ProcessesMove, Supervisor!Execute, Supervisor!End,
     Supervisor!Gather
<1>3. prog[a] # "absent" /\ answer[a] \notin Forced
  <2>1. NativeInv(a) /\ company[a] \in BOOLEAN
    BY Types DEF IInv, CInv
  <2>2. prog[a] \in {"starting", "executing"} \/ company[a] = TRUE
    BY <2>1 DEF ProcessesMove, Supervisor!Execute, Supervisor!End,
       Supervisor!Gather
  <2>3. QED
    BY <2>1, <2>2 DEF NativeInv
<1>4. TypeOK'
  BY <1>1, <1>2 DEF IInv, TypeOK, Supervisor!TypeOK, Supervisor!Prog, given
<1>5. pc[a] # "mkInput"
  BY <1>3 DEF IInv, CInv, NativeInv, Before, Making
<1>6. Leaves(a)
  BY <1>1, <1>2, <1>5 DEF Leaves, given
<1>7. OutputPreserved'
  BY <1>1, <1>6, OutputKept
<1>8. NativeInv(a)'
  BY <1>1, <1>2, <1>3 DEF IInv, CInv, NativeInv
<1>9. SinkInv(a)' /\ QuietInv(a)' /\ KeptInv(a)'
  BY <1>1, <1>3 DEF IInv, CInv, SinkInv, QuietInv, Quiet, KeptInv, Alone, given
<1>10. QED
  BY <1>4, <1>6, <1>7, <1>8, <1>9, OneStep DEF CInv

LEMMA StraysMoveKeeps ==
  ASSUME IInv, NEW a \in Client, StraysMove(a)
  PROVE  IInv'
<1>1. UNCHANGED <<prog, company, answer, given, pc, report, dirs, output, log,
                  attached, wrote, linked, exported>>
  BY DEF StraysMove, native, disk
<1>2. /\ stray' \in [Client -> {"none", "running", "gone"}] /\ stray'[a] # "none"
      /\ \A c \in Client \ {a} : stray'[c] = stray[c]
  BY DEF IInv, TypeOK, StraysMove
<1>3. Live(a)
  BY DEF StraysMove, Live
<1>4. prog[a] # "absent" /\ pc[a] # "mkInput"
  BY <1>3, LiveIsNotQuiet DEF Before, Making
<1>5. TypeOK'
  BY <1>1, <1>2 DEF IInv, TypeOK, Supervisor!TypeOK, given
<1>6. Leaves(a)
  BY <1>1, <1>2, <1>4 DEF Leaves, given
<1>7. OutputPreserved'
  BY <1>1, <1>6, OutputKept
<1>8. CInv(a)'
  BY <1>1, <1>2, <1>4
  DEF IInv, CInv, NativeInv, SinkInv, QuietInv, Quiet, KeptInv, Alone, given
<1>9. QED
  BY <1>5, <1>6, <1>7, <1>8, OneStep

\* Whatever a running program does to the files of its session.
LEMMA LiveStep ==
  ASSUME IInv, NEW a \in Client, Live(a),
         UNCHANGED <<given, pc, report, native, stray, attached, exported>>,
         dirs' \in [Session -> SUBSET Dir],
         output' \in [Session -> SUBSET Client],
         log' \in [Session -> {"absent", "bounded", "excess"}],
         linked' \in SUBSET Session, linked \subseteq linked',
         \A s \in Session : output[s] \subseteq output'[s],
         \A s \in Session \ {session[a]} :
           dirs'[s] = dirs[s] /\ output'[s] = output[s] /\ log'[s] = log[s],
         \/ wrote' = wrote
         \/ wrote' = wrote \cup {a} /\ a \in output'[session[a]]
  PROVE  IInv'
<1>1. UNCHANGED <<session, wish, prog, company, answer>>
  BY DEF given, native
<1>2. /\ ~Quiet(a) /\ pc[a] # "mkInput" /\ session[a] \in Session
      /\ \A c \in wrote : session[c] \in Session
  BY LiveIsNotQuiet DEF Before, Making, IInv, TypeOK
<1>3. TypeOK'
  BY <1>1 DEF IInv, TypeOK, Supervisor!TypeOK
<1>4. Leaves(a)
  BY <1>1, <1>2 DEF Leaves
<1>5. OutputPreserved'
  BY <1>1, <1>2 DEF IInv, OutputPreserved
<1>6. NativeInv(a)' /\ SinkInv(a)'
  BY <1>1 DEF IInv, CInv, NativeInv, SinkInv
<1>7. QuietInv(a)'
  BY <1>1, <1>2 DEF QuietInv, Quiet, Alone
<1>8. KeptInv(a)'
  BY <1>1, <1>2 DEF IInv, CInv, KeptInv, Alone
<1>9. QED
  BY <1>3, <1>4, <1>5, <1>6, <1>7, <1>8, OneStep DEF CInv

LEMMA WritesLogKeeps ==
  ASSUME IInv, NEW a \in Client, WritesLog(a)
  PROVE  IInv'
<1>1. UNCHANGED <<given, pc, report, native, stray, attached, exported, dirs, output,
                  linked, wrote>>
  BY DEF WritesLog
<1>2. /\ log' \in [Session -> {"absent", "bounded", "excess"}]
      /\ \A s \in Session \ {session[a]} : log'[s] = log[s]
  BY DEF WritesLog, IInv, TypeOK
<1>3. /\ dirs' \in [Session -> SUBSET Dir] /\ output' \in [Session -> SUBSET Client]
      /\ linked' \in SUBSET Session
  BY <1>1 DEF IInv, TypeOK
<1>4. QED
  BY <1>1, <1>2, <1>3, LiveStep DEF WritesLog

LEMMA WritesOutputKeeps ==
  ASSUME IInv, NEW a \in Client, WritesOutput(a)
  PROVE  IInv'
<1>1. UNCHANGED <<given, pc, report, native, stray, attached, exported, dirs, log,
                  linked>>
  BY DEF WritesOutput
<1>2. session[a] \in Session
  BY DEF IInv, TypeOK
<1>3. /\ output' \in [Session -> SUBSET Client]
      /\ wrote' = wrote \cup {a} /\ a \in output'[session[a]]
      /\ \A s \in Session : output[s] \subseteq output'[s]
      /\ \A s \in Session \ {session[a]} : output'[s] = output[s]
  BY <1>2 DEF IInv, TypeOK, WritesOutput
<1>4. /\ dirs' \in [Session -> SUBSET Dir] /\ linked' \in SUBSET Session
      /\ log' \in [Session -> {"absent", "bounded", "excess"}]
  BY <1>1 DEF IInv, TypeOK
<1>5. QED
  BY <1>1, <1>3, <1>4, LiveStep DEF WritesOutput

LEMMA RemakesDirectoryKeeps ==
  ASSUME IInv, NEW a \in Client, RemakesDirectory(a)
  PROVE  IInv'
<1>1. UNCHANGED <<given, pc, report, native, stray, attached, exported, output, log,
                  linked, wrote>>
  BY DEF RemakesDirectory
<1>2. /\ dirs' \in [Session -> SUBSET Dir]
      /\ \A s \in Session \ {session[a]} : dirs'[s] = dirs[s]
  BY DEF RemakesDirectory, IInv, TypeOK, Dir
<1>3. /\ output' \in [Session -> SUBSET Client] /\ linked' \in SUBSET Session
      /\ log' \in [Session -> {"absent", "bounded", "excess"}]
  BY <1>1 DEF IInv, TypeOK
<1>4. QED
  BY <1>1, <1>2, <1>3, LiveStep DEF RemakesDirectory

LEMMA LinksOutputKeeps ==
  ASSUME IInv, NEW a \in Client, LinksOutput(a)
  PROVE  IInv'
<1>1. UNCHANGED <<given, pc, report, native, stray, attached, exported, dirs, output,
                  log, wrote>>
  BY DEF LinksOutput
<1>2. linked' \in SUBSET Session /\ linked \subseteq linked'
  BY DEF LinksOutput, IInv, TypeOK
<1>3. /\ output' \in [Session -> SUBSET Client] /\ dirs' \in [Session -> SUBSET Dir]
      /\ log' \in [Session -> {"absent", "bounded", "excess"}]
  BY <1>1 DEF IInv, TypeOK
<1>4. QED
  BY <1>1, <1>2, <1>3, LiveStep DEF LinksOutput

-----------------------------------------------------------------------------
(* The finalization. *)

LEMMA ExportKeeps ==
  ASSUME IInv, NEW a \in Client, Export(a)
  PROVE  IInv'
<1>1. UNCHANGED <<session, wish, report, prog, company, answer, stray, dirs, output,
                  log, attached, wrote, linked>>
  BY DEF Export, given, native, disk
<1>2. /\ pc[a] = "export" /\ session[a] \in Session
      /\ pc'[a] = IF wish[a].sink = "throws" THEN "exportFailed" ELSE "dropInput"
      /\ pc' \in [Client -> Making \cup {"validate", "open", "supervise", "refuse"}
                              \cup Final \cup Over]
  BY DEF IInv, TypeOK, Export, Goto, Final, Over
<1>3. /\ exported' \in [Client -> SUBSET Client]
      /\ wish[a].sink = "works" => exported'[a] = output[session[a]]
      /\ \A c \in Client \ {a} : exported'[c] = exported[c] /\ pc'[c] = pc[c]
  BY <1>2 DEF IInv, TypeOK, Export, Goto
<1>4. TypeOK'
  BY <1>1, <1>2, <1>3 DEF IInv, TypeOK, Supervisor!TypeOK
<1>5. Leaves(a)
  BY <1>1, <1>2, <1>3 DEF Leaves
<1>6. OutputPreserved'
  BY <1>1, <1>2, <1>5, OutputKept DEF PastOutput
<1>7. NativeInv(a)' /\ SinkInv(a)' /\ KeptInv(a)'
  BY <1>1, <1>2
  DEF IInv, CInv, NativeInv, SinkInv, KeptInv, Before, Making, Final, Over
<1>8. QuietInv(a)'
  <2> SUFFICES ASSUME Alone(a)', a \in wrote, wish[a].sink = "works"
               PROVE  a \in exported'[a]
    BY <1>1, <1>2 DEF QuietInv, Quiet
  <2>1. Alone(a)
    BY <1>3, <1>1 DEF Alone
  <2>2. QED
    BY <1>2, <1>3, <2>1 DEF IInv, CInv, KeptInv
<1>9. QED
  BY <1>4, <1>5, <1>6, <1>7, <1>8, OneStep DEF CInv

\* The later steps: nothing starts to run, nothing is exported, and QuietInv is
\* all there is to show.
LEMMA FinalStep ==
  ASSUME IInv, NEW a \in Client, pc[a] \in Final \ {"export"},
         NEW l \in (Final \ {"export", "dropInput"}) \cup {"done", "diagnosticsFailed"},
         pc' = [pc EXCEPT ![a] = l],
         pc[a] \in {"diagnostics", "report"} => l \in {"report", "done", "diagnosticsFailed"},
         UNCHANGED <<given, native, stray, wrote, linked, exported>>,
         report' \in [Client -> BOOLEAN],
         \A c \in Client \ {a} : report'[c] = report[c],
         dirs' \in [Session -> SUBSET Dir],
         output' \in [Session -> SUBSET Client],
         log' \in [Session -> {"absent", "bounded", "excess"}],
         attached' \in [Client -> BOOLEAN],
         \A s \in Session \ {session[a]} :
           dirs'[s] = dirs[s] /\ output'[s] = output[s] /\ log'[s] = log[s],
         \/ output' = output
         \/ wish[a].preserve = FALSE /\ l = "diagnostics"
         \/ session[a] \in linked,
         Quiet(a) => QuietInv(a)'
  PROVE  IInv'
<1>1. UNCHANGED <<session, wish, prog, company, answer>>
  BY DEF given, native
<1>2. TypeOK'
  BY <1>1 DEF IInv, TypeOK, Supervisor!TypeOK, Final, Over
<1>3. pc'[a] = l /\ \A c \in Client \ {a} : pc'[c] = pc[c]
  BY DEF IInv, TypeOK
<1>4. Leaves(a)
  BY <1>1, <1>3 DEF Leaves, Final
<1>5. OutputPreserved'
  <2>1. CASE output' = output
    BY <1>3, <1>4, <2>1, OutputKept DEF Final, PastOutput
  <2>2. CASE (wish[a].preserve = FALSE /\ l = "diagnostics") \/ session[a] \in linked
    <3> SUFFICES ASSUME NEW c \in wrote, session[c] \notin linked
                 PROVE  \/ c \in output'[session[c]]
                        \/ \E d \in Client :
                             /\ session[d] = session[c] /\ ~wish[d].preserve
                             /\ pc'[d] \in PastOutput
                             /\ wish[d].sink # "throws"
      BY <1>1 DEF OutputPreserved
    <3>1. c \in Client /\ session[c] \in Session
      BY DEF IInv, TypeOK
    <3>2. CASE session[c] = session[a]
      <4>1. wish[a].sink # "throws"
        BY DEF IInv, CInv, SinkInv
      <4>2. QED
        BY <1>3, <2>2, <3>2, <4>1 DEF PastOutput
    <3>3. CASE session[c] # session[a] /\ c \in output[session[c]]
      BY <3>1, <3>3
    <3>4. CASE session[c] # session[a] /\ c \notin output[session[c]]
      <4>1. PICK d \in Client : /\ session[d] = session[c] /\ ~wish[d].preserve
                                /\ pc[d] \in PastOutput
                                /\ wish[d].sink # "throws"
        BY <3>4 DEF IInv, OutputPreserved
      <4>2. pc'[d] = pc[d]
        BY <1>3, <3>4, <4>1
      <4>3. QED
        BY <4>1, <4>2
    <3>5. QED
      BY <3>2, <3>3, <3>4
  <2>3. QED
    BY <2>1, <2>2
<1>6. NativeInv(a)' /\ SinkInv(a)' /\ KeptInv(a)'
  BY <1>1, <1>3
  DEF IInv, CInv, NativeInv, SinkInv, KeptInv, Before, Making, Final, Over
<1>7. QuietInv(a)'
  <2>1. Quiet(a)' => Quiet(a)
    BY <1>1, <1>3 DEF Quiet, Alone
  <2>2. QED
    BY <1>1, <2>1 DEF QuietInv
<1>8. QED
  BY <1>2, <1>4, <1>5, <1>6, <1>7, OneStep DEF CInv

\* Following links removes nothing where no link was left.
LEMMA LinksLose ==
  ASSUME IInv, NEW a \in Client, LinksFollowed(a)
  PROVE  /\ output' \in [Session -> SUBSET Client]
         /\ \A s \in Session \ {session[a]} : output'[s] = output[s]
         /\ output' = output \/ session[a] \in linked
<1>1. PICK lost \in SUBSET Client :
        /\ session[a] \notin linked => lost = {}
        /\ output' = [output EXCEPT ![session[a]] = @ \ lost]
  BY DEF LinksFollowed
<1>2. output \in [Session -> SUBSET Client] /\ session[a] \in Session
  BY DEF IInv, TypeOK
<1>3. lost = {} => output' = output
  BY <1>1, <1>2
<1>4. QED
  BY <1>1, <1>2, <1>3

LEMMA DropWorkKeeps ==
  ASSUME IInv, NEW a \in Client, DropWork(a)
  PROVE  IInv'
<1>1. PICK at \in {"dropInput", "dropTmp"}, d \in {"input", "tmp"},
           l \in {"dropTmp", "dropOutput"} : Drop(a, at, d, l)
  BY DEF DropWork
<1>2. /\ pc[a] = at /\ pc' = [pc EXCEPT ![a] = l]
      /\ UNCHANGED <<given, report, native, stray, log, attached, wrote, linked,
                     exported>>
  BY <1>1 DEF Drop, Goto
<1>3. session[a] \in Session /\ QuietInv(a)
  BY DEF IInv, CInv, TypeOK
<1>4. /\ dirs' \in [Session -> SUBSET Dir]
      /\ \A s \in Session \ {session[a]} : dirs'[s] = dirs[s]
  BY <1>1, <1>3 DEF IInv, TypeOK, Drop
<1>5. /\ output' \in [Session -> SUBSET Client]
      /\ \A s \in Session \ {session[a]} : output'[s] = output[s]
      /\ output' = output \/ session[a] \in linked
  BY <1>1, LinksLose DEF Drop
<1>6. Quiet(a) => QuietInv(a)'
  <2>1. pc'[a] = l /\ UNCHANGED <<wish, wrote, exported>>
    BY <1>2 DEF IInv, TypeOK, given
  <2>2. QED
    BY <1>2, <1>3, <2>1 DEF QuietInv, Final
<1>7. /\ report' \in [Client -> BOOLEAN] /\ attached' \in [Client -> BOOLEAN]
      /\ log' \in [Session -> {"absent", "bounded", "excess"}]
  BY <1>2 DEF IInv, TypeOK
<1>8. QED
  BY <1>2, <1>4, <1>5, <1>6, <1>7, FinalStep DEF Final

LEMMA DropOutputKeeps ==
  ASSUME IInv, NEW a \in Client, DropOutput(a)
  PROVE  IInv'
<1>1. /\ pc[a] = "dropOutput" /\ pc' = [pc EXCEPT ![a] = "diagnostics"]
      /\ UNCHANGED <<given, report, native, stray, log, attached, wrote, linked,
                     exported>>
  BY DEF DropOutput, Goto
<1>2. session[a] \in Session /\ QuietInv(a) /\ wish[a].preserve \in BOOLEAN
  BY Wishes DEF IInv, CInv, TypeOK
<1>3. /\ dirs' \in [Session -> SUBSET Dir] /\ output' \in [Session -> SUBSET Client]
      /\ \A s \in Session \ {session[a]} :
           dirs'[s] = dirs[s] /\ output'[s] = output[s]
      /\ wish[a].preserve = FALSE \/ output' = output
  BY <1>2 DEF IInv, TypeOK, DropOutput
<1>4. Quiet(a) => QuietInv(a)'
  <2>1. pc'[a] = "diagnostics" /\ UNCHANGED <<wish, wrote, exported>>
    BY <1>1 DEF IInv, TypeOK, given
  <2>2. QED
    BY <1>1, <1>2, <2>1 DEF QuietInv, Final
<1>5. /\ report' \in [Client -> BOOLEAN] /\ attached' \in [Client -> BOOLEAN]
      /\ log' \in [Session -> {"absent", "bounded", "excess"}]
  BY <1>1 DEF IInv, TypeOK
<1>6. QED
  BY <1>1, <1>3, <1>4, <1>5, FinalStep DEF Final

LEMMA DiagnosticsKeeps ==
  ASSUME IInv, NEW a \in Client, Diagnostics(a)
  PROVE  IInv'
<1>1. /\ pc[a] = "diagnostics"
      /\ UNCHANGED <<given, report, native, stray, wrote, linked, exported>>
  BY DEF Diagnostics
<1>2. PICK l \in {"report", "diagnosticsFailed"} : pc' = [pc EXCEPT ![a] = l]
  BY DEF Diagnostics, RetainDiagnostics, DropDiagnostics, Goto
<1>3. session[a] \in Session /\ QuietInv(a) /\ wish[a].retain \in BOOLEAN
  BY Wishes DEF IInv, CInv, TypeOK
<1>4. /\ dirs' \in [Session -> SUBSET Dir]
      /\ attached' \in [Client -> BOOLEAN]
      /\ log' \in [Session -> {"absent", "bounded", "excess"}]
      /\ \A s \in Session \ {session[a]} : dirs'[s] = dirs[s] /\ log'[s] = log[s]
  <2>1. CASE RetainDiagnostics(a)
    BY <1>3, <2>1 DEF IInv, TypeOK, RetainDiagnostics
  <2>2. CASE DropDiagnostics(a)
    BY <1>3, <2>2 DEF IInv, TypeOK, DropDiagnostics
  <2>3. QED
    BY <2>1, <2>2 DEF Diagnostics
<1>5. /\ output' \in [Session -> SUBSET Client]
      /\ \A s \in Session \ {session[a]} : output'[s] = output[s]
      /\ output' = output \/ session[a] \in linked
  BY LinksLose DEF Diagnostics
<1>6. pc'[a] = "report" /\ wish[a].retain => log'[session[a]] # "excess"
  BY <1>3 DEF IInv, TypeOK, Diagnostics, RetainDiagnostics, DropDiagnostics, Goto
<1>7. Quiet(a) => QuietInv(a)'
  <2>1. pc'[a] = l /\ UNCHANGED <<session, wish, wrote, exported>>
    BY <1>1, <1>2 DEF IInv, TypeOK, given
  <2>2. QED
    BY <1>1, <1>3, <1>6, <2>1 DEF QuietInv, Final
<1>8. report' \in [Client -> BOOLEAN]
  BY <1>1 DEF IInv, TypeOK
<1>9. QED
  BY <1>1, <1>2, <1>4, <1>5, <1>7, <1>8, FinalStep DEF Final

LEMMA ReportKeeps ==
  ASSUME IInv, NEW a \in Client, Report(a)
  PROVE  IInv'
<1>1. /\ pc[a] = "report" /\ pc' = [pc EXCEPT ![a] = "done"]
      /\ UNCHANGED <<given, native, stray, dirs, output, log, attached, wrote, linked,
                     exported>>
  BY DEF Report, Goto, disk
<1>2. report' = [report EXCEPT ![a] = Cleaned(a)] /\ Cleaned(a) \in BOOLEAN
  BY DEF Report, Cleaned
<1>3. /\ report' \in [Client -> BOOLEAN] /\ report'[a] = Cleaned(a)
      /\ \A c \in Client \ {a} : report'[c] = report[c]
  BY <1>2 DEF IInv, TypeOK
<1>4. QuietInv(a)
  BY DEF IInv, CInv
<1>5. Quiet(a) => QuietInv(a)'
  <2>1. pc'[a] = "done" /\ UNCHANGED <<session, wish, dirs, log, wrote, exported>>
    BY <1>1 DEF IInv, TypeOK, given
  <2>2. Cleaned(a)' <=> Cleaned(a)
    BY <2>1 DEF Cleaned
  <2>3. QED
    BY <1>1, <1>3, <1>4, <2>1, <2>2 DEF QuietInv, Final
<1>6. /\ dirs' \in [Session -> SUBSET Dir] /\ output' \in [Session -> SUBSET Client]
      /\ log' \in [Session -> {"absent", "bounded", "excess"}]
      /\ attached' \in [Client -> BOOLEAN]
  BY <1>1 DEF IInv, TypeOK
<1>7. QED
  BY <1>1, <1>3, <1>5, <1>6, FinalStep DEF Final

-----------------------------------------------------------------------------
LEMMA StutterKeeps ==
  ASSUME IInv, UNCHANGED vars
  PROVE  IInv'
<1>1. UNCHANGED <<session, wish, pc, report, prog, company, answer, stray, dirs,
                  output, log, attached, wrote, linked, exported>>
  BY DEF vars, given, native, disk
<1>2. TypeOK'
  BY <1>1 DEF IInv, TypeOK, Supervisor!TypeOK
<1>3. OutputPreserved'
  BY <1>1 DEF IInv, OutputPreserved
<1>4. \A c \in Client : CInv(c)'
  BY <1>1 DEF IInv, CInv, NativeInv, SinkInv, QuietInv, Quiet, KeptInv, Cleaned, Alone
<1>5. QED
  BY <1>2, <1>3, <1>4 DEF IInv

THEOREM Inductive == Spec => []IInv
<1>1. IInv /\ [Next]_vars => IInv'
  <2> SUFFICES ASSUME IInv, [Next]_vars PROVE IInv'
    OBVIOUS
  <2>1. CASE Next
    BY <2>1, CreateKeeps, ValidateKeeps, OpenLogsKeeps, LaunchKeeps, AnswersKeeps,
       ProcessesMoveKeeps, StraysMoveKeeps, WritesLogKeeps, WritesOutputKeeps,
       RemakesDirectoryKeeps, LinksOutputKeeps, ExportKeeps, DropWorkKeeps,
       DropOutputKeeps, DiagnosticsKeeps, ReportKeeps DEF Next
  <2>2. CASE UNCHANGED vars
    BY <2>2, StutterKeeps
  <2>3. QED
    BY <2>1, <2>2
<1>2. QED
  BY <1>1, Initially, PTL DEF Spec

-----------------------------------------------------------------------------
(* What follows. *)

\* The state stays within its types.
THEOREM TypeCorrect == Spec => []TypeOK
<1>1. IInv => TypeOK
  BY DEF IInv
<1>2. QED
  BY <1>1, Inductive, PTL

\* No export that fails and no other session costs a program its output, as long
\* as no link leads to it.
THEOREM OutputIsPreserved == Spec => []OutputPreserved
<1>1. IInv => OutputPreserved
  BY DEF IInv
<1>2. QED
  BY <1>1, Inductive, PTL

\* After a forced end that left nobody outside the group, what the finalization
\* reports stays so, whatever the program and its descendants did before.
THEOREM FinalIsFinal == Spec => []FinalizedIsFinal
<1>1. IInv => FinalizedIsFinal
  BY DEF IInv, CInv, QuietInv, FinalizedIsFinal
<1>2. QED
  BY <1>1, Inductive, PTL

\* After such an end what the program wrote has been exported.
THEOREM ExportedIsComplete == Spec => []ExportIsComplete
<1>1. IInv => ExportIsComplete
  BY DEF IInv, CInv, QuietInv, ExportIsComplete
<1>2. QED
  BY <1>1, Inductive, PTL
=============================================================================
