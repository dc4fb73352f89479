------------------------- MODULE EnvironmentContract -------------------------
(***************************************************************************)
(* What install_rootfs promises about one environment name, without        *)
(* staging, manifests or checks: an environment appears whole or not at    *)
(* all, is set aside before another takes its place, and is given up only  *)
(* by a command that has put its own there.                                *)
(***************************************************************************)
CONSTANTS
  Installer,  \* the install commands, each standing for the environment it builds
  Prov        \* what an environment is made from

VARIABLES
  wanted,   \* what each command is asked to install
  origin,   \* what the environment that was there before is made from
  visible,  \* the environment under the name, or "nobody"
  aside,    \* the environment each command has set aside, or "nobody"
  phase     \* how far each command has come

vars == <<wanted, origin, visible, aside, phase>>

\* "unrecorded" is a directory that is no whole environment.
Found == {"nobody", "old", "unrecorded"}
Phase == {"working", "installed", "ok", "conflict", "failed",
          "cleanupFailed", "interrupted"}

Init == /\ wanted \in [Installer -> Prov] /\ origin \in Prov
        /\ visible \in Found
        /\ aside = [i \in Installer |-> "nobody"]
        /\ phase = [i \in Installer |-> "working"]

Move(i, p, q) == /\ phase[i] = p
                 /\ phase' = [phase EXCEPT ![i] = q]
                 /\ UNCHANGED <<wanted, origin>>

MadeFrom(e) == IF e \in Installer THEN wanted[e] ELSE origin

\* One environment at a time.
SetAside(i) == /\ visible # "nobody" /\ aside[i] = "nobody"
               /\ aside' = [aside EXCEPT ![i] = visible]
               /\ visible' = "nobody"
               /\ Move(i, "working", "working")

\* Only its own, and only where none is.
Put(i) == /\ visible = "nobody"
          /\ visible' = i
          /\ Move(i, "working", "installed")
          /\ UNCHANGED aside

PutBack(i) == /\ visible = "nobody" /\ aside[i] # "nobody"
              /\ visible' = aside[i]
              /\ aside' = [aside EXCEPT ![i] = "nobody"]
              /\ Move(i, "working", "failed")

\* What was set aside is given up: bit by bit, altogether, or not to the end.  Until
\* the command has put its own there, it stays as it is.
Spoil(i) == /\ aside[i] # "nobody"
            /\ aside' = [aside EXCEPT ![i] = "unrecorded"]
            /\ Move(i, "installed", "installed")
            /\ UNCHANGED visible

Discard(i) == /\ aside' = [aside EXCEPT ![i] = "nobody"]
              /\ Move(i, "installed", "ok")
              /\ UNCHANGED visible

KeepBoth(i) == /\ aside[i] # "nobody"
               /\ aside' \in {aside, [aside EXCEPT ![i] = "unrecorded"]}
               /\ Move(i, "installed", "cleanupFailed")
               /\ UNCHANGED visible

\* There already, or another one is: only a whole environment is recorded.
Accept(i) == /\ aside[i] = "nobody"
             /\ visible \notin {"nobody", "unrecorded"}
             /\ MadeFrom(visible) = wanted[i]
             /\ Move(i, "working", "ok")
             /\ UNCHANGED <<visible, aside>>

Refuse(i) == /\ aside[i] = "nobody"
             /\ Move(i, "working", "conflict")
             /\ UNCHANGED <<visible, aside>>

\* A command that has set an environment aside fails only once the name is
\* taken again.
Fail(i) == /\ aside[i] = "nobody" \/ visible # "nobody"
           /\ Move(i, "working", "failed")
           /\ UNCHANGED <<visible, aside>>

\* Anywhere, and then the name may stay empty.
Interrupt(i) == /\ \/ Move(i, "working", "interrupted")
                   \/ Move(i, "installed", "interrupted")
                /\ UNCHANGED <<visible, aside>>

Next == \E i \in Installer :
  \/ SetAside(i) \/ Put(i) \/ PutBack(i)
  \/ Spoil(i) \/ Discard(i) \/ KeepBoth(i)
  \/ Accept(i) \/ Refuse(i) \/ Fail(i) \/ Interrupt(i)

Spec == Init /\ [][Next]_vars
=============================================================================
