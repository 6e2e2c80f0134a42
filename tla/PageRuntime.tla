---------------------------- MODULE PageRuntime ----------------------------
(***************************************************************************)
(* The lifecycle of a page component on one root element (runtime.js).     *)
(*                                                                         *)
(* A mount claims the root, runs its component's start function, and lives *)
(* until destroy; then the root may be mounted again.  The promises of an  *)
(* ended mount are not gone: each still runs when its request is aborted,  *)
(* or answered by a fetch function of the host that ignores the abort.     *)
(*                                                                         *)
(* The parts here are joined with a component's own steps: ManagerPage.    *)
(* A call of claim on a mounted root, on an element that is no root, or    *)
(* with options that it refuses throws and changes nothing.                *)
(***************************************************************************)
EXTENDS Integers, FiniteSets

CONSTANTS
  Roles,      \* the start functions of the component, each with one cleanup
  MaxMounts   \* bound: mounts of the root

ASSUME RuntimeAssumption == IsFiniteSet(Roles) /\ MaxMounts \in Nat \ {0}

Mounts == 1..MaxMounts

VARIABLES
  root,       \* the mounted attribute, and the mount whose nodes it holds
  phase,      \* of each mount: "unborn", "live" or "destroyed"
  timers,     \* armed timers of each mount
  cleanups    \* registered cleanups of each mount that have not run

runtimeVars == <<root, phase, timers, cleanups>>

Pristine == 0   \* the nodes are clones of what the server rendered

Live(m) == phase[m] = "live"
Destroyed(m) == phase[m] = "destroyed"

RuntimeInit ==
  /\ root = [mounted |-> FALSE, nodes |-> Pristine]
  /\ phase = [m \in Mounts |-> "unborn"]
  /\ timers = [m \in Mounts |-> 0]
  /\ cleanups = [m \in Mounts |-> {}]

\* claim: mounts are numbered in the order in which they claim the root.
Claimable(m) ==
  /\ ~root.mounted
  /\ phase[m] = "unborn"
  /\ \A earlier \in 1..(m - 1) : phase[earlier] # "unborn"

\* mount: the handle is returned once every start function has run; each
\* registers a cleanup.
Claim(m) ==
  /\ Claimable(m)
  /\ root' = [mounted |-> TRUE, nodes |-> m]
  /\ phase' = [phase EXCEPT ![m] = "live"]
  /\ cleanups' = [cleanups EXCEPT ![m] = Roles]
  /\ UNCHANGED timers

\* mount: a start function throws, destroy runs before the error leaves mount.
ClaimFails(m) ==
  /\ Claimable(m)
  /\ root' = [mounted |-> FALSE, nodes |-> Pristine]
  /\ phase' = [phase EXCEPT ![m] = "destroyed"]
  /\ UNCHANGED <<timers, cleanups>>

\* destroy: abort, clear the timers, run the cleanups, restore the markup.
Destroy(m) ==
  /\ Live(m)
  /\ root' = [mounted |-> FALSE, nodes |-> Pristine]
  /\ phase' = [phase EXCEPT ![m] = "destroyed"]
  /\ timers' = [timers EXCEPT ![m] = 0]
  /\ cleanups' = [cleanups EXCEPT ![m] = {}]

\* Mutant: a timer is armed although the mount was destroyed.
LaterAlways(m) ==
  /\ timers' = [timers EXCEPT ![m] = @ + 1]
  /\ UNCHANGED <<root, phase, cleanups>>

\* later
Later(m) ==
  /\ timers' = IF Destroyed(m) THEN timers ELSE [timers EXCEPT ![m] = @ + 1]
  /\ UNCHANGED <<root, phase, cleanups>>

\* The timer removes itself before its callback runs.
Fires(m) ==
  /\ timers[m] > 0
  /\ timers' = [timers EXCEPT ![m] = @ - 1]
  /\ UNCHANGED <<root, phase, cleanups>>

-----------------------------------------------------------------------------
\* A root has at most one mount; it is marked, and holds nodes that are not the
\* server's, exactly while that mount lives, also after a start that failed
\* half way; and an ended mount holds no timer and no cleanup (claim, destroy).
MountsExclusive ==
  /\ \A m, n \in Mounts : Live(m) /\ Live(n) => m = n
  /\ root.mounted = (\E m \in Mounts : Live(m))
  /\ \A m \in Mounts : Live(m) <=> root.nodes = m
  /\ \A m \in Mounts : Destroyed(m) => timers[m] = 0 /\ cleanups[m] = {}
=============================================================================
