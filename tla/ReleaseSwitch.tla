---------------------------- MODULE ReleaseSwitch ----------------------------
(***************************************************************************)
(* What the deploy agent promises, apart from how it keeps it: the release *)
(* on record is the release that runs, except inside a switch from one     *)
(* release to another.  A switch is opened on the release on record, ends  *)
(* on that release or on its target, or halts for the operator; the agent  *)
(* moves nothing after a halt, and opens no second switch inside the       *)
(* first.  What others change is counted apart, so that no move of the     *)
(* agent passes for theirs.                                                *)
(***************************************************************************)
EXTENDS Naturals

CONSTANTS Commits, Services, None

VARIABLES
  live,      \* live[s]: the commit whose image service s runs; None if gone
  released,  \* the commit on record; None before the agent is installed
  target,    \* the commit being switched to, inside a switch
  mode,      \* "steady", "switching" or "halted"
  disturbed  \* how often somebody else has changed a service

vars == <<live, released, target, mode, disturbed>>

AllRun(c) == [s \in Services |-> c]

Init ==
  /\ live \in {AllRun(c) : c \in Commits}
  /\ released = None /\ target = None /\ mode = "steady"
  /\ disturbed = 0

\* The installation records what already runs.
Adopt(c) ==
  /\ mode = "steady" /\ released = None /\ live = AllRun(c)
  /\ released' = c
  /\ UNCHANGED <<live, target, mode, disturbed>>

Open(t) ==
  /\ mode = "steady" /\ released # None /\ t # released
  /\ live = AllRun(released)
  /\ mode' = "switching" /\ target' = t
  /\ UNCHANGED <<live, released, disturbed>>

\* Until the target is on record a service may be replaced, back or forth.
Move(s) ==
  /\ mode = "switching" /\ released # target
  /\ \E c \in {released, target, None} : live' = [live EXCEPT ![s] = c]
  /\ UNCHANGED <<released, target, mode, disturbed>>

Record ==
  /\ mode = "switching" /\ live = AllRun(target)
  /\ released' = target
  /\ UNCHANGED <<live, target, mode, disturbed>>

\* A switch ends on the release on record, unless a container was put back by
\* somebody else after the record and before the end.
Close ==
  /\ mode = "switching" /\ (disturbed = 0 => live = AllRun(released))
  /\ mode' = "steady" /\ target' = None
  /\ UNCHANGED <<live, released, disturbed>>

Halt ==
  /\ mode = "switching" /\ released # target
  /\ mode' = "halted"
  /\ UNCHANGED <<live, released, target, disturbed>>

\* Somebody else replaces or removes a container.
Disturb(s, c) ==
  /\ disturbed' = disturbed + 1
  /\ live' = [live EXCEPT ![s] = c]
  /\ UNCHANGED <<released, target, mode>>

Next ==
  \/ \E c \in Commits : Adopt(c) \/ Open(c)
  \/ \E s \in Services : Move(s)
  \/ Record \/ Close \/ Halt
  \/ \E s \in Services, c \in Commits \cup {None} : Disturb(s, c)

Spec == Init /\ [][Next]_vars
=============================================================================
