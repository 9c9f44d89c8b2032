----------------------------- MODULE DeployAgent -----------------------------
(***************************************************************************)
(* The production deploy agent (ops/cd): a timer runs it every ten         *)
(* minutes, an operator may run it by hand.  It polls for an approved      *)
(* release, journals its intent, replaces the backend and frontend         *)
(* containers, confirms health and identity, records the new release and   *)
(* removes the journal; or rolls back; or, after an interruption, resolves *)
(* the journal it finds.  It may be killed between any two steps (systemd  *)
(* stops it after fifteen minutes), and any command it runs may fail.      *)
(*                                                                         *)
(* Abstractions.  An image is the commit of its revision label, which the  *)
(* agent verifies on pull, so there is one build per commit.  The record   *)
(* of the state file is its commit: its image ids are that commit's.  The  *)
(* authenticity of an approval, the dump and the compose validation may    *)
(* fail, and are nothing more here.  Only the holder of the lock writes    *)
(* the state file and the journal, so what it has read of them is what     *)
(* they hold.                                                              *)
(***************************************************************************)
EXTENDS Integers

CONSTANTS
  Agents,        \* runs that may be started at the same time
  Commits,       \* releases
  Services,      \* the containers the agent replaces: backend and frontend
  Backend,       \* the one whose entrypoint applies the migrations
  Rows,          \* rows the migration ledger may hold
  Migrations,    \* Migrations[c]: the rows release c's migrations write
  None,          \* no commit, no container
  MaxReplaced,   \* bound: times the database container is replaced
  MaxTouched     \* bound: containers changed outside the agent

ASSUME ReleaseAssumption ==
  /\ Backend \in Services
  /\ None \notin Commits
  /\ Migrations \in [Commits -> (SUBSET Rows) \ {{}}]
  /\ MaxReplaced \in Nat
  /\ MaxTouched \in Nat

VARIABLES
  image,      \* image[s]: what container demanage-s runs; None if it is gone
  db,         \* identity of the database container
  schema,     \* the rows of _prisma_migrations
  approved,   \* production.json: the approved release
  stateFile,  \* the deployed commit on record; None before --init-current-sha
  journal,    \* deploy-journal.json
  run,        \* run[a]: the local state of run a
  touched     \* history: containers changed outside the agent so far

outside == <<db, schema, approved, touched>>
disk == <<stateFile, journal>>
vars == <<image, db, schema, approved, stateFile, journal, run, touched>>

-----------------------------------------------------------------------------

Approval == [commit : Commits \cup {None}, previous : Commits \cup {None}]

NothingApproved == [commit |-> None, previous |-> None]

NoJournal == [phase |-> "none", target |-> None, previous |-> None,
              db |-> 0, schema |-> {}]

Journal ==
  {NoJournal} \cup
  [phase    : {"applying", "rollback-failed"},
   target   : Commits,
   previous : Commits,
   db       : Nat,                  \* database_identity
   schema   : SUBSET Rows]          \* prisma_migrations

DeploySteps == {"fetch", "pull", "up", "confirm", "promote", "discard"}
ReconcileSteps ==
  {"reconcile", "recover_confirm", "recover_record", "recover_discard",
   "keep_confirm", "keep_check", "keep_discard"}
RollbackSteps ==
  {"rb_check", "rb_up", "rb_confirm", "rb_verify", "rb_discard", "rb_fail"}

AgentRun ==
  [pc     : {"idle"} \cup DeploySteps \cup ReconcileSteps \cup RollbackSteps,
   target : Commits \cup {None},    \* the release being deployed
   db     : Nat,                    \* before_db
   todo   : SUBSET Services]        \* services compose has yet to replace

Idle == [pc |-> "idle", target |-> None, db |-> 0, todo |-> {}]

AllRun(c) == [s \in Services |-> c]

Init ==
  /\ \E c \in Commits : image = AllRun(c) /\ schema = Migrations[c]
  /\ db = 0
  /\ approved = NothingApproved
  /\ stateFile = None
  /\ journal = NoJournal
  /\ run = [a \in Agents |-> Idle]
  /\ touched = 0

\* Healthy, with both containers on the images of c.  The entrypoint migrates
\* before it starts the API, so health comes after c's migrations; even then
\* a probe may still fail (StepFails).
IsHealthy(c) == image = AllRun(c) /\ Migrations[c] \subseteq schema

Goto(a, pc) == run' = [run EXCEPT ![a].pc = pc]
End(a) == run' = [run EXCEPT ![a] = Idle]

-----------------------------------------------------------------------------
(* One run at a time.                                                        *)

\* Faulty variant: nobody asks for the lock.
LockIsIgnored == TRUE

\* flock: the lock is held as long as some run is alive.
LockIsFree == \A a \in Agents : run[a].pc = "idle"

\* --init-current-sha: every image's revision label is the operator's commit.
Initialize(a, c) ==
  /\ LockIsFree
  /\ run[a].pc = "idle"
  /\ stateFile = None /\ journal.phase = "none"
  /\ IsHealthy(c)
  /\ stateFile' = c
  /\ UNCHANGED <<image, journal, run, outside>>

Begin(a) ==
  /\ LockIsFree
  /\ run[a].pc = "idle"
  /\ stateFile # None
  /\ Goto(a, IF journal.phase = "none" THEN "fetch" ELSE "reconcile")
  /\ UNCHANGED <<image, disk, outside>>

-----------------------------------------------------------------------------
(* The journal left by an interrupted run.                                   *)

\* Faulty variant: a failed rollback is taken for an interrupted deploy.
MayReconcileHalted == db = journal.db

MayReconcile == journal.phase = "applying" /\ db = journal.db

\* Faulty variant: an interrupted deploy that changed nothing is left alone.
ReconcileOnlyForward(a) ==
  /\ run[a].pc = "reconcile"
  /\ MayReconcile
  /\ image = AllRun(journal.target) /\ Goto(a, "recover_confirm")
  /\ UNCHANGED <<image, disk, outside>>

Reconcile(a) ==
  /\ run[a].pc = "reconcile"
  /\ MayReconcile
  /\ \/ image = AllRun(journal.target) /\ Goto(a, "recover_confirm")
     \/ image = AllRun(journal.previous) /\ Goto(a, "keep_confirm")
  /\ UNCHANGED <<image, disk, outside>>

ConfirmRecovered(a) ==
  /\ run[a].pc = "recover_confirm"
  /\ IsHealthy(journal.target)
  /\ Goto(a, "recover_record")
  /\ UNCHANGED <<image, disk, outside>>

RecordRecovered(a) ==
  /\ run[a].pc = "recover_record"
  /\ stateFile' = journal.target
  /\ Goto(a, "recover_discard")
  /\ UNCHANGED <<image, journal, outside>>

ConfirmKept(a) ==
  /\ run[a].pc = "keep_confirm"
  /\ IsHealthy(journal.previous)
  /\ Goto(a, "keep_check")
  /\ UNCHANGED <<image, disk, outside>>

\* require_unchanged_migrations
CheckKept(a) ==
  /\ run[a].pc = "keep_check"
  /\ schema = journal.schema
  /\ Goto(a, "keep_discard")
  /\ UNCHANGED <<image, disk, outside>>

\* A resolved journal lets the run go on to the approval.
DiscardResolved(a) ==
  /\ run[a].pc \in {"recover_discard", "keep_discard"}
  /\ journal' = NoJournal
  /\ Goto(a, "fetch")
  /\ UNCHANGED <<image, stateFile, outside>>

-----------------------------------------------------------------------------
(* The deploy.                                                               *)

NothingToDo(a) ==
  /\ run[a].pc = "fetch"
  /\ approved.commit \in {None, stateFile}
  /\ End(a)
  /\ UNCHANGED <<image, disk, outside>>

\* Faulty variant: the containers are not compared with the record.
MayDeployUnrecorded ==
  /\ approved.commit \notin {None, stateFile}
  /\ approved.previous = stateFile

\* The approval was given for what is deployed, and that is what runs.
MayDeploy ==
  /\ approved.commit \notin {None, stateFile}
  /\ approved.previous = stateFile
  /\ IsHealthy(stateFile)

Preflight(a) ==
  /\ run[a].pc = "fetch"
  /\ MayDeploy
  /\ run' = [run EXCEPT ![a] = [pc |-> "pull", target |-> approved.commit,
                                db |-> db, todo |-> {}]]
  /\ UNCHANGED <<image, disk, outside>>

\* Faulty variant: the containers are replaced first, the journal comes after.
WriteJournalLate(a) ==
  /\ run[a].pc = "pull"
  /\ schema # {}
  /\ run' = [run EXCEPT ![a].pc = "up", ![a].todo = Services]
  /\ UNCHANGED <<image, disk, outside>>

\* After the pull and the dump: the intent, before any container is changed.
WriteJournal(a) ==
  /\ run[a].pc = "pull"
  /\ schema # {}
  /\ journal' = [phase |-> "applying", target |-> run[a].target,
                 previous |-> stateFile, db |-> run[a].db, schema |-> schema]
  /\ run' = [run EXCEPT ![a].pc = "up", ![a].todo = Services]
  /\ UNCHANGED <<image, stateFile, outside>>

\* compose up replaces one service after the other, not atomically: a container
\* is removed and then created, and the command may fail anywhere.
Replace(a, s) ==
  /\ run[a].pc \in {"up", "rb_up"}
  /\ s \in run[a].todo
  /\ \/ /\ image[s] # None
        /\ image' = [image EXCEPT ![s] = None]
        /\ UNCHANGED run
     \/ /\ image[s] = None
        /\ image' = [image EXCEPT ![s] = IF run[a].pc = "up" THEN journal.target
                                                          ELSE journal.previous]
        /\ run' = [run EXCEPT ![a].todo = @ \ {s}]
  /\ UNCHANGED <<disk, outside>>

UpReturns(a) ==
  /\ run[a].pc \in {"up", "rb_up"}
  /\ run[a].todo = {}
  /\ Goto(a, IF run[a].pc = "up" THEN "confirm" ELSE "rb_confirm")
  /\ UNCHANGED <<image, disk, outside>>

Confirm(a) ==
  /\ run[a].pc = "confirm"
  /\ IsHealthy(journal.target)
  /\ Goto(a, "promote")
  /\ UNCHANGED <<image, disk, outside>>

\* The database is compared, and the record written at once.
Promote(a) ==
  /\ run[a].pc = "promote"
  /\ db = run[a].db
  /\ stateFile' = journal.target
  /\ Goto(a, "discard")
  /\ UNCHANGED <<image, journal, outside>>

\* The deploy, or the rollback, is over.
Discard(a) ==
  /\ run[a].pc \in {"discard", "rb_discard"}
  /\ journal' = NoJournal
  /\ End(a)
  /\ UNCHANGED <<image, stateFile, outside>>

-----------------------------------------------------------------------------
(* The rollback.                                                             *)

StartRollback(a) ==
  /\ run[a].pc = "rb_check"
  /\ schema = journal.schema
  /\ run' = [run EXCEPT ![a].pc = "rb_up", ![a].todo = Services]
  /\ UNCHANGED <<image, disk, outside>>

ConfirmRollback(a) ==
  /\ run[a].pc = "rb_confirm"
  /\ IsHealthy(journal.previous)
  /\ Goto(a, "rb_verify")
  /\ UNCHANGED <<image, disk, outside>>

\* Faulty variant: the migrations were compared before the rollback, once.
RollbackMayEndUnchecked(a) == db = run[a].db

RollbackMayEnd(a) == db = run[a].db /\ schema = journal.schema

VerifyRollback(a) ==
  /\ run[a].pc = "rb_verify"
  /\ RollbackMayEnd(a)
  /\ Goto(a, "rb_discard")
  /\ UNCHANGED <<image, disk, outside>>

\* The journal is kept, for the operator.
RecordFailure(a) ==
  /\ run[a].pc = "rb_fail"
  /\ journal' = [journal EXCEPT !.phase = "rollback-failed"]
  /\ End(a)
  /\ UNCHANGED <<image, stateFile, outside>>

-----------------------------------------------------------------------------
(* What can go wrong.                                                        *)

\* Where an exception leads: out of the run, to the rollback, or to the
\* journal of a failed rollback.
OnFailure(pc) ==
  CASE pc \in {"up", "confirm", "promote"} -> "rb_check"
    [] pc \in {"rb_check", "rb_up", "rb_confirm", "rb_verify"} -> "rb_fail"
    [] OTHER -> "idle"

\* A command, a probe or a comparison fails, or the wait for health ends.
StepFails(a) ==
  /\ run[a].pc # "idle"
  /\ IF OnFailure(run[a].pc) = "idle" THEN End(a)
     ELSE run' = [run EXCEPT ![a].pc = OnFailure(@), ![a].todo = {}]
  /\ UNCHANGED <<image, disk, outside>>

\* The process dies: what it knew is lost, and its lock is free.
Crash(a) ==
  /\ run[a].pc # "idle"
  /\ End(a)
  /\ UNCHANGED <<image, disk, outside>>

-----------------------------------------------------------------------------
(* The world outside the agent.                                              *)

Approve(c, p) ==
  /\ approved' = [commit |-> c, previous |-> p]
  /\ UNCHANGED <<image, db, schema, disk, run, touched>>

\* The backend's entrypoint runs prisma migrate deploy: from the moment its
\* container is up, one more row of its migrations may appear at any time.
Migrate ==
  /\ image[Backend] # None
  /\ \E row \in Migrations[image[Backend]] \ schema : schema' = schema \cup {row}
  /\ UNCHANGED <<image, db, approved, disk, run, touched>>

ReplaceDatabase ==
  /\ db < MaxReplaced
  /\ db' = db + 1
  /\ UNCHANGED <<image, schema, approved, disk, run, touched>>

\* An operator's own change of a container, never in the middle of a run.
Touch(s, c) ==
  /\ LockIsFree
  /\ touched < MaxTouched
  /\ touched' = touched + 1
  /\ image' = [image EXCEPT ![s] = c]
  /\ UNCHANGED <<db, schema, approved, disk, run>>

-----------------------------------------------------------------------------

Advance(a) ==
  \/ Reconcile(a) \/ ConfirmRecovered(a) \/ RecordRecovered(a)
  \/ ConfirmKept(a) \/ CheckKept(a) \/ DiscardResolved(a)
  \/ NothingToDo(a) \/ Preflight(a) \/ WriteJournal(a)
  \/ \E s \in Services : Replace(a, s)
  \/ UpReturns(a) \/ Confirm(a) \/ Promote(a) \/ Discard(a)
  \/ StartRollback(a) \/ ConfirmRollback(a) \/ VerifyRollback(a)
  \/ RecordFailure(a)

Agent(a) ==
  \/ \E c \in Commits : Initialize(a, c)
  \/ Begin(a) \/ Advance(a) \/ StepFails(a) \/ Crash(a)

World ==
  \/ \E c, p \in Commits : Approve(c, p)
  \/ Migrate \/ ReplaceDatabase
  \/ \E s \in Services, c \in Commits \cup {None} : Touch(s, c)

Next == (\E a \in Agents : Agent(a)) \/ World

Spec == Init /\ [][Next]_vars

-----------------------------------------------------------------------------
(* Correctness.                                                              *)

\* Every variable has its type.
TypeOK ==
  /\ image \in [Services -> Commits \cup {None}]
  /\ db \in 0 .. MaxReplaced
  /\ schema \in SUBSET Rows
  /\ approved \in Approval
  /\ stateFile \in Commits \cup {None}
  /\ journal \in Journal
  /\ run \in [Agents -> AgentRun]
  /\ touched \in 0 .. MaxTouched

\* Without a journal, what runs is the release on record: no kill, failure or
\* rollback leaves the two apart and the journal gone.
RecordedReleaseRuns ==
  journal.phase = "none" /\ stateFile # None /\ touched = 0
    => image = AllRun(stateFile)

\* A deploy is given up without the operator, by a rollback or on recovery,
\* only if the migration ledger is the one its previous release ran on: the
\* new backend may have migrated at any moment it was up.
OldReleaseOnItsSchema ==
  [][/\ journal.phase = "applying" /\ journal'.phase = "none"
     /\ stateFile = journal.previous
     => schema = journal.schema]_vars

\* The release on record only advances to the target of a journal opened on
\* it, and only when both containers run it.
RecordFollowsJournal ==
  [][stateFile # None /\ stateFile' # stateFile =>
       /\ journal.phase = "applying" /\ journal.previous = stateFile
       /\ stateFile' = journal.target
       /\ image = AllRun(journal.target)]_vars

\* A deploy is only ever opened on containers that run the release on record:
\* one that finds them changed by somebody else leaves them alone.
DeploysOnRecordedRelease ==
  [][journal.phase = "none" /\ journal'.phase = "applying" =>
       image = AllRun(stateFile)]_vars

SwitchMode ==
  CASE journal.phase = "none"            -> "steady"
    [] journal.phase = "applying"        -> "switching"
    [] journal.phase = "rollback-failed" -> "halted"

Switch == INSTANCE ReleaseSwitch WITH
  live <- image, released <- stateFile, target <- journal.target,
  mode <- SwitchMode, disturbed <- touched

\* The agent implements the abstract switch of releases, whatever somebody
\* else does to the containers between its runs.
SwitchesReleases == Switch!Spec

-----------------------------------------------------------------------------
(* Liveness.  The timer keeps starting runs, no command hangs (each has its   *)
(* timeout), a backend that is up gets its migrations done, and no step of a  *)
(* resolution fails or is cut short for ever.                                 *)

Fairness == WF_vars(Migrate) /\ \A a \in Agents :
  /\ WF_vars(Begin(a)) /\ WF_vars(Advance(a) \/ StepFails(a))
  /\ SF_vars(Reconcile(a)) /\ SF_vars(ConfirmRecovered(a))
  /\ SF_vars(RecordRecovered(a)) /\ SF_vars(ConfirmKept(a))
  /\ SF_vars(CheckKept(a)) /\ SF_vars(DiscardResolved(a))

FairSpec == Spec /\ Fairness

\* The cases the agent leaves to the operator.
NeedsOperator ==
  \/ journal.phase = "rollback-failed"
  \/ db # journal.db
  \/ image \notin {AllRun(journal.target), AllRun(journal.previous)}
  \/ image = AllRun(journal.previous) /\ schema # journal.schema

\* An interrupted deploy does not stay open for ever, unless it is one of the
\* cases left to the operator.
DeploysSettle == []<>(journal.phase # "applying") \/ <>[]NeedsOperator

=============================================================================
