-------------------------- MODULE DeployAgentProofs --------------------------
(***************************************************************************)
(* Theorems about the deploy agent, for any releases, any number of runs   *)
(* started together and any interleaving of failures, kills, migrations    *)
(* and changes from outside.  The invariant says what each step of a run   *)
(* may rely on: which of the two releases is on record, which one runs,    *)
(* and that its migrations are done and are those of the journal.          *)
(***************************************************************************)
EXTENDS DeployAgent, TLAPS

\* At most one run is alive.
OneRun ==
  \A a, b \in Agents : run[a].pc # "idle" /\ run[b].pc # "idle" => a = b

OnPrevious == {"up", "confirm", "promote"} \cup RollbackSteps
Resolving == ReconcileSteps \ {"reconcile"}

\* What run a may rely on at each of its steps.
RunKnows(a) ==
  LET pc == run[a].pc IN
  /\ pc \in {"fetch", "pull"} => journal.phase = "none" /\ stateFile # None
  /\ pc = "pull" => /\ run[a].target \in Commits \ {stateFile}
                    /\ image = AllRun(stateFile)
  /\ pc = "reconcile" => journal.phase # "none"
  /\ pc \in OnPrevious \cup Resolving \cup {"discard"} => journal.phase = "applying"
  /\ pc \in OnPrevious => stateFile = journal.previous
  /\ pc \in {"promote", "discard", "recover_confirm", "recover_record", "recover_discard"}
       => image = AllRun(journal.target)
  /\ pc \in {"discard", "recover_discard"} => stateFile = journal.target
  /\ pc \in {"keep_confirm", "keep_check", "keep_discard", "rb_verify", "rb_discard"}
       => image = AllRun(journal.previous)
  /\ pc \in {"keep_check", "keep_discard", "rb_verify", "rb_discard"}
       => Migrations[journal.previous] \subseteq schema
  /\ pc \in {"keep_discard", "rb_discard"} => schema = journal.schema

\* What a journal says of the record and of the containers.
JournalKnows ==
  journal.phase # "none" =>
    /\ journal.target # journal.previous
    /\ stateFile \in {journal.previous, journal.target}
    /\ journal.phase = "rollback-failed" => stateFile = journal.previous
    /\ touched = 0 /\ stateFile = journal.target => image = AllRun(journal.target)
    /\ touched = 0 /\ stateFile = journal.previous =>
         \A s \in Services : image[s] \in {journal.previous, journal.target, None}

IInv ==
  /\ TypeOK
  /\ OneRun
  /\ \A a \in Agents : RunKnows(a)
  /\ JournalKnows
  /\ RecordedReleaseRuns

-----------------------------------------------------------------------------
(* Types.                                                                    *)

LEMMA IdleType == Idle \in AgentRun
BY DEF Idle, AgentRun

LEMMA NoJournalType == NoJournal \in Journal
BY DEF Journal

LEMMA GotoType ==
  ASSUME TypeOK, NEW a \in Agents, NEW pc,
         pc \in {"idle"} \cup DeploySteps \cup ReconcileSteps \cup RollbackSteps,
         Goto(a, pc)
  PROVE  run' \in [Agents -> AgentRun]
<1>1. run[a] \in AgentRun
  BY DEF TypeOK
<1>2. [run[a] EXCEPT !.pc = pc] \in AgentRun
  BY <1>1 DEF AgentRun
<1>3. run' = [run EXCEPT ![a] = [run[a] EXCEPT !.pc = pc]]
  BY DEF Goto, TypeOK
<1> QED
  BY <1>2, <1>3 DEF TypeOK

LEMMA EndType ==
  ASSUME TypeOK, NEW a \in Agents, End(a)
  PROVE  run' \in [Agents -> AgentRun]
BY IdleType DEF End, TypeOK
-----------------------------------------------------------------------------
(* A step of a run: the other runs are idle, and know nothing.               *)

LEMMA IdleKnows ==
  ASSUME NEW b \in Agents, run[b].pc = "idle"
  PROVE  RunKnows(b)
BY DEF RunKnows, OnPrevious, Resolving, RollbackSteps, ReconcileSteps

LEMMA IdleKnowsNext ==
  ASSUME NEW b \in Agents, run'[b].pc = "idle"
  PROVE  RunKnows(b)'
BY DEF RunKnows, OnPrevious, Resolving, RollbackSteps, ReconcileSteps

\* What is left to show of a step of run a.
LEMMA OfOneRun ==
  ASSUME NEW a \in Agents, TypeOK',
         \A b \in Agents \ {a} : run'[b].pc = "idle",
         RunKnows(a)', JournalKnows', RecordedReleaseRuns'
  PROVE  IInv'
<1>1. OneRun'
  BY DEF OneRun
<1>2. \A b \in Agents : RunKnows(b)'
  BY IdleKnowsNext
<1> QED
  BY <1>1, <1>2 DEF IInv

LEMMA OnlyPcMoves ==
  ASSUME TypeOK, OneRun, NEW a \in Agents, NEW pc, Goto(a, pc),
         run[a].pc # "idle" \/ LockIsFree
  PROVE  /\ run'[a] = [run[a] EXCEPT !.pc = pc]
         /\ run'[a].pc = pc
         /\ run'[a].target = run[a].target
         /\ run'[a].db = run[a].db
         /\ \A b \in Agents \ {a} : run'[b].pc = "idle"
BY DEF TypeOK, OneRun, LockIsFree, Goto, AgentRun

LEMMA RunEnds ==
  ASSUME TypeOK, OneRun, NEW a \in Agents, End(a),
         run[a].pc # "idle" \/ LockIsFree
  PROVE  \A b \in Agents : run'[b].pc = "idle"
BY DEF TypeOK, OneRun, LockIsFree, End, Idle

\* Steps that only move the run to its next step.
LEMMA MoveKeeps ==
  ASSUME IInv, NEW a \in Agents, NEW pc,
         pc \in {"idle"} \cup DeploySteps \cup ReconcileSteps \cup RollbackSteps,
         Goto(a, pc), run[a].pc # "idle" \/ LockIsFree, RunKnows(a)',
         UNCHANGED <<image, disk, outside>>
  PROVE  IInv'
<1>1. TypeOK'
  BY GotoType DEF IInv, TypeOK, disk, outside
<1>2. \A b \in Agents \ {a} : run'[b].pc = "idle"
  BY OnlyPcMoves DEF IInv
<1>3. JournalKnows' /\ RecordedReleaseRuns'
  BY DEF IInv, JournalKnows, RecordedReleaseRuns, disk, outside
<1> QED
  BY <1>1, <1>2, <1>3, OfOneRun

LEMMA EndKeeps ==
  ASSUME IInv, NEW a \in Agents, End(a), run[a].pc # "idle" \/ LockIsFree,
         UNCHANGED <<image, disk, outside>>
  PROVE  IInv'
<1>1. TypeOK'
  BY EndType DEF IInv, TypeOK, disk, outside
<1>2. \A b \in Agents : run'[b].pc = "idle"
  BY RunEnds DEF IInv
<1>3. JournalKnows' /\ RecordedReleaseRuns'
  BY DEF IInv, JournalKnows, RecordedReleaseRuns, disk, outside
<1> QED
  BY <1>1, <1>2, <1>3, OfOneRun, IdleKnowsNext

-----------------------------------------------------------------------------
(* The steps that only read.                                                 *)

\* The next step relies on what this one has read, and on what it relied on.
LEMMA ReadingKeeps ==
  ASSUME IInv, NEW a \in Agents,
         \/ Begin(a) \/ Reconcile(a) \/ ConfirmRecovered(a) \/ ConfirmKept(a)
         \/ CheckKept(a) \/ Confirm(a) \/ UpReturns(a)
         \/ ConfirmRollback(a) \/ VerifyRollback(a)
  PROVE  IInv'
<1> USE DEF OnPrevious, Resolving, DeploySteps, ReconcileSteps, RollbackSteps
<1>1. RunKnows(a)
  BY DEF IInv
<1>2. CASE Begin(a)
  <2> DEFINE pc == IF journal.phase = "none" THEN "fetch" ELSE "reconcile"
  <2>1. Goto(a, pc) /\ LockIsFree /\ stateFile # None /\ UNCHANGED <<image, disk, outside>>
    BY <1>2 DEF Begin
  <2>2. run'[a].pc = pc
    BY <2>1, OnlyPcMoves DEF IInv
  <2>3. RunKnows(a)'
    BY <2>1, <2>2 DEF RunKnows, disk
  <2> QED
    BY <2>1, <2>3, MoveKeeps
<1>3. CASE Reconcile(a)
  <2>1. PICK pc \in {"recover_confirm", "keep_confirm"} :
          /\ Goto(a, pc) /\ journal.phase = "applying"
          /\ pc = "recover_confirm" => image = AllRun(journal.target)
          /\ pc = "keep_confirm" => image = AllRun(journal.previous)
          /\ run[a].pc = "reconcile" /\ UNCHANGED <<image, disk, outside>>
    BY <1>3 DEF Reconcile, MayReconcile
  <2>2. run'[a].pc = pc
    BY <2>1, OnlyPcMoves DEF IInv
  <2>3. RunKnows(a)'
    BY <2>1, <2>2 DEF RunKnows, disk, AllRun
  <2> QED
    BY <2>1, <2>3, MoveKeeps
<1>4. CASE ConfirmRecovered(a)
  <2>1. /\ Goto(a, "recover_record") /\ image = AllRun(journal.target)
        /\ run[a].pc = "recover_confirm" /\ UNCHANGED <<image, disk, outside>>
    BY <1>4 DEF ConfirmRecovered, IsHealthy
  <2>2. run'[a].pc = "recover_record"
    BY <2>1, OnlyPcMoves DEF IInv
  <2>3. RunKnows(a)'
    BY <1>1, <2>1, <2>2 DEF RunKnows, disk, AllRun
  <2> QED
    BY <2>1, <2>3, MoveKeeps
<1>5. CASE ConfirmKept(a)
  <2>1. /\ Goto(a, "keep_check") /\ IsHealthy(journal.previous)
        /\ run[a].pc = "keep_confirm" /\ UNCHANGED <<image, disk, outside>>
    BY <1>5 DEF ConfirmKept
  <2>2. run'[a].pc = "keep_check"
    BY <2>1, OnlyPcMoves DEF IInv
  <2>3. RunKnows(a)'
    BY <1>1, <2>1, <2>2 DEF RunKnows, disk, outside, AllRun, IsHealthy
  <2> QED
    BY <2>1, <2>3, MoveKeeps
<1>6. CASE CheckKept(a)
  <2>1. /\ Goto(a, "keep_discard") /\ schema = journal.schema
        /\ run[a].pc = "keep_check" /\ UNCHANGED <<image, disk, outside>>
    BY <1>6 DEF CheckKept
  <2>2. run'[a].pc = "keep_discard"
    BY <2>1, OnlyPcMoves DEF IInv
  <2>3. RunKnows(a)'
    BY <1>1, <2>1, <2>2 DEF RunKnows, disk, outside, AllRun
  <2> QED
    BY <2>1, <2>3, MoveKeeps
<1>7. CASE Confirm(a)
  <2>1. /\ Goto(a, "promote") /\ image = AllRun(journal.target)
        /\ run[a].pc = "confirm" /\ UNCHANGED <<image, disk, outside>>
    BY <1>7 DEF Confirm, IsHealthy
  <2>2. run'[a].pc = "promote"
    BY <2>1, OnlyPcMoves DEF IInv
  <2>3. RunKnows(a)'
    BY <1>1, <2>1, <2>2 DEF RunKnows, disk, outside, AllRun
  <2> QED
    BY <2>1, <2>3, MoveKeeps
<1>8. CASE UpReturns(a)
  <2> DEFINE pc == IF run[a].pc = "up" THEN "confirm" ELSE "rb_confirm"
  <2>1. /\ Goto(a, pc) /\ run[a].pc \in {"up", "rb_up"}
        /\ UNCHANGED <<image, disk, outside>>
    BY <1>8 DEF UpReturns
  <2>2. run'[a].pc = pc
    BY ZenonT(40), <2>1, OnlyPcMoves DEF IInv
  <2>3. RunKnows(a)'
    BY <1>1, <2>1, <2>2 DEF RunKnows, disk, outside, AllRun
  <2> QED
    BY <2>1, <2>3, MoveKeeps
<1>9. CASE ConfirmRollback(a)
  <2>1. /\ Goto(a, "rb_verify") /\ IsHealthy(journal.previous)
        /\ run[a].pc = "rb_confirm" /\ UNCHANGED <<image, disk, outside>>
    BY <1>9 DEF ConfirmRollback
  <2>2. run'[a].pc = "rb_verify"
    BY <2>1, OnlyPcMoves DEF IInv
  <2>3. RunKnows(a)'
    BY <1>1, <2>1, <2>2 DEF RunKnows, disk, outside, AllRun, IsHealthy
  <2> QED
    BY <2>1, <2>3, MoveKeeps
<1>10. CASE VerifyRollback(a)
  <2>1. /\ Goto(a, "rb_discard") /\ schema = journal.schema
        /\ run[a].pc = "rb_verify" /\ UNCHANGED <<image, disk, outside>>
    BY <1>10 DEF VerifyRollback, RollbackMayEnd
  <2>2. run'[a].pc = "rb_discard"
    BY <2>1, OnlyPcMoves DEF IInv
  <2>3. RunKnows(a)'
    BY <1>1, <2>1, <2>2 DEF RunKnows, disk, outside, AllRun
  <2> QED
    BY <2>1, <2>3, MoveKeeps
<1> QED
  BY <1>2, <1>3, <1>4, <1>5, <1>6, <1>7, <1>8, <1>9, <1>10

-----------------------------------------------------------------------------
(* The steps that write the record or the journal.                           *)

LEMMA InitializeKeeps ==
  ASSUME IInv, NEW a \in Agents, NEW c \in Commits, Initialize(a, c)
  PROVE  IInv'
<1>1. /\ LockIsFree /\ journal.phase = "none" /\ image = AllRun(c) /\ stateFile' = c
      /\ UNCHANGED <<image, journal, run, outside>>
  BY DEF Initialize, IsHealthy
<1>2. TypeOK'
  BY <1>1 DEF IInv, TypeOK, outside
<1>3. \A b \in Agents : run'[b].pc = "idle"
  BY <1>1 DEF LockIsFree
<1>4. JournalKnows' /\ RecordedReleaseRuns'
  BY <1>1 DEF JournalKnows, RecordedReleaseRuns, AllRun
<1> QED
  BY <1>2, <1>3, <1>4, OfOneRun, IdleKnowsNext

\* The record is written on the release that runs.
LEMMA RecordKeeps ==
  ASSUME IInv, NEW a \in Agents, RecordRecovered(a) \/ Promote(a)
  PROVE  IInv'
<1> USE DEF OnPrevious, Resolving, DeploySteps, ReconcileSteps, RollbackSteps
<1>1. PICK pc \in {"discard", "recover_discard"} :
        /\ Goto(a, pc) /\ run[a].pc \in {"recover_record", "promote"}
        /\ stateFile' = journal.target /\ UNCHANGED <<image, journal, outside>>
  BY DEF RecordRecovered, Promote
<1>2. journal.phase = "applying" /\ image = AllRun(journal.target)
  BY <1>1 DEF IInv, RunKnows
<1>3. journal.target \in Commits /\ journal.target # journal.previous
  BY <1>2 DEF IInv, JournalKnows, TypeOK, Journal, NoJournal
<1>4. TypeOK'
  BY <1>1, <1>3, GotoType DEF IInv, TypeOK, outside
<1>5. run'[a].pc = pc /\ \A b \in Agents \ {a} : run'[b].pc = "idle"
  BY <1>1, OnlyPcMoves DEF IInv
<1>6. RunKnows(a)'
  BY <1>1, <1>2, <1>5 DEF RunKnows, AllRun
<1>7. JournalKnows' /\ RecordedReleaseRuns'
  BY <1>1, <1>2, <1>3 DEF JournalKnows, RecordedReleaseRuns, AllRun
<1> QED
  BY <1>4, <1>5, <1>6, <1>7, OfOneRun

\* The intent is written on the release on record, which runs.
LEMMA WriteJournalKeeps ==
  ASSUME IInv, NEW a \in Agents, WriteJournal(a)
  PROVE  IInv'
<1> USE DEF OnPrevious, Resolving, DeploySteps, ReconcileSteps, RollbackSteps
<1> DEFINE r == [run[a] EXCEPT !.pc = "up", !.todo = Services]
<1>1. /\ run[a].pc = "pull"
      /\ journal' = [phase |-> "applying", target |-> run[a].target,
                 previous |-> stateFile, db |-> run[a].db, schema |-> schema]
      /\ run' = [run EXCEPT ![a] = r]
      /\ UNCHANGED <<image, stateFile, outside>>
  BY DEF WriteJournal, IInv, TypeOK
<1>2. /\ run[a] \in AgentRun /\ stateFile \in Commits /\ image = AllRun(stateFile)
      /\ run[a].target \in Commits \ {stateFile}
  BY <1>1 DEF IInv, RunKnows, TypeOK
<1>3. r \in AgentRun /\ r.pc = "up"
  BY <1>2 DEF AgentRun
<1>4. journal' \in Journal
  BY <1>1, <1>2 DEF Journal, AgentRun, IInv, TypeOK
<1>5. TypeOK'
  BY <1>1, <1>3, <1>4 DEF IInv, TypeOK, outside
<1>6. run'[a].pc = "up" /\ \A b \in Agents \ {a} : run'[b].pc = "idle"
  BY <1>1, <1>3 DEF IInv, TypeOK, OneRun
<1>7. RunKnows(a)'
  BY <1>1, <1>6 DEF RunKnows
<1>8. JournalKnows' /\ RecordedReleaseRuns'
  BY <1>1, <1>2 DEF JournalKnows, RecordedReleaseRuns, AllRun
<1> QED
  BY <1>5, <1>6, <1>7, <1>8, OfOneRun

\* A journal is removed only on the release on record: otherwise it is the
\* previous one that runs, so the target was never recorded.
LEMMA DiscardKnows ==
  ASSUME IInv, NEW a \in Agents, DiscardResolved(a) \/ Discard(a)
  PROVE  /\ journal.phase = "applying" /\ journal' = NoJournal
         /\ stateFile = journal.previous => image = AllRun(journal.previous)
                                            /\ schema = journal.schema
         /\ stateFile = journal.target /\ touched = 0 => image = AllRun(journal.target)
         /\ stateFile \in {journal.previous, journal.target}
<1> USE DEF OnPrevious, Resolving, DeploySteps, ReconcileSteps, RollbackSteps
<1>1. /\ run[a].pc \in {"recover_discard", "keep_discard", "discard", "rb_discard"}
      /\ journal' = NoJournal
  BY DEF DiscardResolved, Discard
<1>2. RunKnows(a) /\ JournalKnows
  BY DEF IInv
<1>3. journal.phase = "applying"
  BY <1>1, <1>2 DEF RunKnows
<1>4. stateFile = journal.previous =>
        image = AllRun(journal.previous) /\ schema = journal.schema
  BY <1>1, <1>2, <1>3 DEF RunKnows, JournalKnows
<1> QED
  BY <1>1, <1>2, <1>3, <1>4 DEF JournalKnows

LEMMA DiscardKeeps ==
  ASSUME IInv, NEW a \in Agents, DiscardResolved(a) \/ Discard(a)
  PROVE  IInv'
<1> USE DEF OnPrevious, Resolving, DeploySteps, ReconcileSteps, RollbackSteps
<1>1. UNCHANGED <<image, stateFile, outside>> /\ journal' = NoJournal
  BY DEF DiscardResolved, Discard
<1>2. JournalKnows' /\ RecordedReleaseRuns'
  <2>1. touched = 0 => image = AllRun(stateFile)
    BY DiscardKnows
  <2> QED
    BY <1>1, <2>1 DEF JournalKnows, RecordedReleaseRuns, NoJournal, AllRun, outside
<1>3. CASE DiscardResolved(a)
  <2>1. Goto(a, "fetch") /\ run[a].pc \in {"recover_discard", "keep_discard"}
    BY <1>3 DEF DiscardResolved
  <2>2. run'[a].pc = "fetch" /\ \A b \in Agents \ {a} : run'[b].pc = "idle"
    BY <2>1, OnlyPcMoves DEF IInv
  <2>3. TypeOK'
    BY <1>1, <2>1, GotoType, NoJournalType DEF IInv, TypeOK, outside
  <2>4. stateFile # None
    BY DiscardKnows, ReleaseAssumption DEF IInv, TypeOK, Journal, NoJournal
  <2>5. RunKnows(a)'
    BY <1>1, <2>2, <2>4 DEF RunKnows, NoJournal
  <2> QED
    BY <1>2, <2>2, <2>3, <2>5, OfOneRun
<1>4. CASE Discard(a)
  <2>1. End(a) /\ run[a].pc # "idle"
    BY <1>4 DEF Discard
  <2>2. \A b \in Agents : run'[b].pc = "idle"
    BY <2>1, RunEnds DEF IInv
  <2>3. TypeOK'
    BY <1>1, <2>1, EndType, NoJournalType DEF IInv, TypeOK, outside
  <2> QED
    BY <1>2, <2>2, <2>3, OfOneRun, IdleKnowsNext
<1> QED
  BY <1>3, <1>4

-----------------------------------------------------------------------------
(* The steps that change more of the run than where it is.                   *)

LEMMA RunKeeps ==
  ASSUME IInv, NEW a \in Agents, run[a].pc # "idle", NEW r \in AgentRun,
         run' = [run EXCEPT ![a] = r], RunKnows(a)',
         UNCHANGED <<image, disk, outside>>
  PROVE  IInv'
<1>1. TypeOK'
  BY DEF IInv, TypeOK, disk, outside
<1>2. \A b \in Agents \ {a} : run'[b].pc = "idle"
  BY DEF IInv, TypeOK, OneRun
<1>3. JournalKnows' /\ RecordedReleaseRuns'
  BY DEF IInv, JournalKnows, RecordedReleaseRuns, disk, outside
<1> QED
  BY <1>1, <1>2, <1>3, OfOneRun

LEMMA PreflightKeeps ==
  ASSUME IInv, NEW a \in Agents, Preflight(a)
  PROVE  IInv'
<1> USE DEF OnPrevious, Resolving, DeploySteps, ReconcileSteps, RollbackSteps
<1> DEFINE r == [pc |-> "pull", target |-> approved.commit, db |-> db, todo |-> {}]
<1>1. /\ run[a].pc = "fetch" /\ MayDeploy /\ run' = [run EXCEPT ![a] = r]
      /\ UNCHANGED <<image, disk, outside>>
  BY DEF Preflight
<1>2. approved.commit \in Commits \ {stateFile} /\ image = AllRun(stateFile)
  BY <1>1 DEF MayDeploy, IsHealthy, IInv, TypeOK, Approval
<1>3. r \in AgentRun
  BY <1>2 DEF IInv, TypeOK, AgentRun
<1>4. run'[a] = r
  BY <1>1 DEF IInv, TypeOK
<1>5. RunKnows(a)'
  BY <1>1, <1>2, <1>4 DEF IInv, RunKnows, disk, AllRun
<1> HIDE DEF r
<1> QED
  BY <1>1, <1>3, <1>5, RunKeeps

LEMMA StartRollbackKeeps ==
  ASSUME IInv, NEW a \in Agents, StartRollback(a)
  PROVE  IInv'
<1> USE DEF OnPrevious, Resolving, DeploySteps, ReconcileSteps, RollbackSteps
<1> DEFINE r == [run[a] EXCEPT !.pc = "rb_up", !.todo = Services]
<1>1. /\ run[a].pc = "rb_check" /\ run' = [run EXCEPT ![a] = r]
      /\ UNCHANGED <<image, disk, outside>>
  BY DEF StartRollback, IInv, TypeOK
<1>2. run[a] \in AgentRun
  BY DEF IInv, TypeOK
<1>3. r \in AgentRun /\ r.pc = "rb_up"
  BY <1>2 DEF AgentRun
<1>4. run'[a] = r
  BY <1>1 DEF IInv, TypeOK
<1>5. RunKnows(a)'
  BY <1>1, <1>3, <1>4 DEF IInv, RunKnows, disk
<1> HIDE DEF r
<1> QED
  BY <1>1, <1>3, <1>5, RunKeeps

\* A failure after the containers may have changed leads to the rollback, or
\* to the journal of a failed one; any other ends the run.
LEMMA StepFailsKeeps ==
  ASSUME IInv, NEW a \in Agents, StepFails(a)
  PROVE  IInv'
<1> USE DEF OnPrevious, Resolving, DeploySteps, ReconcileSteps, RollbackSteps
<1>1. run[a].pc # "idle" /\ UNCHANGED <<image, disk, outside>>
  BY DEF StepFails
<1>2. CASE OnFailure(run[a].pc) = "idle"
  BY <1>1, <1>2, EndKeeps DEF StepFails
<1>3. CASE OnFailure(run[a].pc) # "idle"
  <2> DEFINE r == [run[a] EXCEPT !.pc = OnFailure(@), !.todo = {}]
  <2>1. run' = [run EXCEPT ![a] = r]
    BY <1>3 DEF StepFails, IInv, TypeOK
  <2>2. run[a] \in AgentRun
    BY DEF IInv, TypeOK
  <2>3. /\ run[a].pc \in OnPrevious
        /\ OnFailure(run[a].pc) \in {"rb_check", "rb_fail"}
    BY <1>3 DEF OnFailure
  <2>4. r \in AgentRun /\ r.pc \in {"rb_check", "rb_fail"}
    BY <2>2, <2>3 DEF AgentRun
  <2>5. run'[a] = r
    BY <2>1 DEF IInv, TypeOK
  <2>6. RunKnows(a)'
    BY <1>1, <2>3, <2>4, <2>5 DEF IInv, RunKnows, disk
  <2> HIDE DEF r
  <2> QED
    BY <1>1, <2>1, <2>4, <2>6, RunKeeps
<1> QED
  BY <1>2, <1>3

\* A container is replaced only while the previous release is on record.
LEMMA ReplaceKeeps ==
  ASSUME IInv, NEW a \in Agents, NEW s \in Services, Replace(a, s)
  PROVE  IInv'
<1> USE DEF OnPrevious, Resolving, DeploySteps, ReconcileSteps, RollbackSteps
<1>1. run[a].pc \in {"up", "rb_up"} /\ UNCHANGED <<disk, outside>>
  BY DEF Replace
<1>2. journal.phase = "applying" /\ stateFile = journal.previous
  BY <1>1 DEF IInv, RunKnows
<1>3. journal.target \in Commits /\ journal.previous \in Commits
  BY <1>2 DEF IInv, TypeOK, Journal, NoJournal
<1>4. PICK c \in {journal.previous, journal.target, None} :
        image' = [image EXCEPT ![s] = c]
  BY DEF Replace
<1>5. run' = run \/ run' = [run EXCEPT ![a].todo = @ \ {s}]
  BY DEF Replace
<1>6. \A b \in Agents : run'[b].pc = run[b].pc
  BY <1>5 DEF IInv, TypeOK, AgentRun
<1>7. run' \in [Agents -> AgentRun]
  <2>1. [run[a] EXCEPT !.todo = @ \ {s}] \in AgentRun
    BY DEF IInv, TypeOK, AgentRun
  <2> QED
    BY <1>5, <2>1 DEF IInv, TypeOK
<1>8. TypeOK'
  BY <1>1, <1>3, <1>4, <1>7 DEF IInv, TypeOK, disk, outside
<1>9. \A b \in Agents \ {a} : run'[b].pc = "idle"
  BY <1>1, <1>6 DEF IInv, OneRun
<1>10. RunKnows(a)'
  BY <1>1, <1>2, <1>6 DEF RunKnows, disk
<1>11. JournalKnows'
  BY <1>1, <1>2, <1>4 DEF IInv, TypeOK, JournalKnows, disk, outside
<1>12. RecordedReleaseRuns'
  BY <1>1, <1>2 DEF RecordedReleaseRuns, disk
<1> QED
  BY <1>8, <1>9, <1>10, <1>11, <1>12, OfOneRun

LEMMA RecordFailureKeeps ==
  ASSUME IInv, NEW a \in Agents, RecordFailure(a)
  PROVE  IInv'
<1> USE DEF OnPrevious, Resolving, DeploySteps, ReconcileSteps, RollbackSteps
<1>1. /\ run[a].pc = "rb_fail" /\ End(a) /\ UNCHANGED <<image, stateFile, outside>>
      /\ journal' = [journal EXCEPT !.phase = "rollback-failed"]
  BY DEF RecordFailure
<1>2. journal.phase = "applying" /\ stateFile = journal.previous
  BY <1>1 DEF IInv, RunKnows
<1>3. journal' \in Journal /\ journal'.phase = "rollback-failed"
      /\ journal'.target = journal.target /\ journal'.previous = journal.previous
  BY <1>1, <1>2 DEF IInv, TypeOK, Journal, NoJournal
<1>4. TypeOK'
  BY <1>1, <1>3, EndType DEF IInv, TypeOK, outside
<1>5. \A b \in Agents : run'[b].pc = "idle"
  BY <1>1, RunEnds DEF IInv
<1>6. JournalKnows' /\ RecordedReleaseRuns'
  BY <1>1, <1>2, <1>3 DEF IInv, JournalKnows, RecordedReleaseRuns, outside
<1> QED
  BY <1>4, <1>5, <1>6, OfOneRun, IdleKnowsNext

-----------------------------------------------------------------------------
(* The world outside the agent.                                              *)

\* Where the ledger is compared with the journal's, the backend that runs is
\* the previous release's, with no migration left to write.
LEMMA MigrateKeeps ==
  ASSUME IInv, Migrate
  PROVE  IInv'
<1> USE DEF OnPrevious, Resolving, DeploySteps, ReconcileSteps, RollbackSteps
<1>1. PICK row \in Migrations[image[Backend]] \ schema : schema' = schema \cup {row}
  BY DEF Migrate
<1>2. image[Backend] # None /\ UNCHANGED <<image, db, approved, disk, run, touched>>
  BY DEF Migrate
<1>3. image[Backend] \in Commits
  BY <1>2, ReleaseAssumption DEF IInv, TypeOK
<1>4. row \in Rows
  BY <1>1, <1>3, ReleaseAssumption
<1>5. TypeOK'
  BY <1>1, <1>2, <1>4 DEF IInv, TypeOK, disk
<1>6. ASSUME NEW a \in Agents
      PROVE  RunKnows(a)'
  <2>1. run[a].pc \notin {"keep_discard", "rb_discard"}
    <3> SUFFICES ASSUME run[a].pc \in {"keep_discard", "rb_discard"}
                 PROVE  FALSE
      OBVIOUS
    <3>1. image = AllRun(journal.previous) /\ Migrations[journal.previous] \subseteq schema
      BY DEF IInv, RunKnows
    <3> QED
      BY <1>1, <3>1, ReleaseAssumption DEF AllRun
  <2>2. RunKnows(a)
    BY DEF IInv
  <2> QED
    BY <1>1, <1>2, <2>1, <2>2 DEF RunKnows, disk, AllRun
<1>7. OneRun' /\ JournalKnows' /\ RecordedReleaseRuns'
  BY <1>2 DEF IInv, OneRun, JournalKnows, RecordedReleaseRuns, disk, AllRun
<1> QED
  BY <1>5, <1>6, <1>7 DEF IInv

LEMMA WorldKeeps ==
  ASSUME IInv, World
  PROVE  IInv'
<1> USE DEF OnPrevious, Resolving, DeploySteps, ReconcileSteps, RollbackSteps
<1>1. ASSUME NEW c \in Commits, NEW p \in Commits, Approve(c, p)
      PROVE  IInv'
  <2>1. /\ UNCHANGED <<image, db, schema, disk, run, touched>>
        /\ approved' \in Approval
    BY <1>1 DEF Approve, Approval
  <2> QED
    BY <2>1 DEF IInv, TypeOK, OneRun, RunKnows, JournalKnows, RecordedReleaseRuns, disk, AllRun
<1>2. CASE ReplaceDatabase
  <2>1. /\ UNCHANGED <<image, schema, approved, disk, run, touched>>
        /\ db' \in 0 .. MaxReplaced
    BY <1>2, ReleaseAssumption DEF ReplaceDatabase, IInv, TypeOK
  <2> QED
    BY <2>1 DEF IInv, TypeOK, OneRun, RunKnows, JournalKnows, RecordedReleaseRuns, disk, AllRun
<1>3. ASSUME NEW s \in Services, NEW c \in Commits \cup {None}, Touch(s, c)
      PROVE  IInv'
  <2>1. /\ LockIsFree /\ UNCHANGED <<db, schema, approved, disk, run>>
        /\ touched' \in 0 .. MaxTouched /\ touched' # 0
        /\ image' = [image EXCEPT ![s] = c]
    BY <1>3, ReleaseAssumption DEF Touch, IInv, TypeOK
  <2>2. TypeOK'
    BY <2>1 DEF IInv, TypeOK, disk
  <2>3. \A b \in Agents : run'[b].pc = "idle"
    BY <2>1 DEF LockIsFree
  <2>4. OneRun' /\ JournalKnows' /\ RecordedReleaseRuns'
    BY <2>1, <2>3 DEF IInv, OneRun, JournalKnows, RecordedReleaseRuns, disk
  <2> QED
    BY <2>2, <2>3, <2>4, IdleKnowsNext DEF IInv
<1> QED
  BY <1>1, <1>2, <1>3, MigrateKeeps DEF World

-----------------------------------------------------------------------------
(* The invariant.                                                            *)

LEMMA InitInvariant == Init => IInv
<1> SUFFICES ASSUME Init PROVE IInv
  OBVIOUS
<1>1. PICK c \in Commits : image = AllRun(c) /\ schema = Migrations[c]
  BY DEF Init
<1>2. /\ db = 0 /\ approved = NothingApproved /\ stateFile = None
      /\ journal = NoJournal /\ run = [a \in Agents |-> Idle] /\ touched = 0
  BY DEF Init
<1>3. TypeOK
  BY <1>1, <1>2, IdleType, NoJournalType, ReleaseAssumption
     DEF TypeOK, AllRun, Approval, NothingApproved
<1>4. \A a \in Agents : run[a].pc = "idle"
  BY <1>2 DEF Idle
<1>5. OneRun /\ JournalKnows /\ RecordedReleaseRuns
  BY <1>2, <1>4 DEF OneRun, JournalKnows, RecordedReleaseRuns, NoJournal
<1> QED
  BY <1>3, <1>4, <1>5, IdleKnows DEF IInv

LEMMA AgentKeeps ==
  ASSUME IInv, NEW a \in Agents, Agent(a)
  PROVE  IInv'
<1>1. CASE \E c \in Commits : Initialize(a, c)
  BY <1>1, InitializeKeeps
<1>2. CASE Begin(a)
  BY <1>2, ReadingKeeps
<1>3. CASE Advance(a)
  <2>1. CASE \E s \in Services : Replace(a, s)
    BY <2>1, ReplaceKeeps
  <2>2. CASE NothingToDo(a)
    <3>1. End(a) /\ run[a].pc # "idle" /\ UNCHANGED <<image, disk, outside>>
      BY <2>2 DEF NothingToDo
    <3> QED
      BY <3>1, EndKeeps
  <2>3. CASE DiscardResolved(a) \/ Discard(a)
    BY <2>3, DiscardKeeps
  <2>4. CASE RecordRecovered(a) \/ Promote(a)
    BY <2>4, RecordKeeps
  <2> QED
    BY <1>3, <2>1, <2>2, <2>3, <2>4, ReadingKeeps, PreflightKeeps,
       WriteJournalKeeps, StartRollbackKeeps, RecordFailureKeeps DEF Advance
<1>4. CASE StepFails(a)
  BY <1>4, StepFailsKeeps
<1>5. CASE Crash(a)
  BY <1>5, EndKeeps DEF Crash
<1> QED
  BY <1>1, <1>2, <1>3, <1>4, <1>5 DEF Agent

LEMMA NextInvariant == IInv /\ [Next]_vars => IInv'
<1> SUFFICES ASSUME IInv, [Next]_vars PROVE IInv'
  OBVIOUS
<1>1. CASE UNCHANGED vars
  BY <1>1 DEF vars, IInv, TypeOK, OneRun, RunKnows, JournalKnows,
              RecordedReleaseRuns, AllRun
<1> QED
  BY <1>1, AgentKeeps, WorldKeeps DEF Next

\* What the agent and its journal know of the release on record, of the
\* containers and of the migration ledger holds at every step.
THEOREM Invariant == Spec => []IInv
<1> QED
  BY InitInvariant, NextInvariant, PTL DEF Spec

\* Every variable keeps its type.
THEOREM TypeCorrect == Spec => []TypeOK
<1>1. IInv => TypeOK
  BY DEF IInv
<1> QED
  BY <1>1, Invariant, PTL

\* Whenever no journal is open, both containers run the release on record.
THEOREM RecordedRuns == Spec => []RecordedReleaseRuns
<1>1. IInv => RecordedReleaseRuns
  BY DEF IInv
<1> QED
  BY <1>1, Invariant, PTL

-----------------------------------------------------------------------------
(* What a step may never do.                                                 *)

\* Only the steps that record a release and the installation write the state
\* file.
LEMMA RecordWriters ==
  ASSUME [Next]_vars, stateFile' # stateFile
  PROVE  \E a \in Agents :
           \/ RecordRecovered(a) \/ Promote(a)
           \/ \E c \in Commits : Initialize(a, c)
<1>1. \A a \in Agents : Agent(a) =>
        \/ RecordRecovered(a) \/ Promote(a)
        \/ \E c \in Commits : Initialize(a, c)
  BY DEF Agent, Advance, disk, Begin, Reconcile, ConfirmRecovered, ConfirmKept,
         CheckKept, DiscardResolved, NothingToDo, Preflight, WriteJournal,
         Replace, UpReturns, Confirm, Discard, StartRollback, ConfirmRollback,
         VerifyRollback, RecordFailure, StepFails, Crash
<1>2. ~ World
  BY DEF World, disk, Approve, Migrate, ReplaceDatabase, Touch
<1> QED
  BY <1>1, <1>2 DEF Next, vars

\* Only these steps write the journal.
LEMMA JournalWriters ==
  ASSUME [Next]_vars, journal' # journal
  PROVE  \E a \in Agents :
           WriteJournal(a) \/ DiscardResolved(a) \/ Discard(a) \/ RecordFailure(a)
<1>1. \A a \in Agents : Agent(a) =>
        WriteJournal(a) \/ DiscardResolved(a) \/ Discard(a) \/ RecordFailure(a)
  BY DEF Agent, Advance, disk, Initialize, Begin, Reconcile, ConfirmRecovered,
         RecordRecovered, ConfirmKept, CheckKept, NothingToDo, Preflight,
         Replace, UpReturns, Confirm, Promote, StartRollback, ConfirmRollback,
         VerifyRollback, StepFails, Crash
<1>2. ~ World
  BY DEF World, disk, Approve, Migrate, ReplaceDatabase, Touch
<1> QED
  BY <1>1, <1>2 DEF Next, vars

\* A deploy given up without the operator leaves the ledger of the release it
\* goes back to, whenever the new backend may have migrated.
THEOREM OldReleaseKeepsItsSchema == Spec => OldReleaseOnItsSchema
<1> DEFINE A == journal.phase = "applying" /\ journal'.phase = "none"
                /\ stateFile = journal.previous => schema = journal.schema
<1>1. IInv /\ [Next]_vars => [A]_vars
  <2> SUFFICES ASSUME IInv, [Next]_vars, journal.phase = "applying",
                      journal'.phase = "none", stateFile = journal.previous
               PROVE  schema = journal.schema
    OBVIOUS
  <2>1. PICK a \in Agents :
          WriteJournal(a) \/ DiscardResolved(a) \/ Discard(a) \/ RecordFailure(a)
    BY JournalWriters
  <2>2. ~ WriteJournal(a) /\ ~ RecordFailure(a)
    BY DEF WriteJournal, RecordFailure, IInv, TypeOK, Journal, NoJournal
  <2> QED
    BY <2>1, <2>2, DiscardKnows
<1> QED
  BY <1>1, Invariant, PTL DEF Spec, OldReleaseOnItsSchema

\* The record only advances along a journal, and onto the release that runs.
THEOREM RecordFollows == Spec => RecordFollowsJournal
<1> DEFINE A == stateFile # None /\ stateFile' # stateFile =>
                  /\ journal.phase = "applying" /\ journal.previous = stateFile
                  /\ stateFile' = journal.target
                  /\ image = AllRun(journal.target)
<1>1. IInv /\ [Next]_vars => [A]_vars
  <2> SUFFICES ASSUME IInv, [Next]_vars, stateFile # None, stateFile' # stateFile
               PROVE  A
    OBVIOUS
  <2>1. PICK a \in Agents : RecordRecovered(a) \/ Promote(a)
    BY RecordWriters DEF Initialize
  <2>2. stateFile' = journal.target /\ run[a].pc \in {"recover_record", "promote"}
    BY <2>1 DEF RecordRecovered, Promote
  <2>3. journal.phase = "applying" /\ image = AllRun(journal.target)
    BY <2>2 DEF IInv, RunKnows, OnPrevious, Resolving, ReconcileSteps
  <2>4. journal.previous = stateFile
    BY <2>2, <2>3 DEF IInv, JournalKnows
  <2> QED
    BY <2>2, <2>3, <2>4
<1> QED
  BY <1>1, Invariant, PTL DEF Spec, RecordFollowsJournal

\* A deploy opens on containers that run the release on record.
THEOREM DeploysOnRecord == Spec => DeploysOnRecordedRelease
<1> DEFINE A == journal.phase = "none" /\ journal'.phase = "applying" =>
                  image = AllRun(stateFile)
<1>1. IInv /\ [Next]_vars => [A]_vars
  <2> SUFFICES ASSUME IInv, [Next]_vars,
                      journal.phase = "none", journal'.phase = "applying"
               PROVE  image = AllRun(stateFile)
    OBVIOUS
  <2>1. PICK a \in Agents :
          WriteJournal(a) \/ DiscardResolved(a) \/ Discard(a) \/ RecordFailure(a)
    BY JournalWriters
  <2>2. ~ RecordFailure(a) /\ ~ DiscardResolved(a) /\ ~ Discard(a)
    BY DEF DiscardResolved, Discard, RecordFailure, IInv, TypeOK, Journal, NoJournal
  <2>3. run[a].pc = "pull"
    BY <2>1, <2>2 DEF WriteJournal
  <2> QED
    BY <2>3 DEF IInv, RunKnows
<1> QED
  BY <1>1, Invariant, PTL DEF Spec, DeploysOnRecordedRelease

-----------------------------------------------------------------------------
(* The agent implements the abstract switch.                                 *)

\* A step of a run is a step of the switch, or leaves it as it is.
LEMMA AgentSwitches ==
  ASSUME IInv, NEW a \in Agents, Agent(a)
  PROVE  [Switch!Next]_(Switch!vars)
<1> USE DEF OnPrevious, Resolving, DeploySteps, ReconcileSteps, RollbackSteps
<1> DEFINE Same == UNCHANGED <<image, stateFile, journal, touched>>
<1>0. RunKnows(a) /\ JournalKnows /\ TypeOK
  BY DEF IInv
<1>0a. UNCHANGED touched
  BY DEF Agent, outside, Initialize, Begin, Advance, Reconcile, ConfirmRecovered,
     RecordRecovered, ConfirmKept, CheckKept, DiscardResolved, NothingToDo,
     Preflight, WriteJournal, Replace, UpReturns, Confirm, Promote, Discard,
     StartRollback, ConfirmRollback, VerifyRollback, RecordFailure, StepFails, Crash
<1>1. CASE Same
  BY <1>1 DEF Switch!vars, SwitchMode
<1>2. CASE \E c \in Commits : Initialize(a, c)
  <2>1. PICK c \in Commits : Initialize(a, c)
    BY <1>2
  <2>2. Switch!Adopt(c)
    BY <2>1, <1>0a DEF Initialize, IsHealthy, Switch!Adopt, Switch!AllRun, AllRun, SwitchMode
  <2> QED
    BY <2>2 DEF Switch!Next
<1>3. CASE WriteJournal(a)
  <2>1. /\ run[a].pc = "pull" /\ journal' = [phase |-> "applying",
              target |-> run[a].target, previous |-> stateFile,
              db |-> run[a].db, schema |-> schema]
        /\ UNCHANGED <<image, stateFile>>
    BY <1>3 DEF WriteJournal
  <2>2. journal.phase = "none" /\ stateFile # None /\ image = AllRun(stateFile)
        /\ run[a].target \in Commits \ {stateFile}
    BY <1>0, <2>1 DEF RunKnows
  <2>3. SwitchMode = "steady" /\ SwitchMode' = "switching"
        /\ journal'.target = run[a].target
    BY <2>1, <2>2 DEF SwitchMode
  <2>4. Switch!Open(run[a].target)
    BY <2>1, <2>2, <2>3, <1>0a DEF Switch!Open, Switch!AllRun, AllRun
  <2> QED
    BY <2>2, <2>4 DEF Switch!Next
<1>4. CASE \E s \in Services : Replace(a, s)
  <2>1. PICK s \in Services : Replace(a, s)
    BY <1>4
  <2>2. run[a].pc \in {"up", "rb_up"} /\ UNCHANGED <<stateFile, journal>>
    BY <2>1 DEF Replace, disk
  <2>3. journal.phase = "applying" /\ stateFile = journal.previous
        /\ journal.target # journal.previous
    BY <1>0, <2>2 DEF RunKnows, JournalKnows
  <2>4. \E c \in {stateFile, journal.target, None} : image' = [image EXCEPT ![s] = c]
    BY <2>1, <2>3 DEF Replace
  <2>5. Switch!Move(s)
    BY <2>2, <2>3, <2>4, <1>0a DEF Switch!Move, SwitchMode
  <2> QED
    BY <2>5 DEF Switch!Next
<1>5. CASE RecordRecovered(a) \/ Promote(a)
  <2>1. /\ run[a].pc \in {"recover_record", "promote"}
        /\ stateFile' = journal.target /\ UNCHANGED <<image, journal>>
    BY <1>5 DEF RecordRecovered, Promote
  <2>2. journal.phase = "applying" /\ image = AllRun(journal.target)
    BY <1>0, <2>1 DEF RunKnows
  <2>3. Switch!Record
    BY <2>1, <2>2, <1>0a DEF Switch!Record, Switch!AllRun, AllRun, SwitchMode
  <2> QED
    BY <2>3 DEF Switch!Next
<1>6. CASE DiscardResolved(a) \/ Discard(a)
  <2>1. journal.phase = "applying" /\ journal' = NoJournal
        /\ (touched = 0 => image = AllRun(stateFile))
    BY <1>6, DiscardKnows
  <2>2. UNCHANGED <<image, stateFile>>
    BY <1>6 DEF DiscardResolved, Discard
  <2>3. SwitchMode = "switching" /\ SwitchMode' = "steady" /\ journal'.target = None
    BY <2>1 DEF SwitchMode, NoJournal
  <2>4. Switch!Close
    BY <2>1, <2>2, <2>3, <1>0a DEF Switch!Close, Switch!AllRun, AllRun
  <2> QED
    BY <2>4 DEF Switch!Next
<1>7. CASE RecordFailure(a)
  <2>1. /\ run[a].pc = "rb_fail" /\ UNCHANGED <<image, stateFile>>
        /\ journal' = [journal EXCEPT !.phase = "rollback-failed"]
    BY <1>7 DEF RecordFailure
  <2>2. journal.phase = "applying" /\ stateFile = journal.previous
        /\ journal.target # journal.previous
    BY <1>0, <2>1 DEF RunKnows, JournalKnows
  <2>3. journal'.phase = "rollback-failed" /\ journal'.target = journal.target
    BY <1>0, <2>1, <2>2 DEF TypeOK, Journal, NoJournal
  <2>4. Switch!Halt
    BY <2>1, <2>2, <2>3, <1>0a DEF Switch!Halt, SwitchMode
  <2> QED
    BY <2>4 DEF Switch!Next
<1> HIDE DEF Same
<1>8. CASE Advance(a)
  <2>1. CASE Reconcile(a) \/ ConfirmRecovered(a) \/ ConfirmKept(a) \/ CheckKept(a)
             \/ NothingToDo(a) \/ Preflight(a) \/ UpReturns(a) \/ Confirm(a)
             \/ StartRollback(a) \/ ConfirmRollback(a) \/ VerifyRollback(a)
    <3>1. Same
      BY <2>1, <1>0a DEF Same, disk, Reconcile, ConfirmRecovered, ConfirmKept, CheckKept,
         NothingToDo, Preflight, UpReturns, Confirm, StartRollback,
         ConfirmRollback, VerifyRollback
    <3> QED
      BY <1>1, <3>1
  <2> QED
    BY <1>3, <1>4, <1>5, <1>6, <1>7, <1>8, <2>1 DEF Advance
<1>9. CASE Begin(a) \/ StepFails(a) \/ Crash(a)
  <2>1. Same
    BY <1>9, <1>0a DEF Same, disk, Begin, StepFails, Crash
  <2> QED
    BY <1>1, <2>1
<1> QED
  BY <1>2, <1>8, <1>9 DEF Agent

\* What the world does is a disturbance of the switch, or leaves it as it is.
LEMMA WorldDisturbs ==
  ASSUME World
  PROVE  [Switch!Next]_(Switch!vars)
<1>1. CASE \E s \in Services, c \in Commits \cup {None} : Touch(s, c)
  <2>1. PICK s \in Services, c \in Commits \cup {None} : Touch(s, c)
    BY <1>1
  <2>2. Switch!Disturb(s, c)
    BY <2>1 DEF Touch, disk, Switch!Disturb, SwitchMode
  <2> QED
    BY <2>2 DEF Switch!Next
<1>2. CASE Migrate \/ ReplaceDatabase \/ \E c, p \in Commits : Approve(c, p)
  <2>1. UNCHANGED <<image, stateFile, journal, touched>>
    BY <1>2 DEF disk, Approve, Migrate, ReplaceDatabase
  <2> QED
    BY <2>1 DEF Switch!vars, SwitchMode
<1> QED
  BY <1>1, <1>2 DEF World

\* Whatever somebody else does to the containers, the agent only ever does what
\* the abstract switch of releases allows (deploy, reconcile, rollback).
THEOREM Implements == Spec => SwitchesReleases
<1>1. Init => Switch!Init
  BY DEF Init, Switch!Init, SwitchMode, NoJournal, AllRun, Switch!AllRun
<1>2. IInv /\ [Next]_vars => [Switch!Next]_(Switch!vars)
  <2>1. UNCHANGED vars => UNCHANGED Switch!vars
    BY DEF vars, Switch!vars, SwitchMode
  <2> QED
    BY <2>1, AgentSwitches, WorldDisturbs DEF Next
<1> QED
  BY <1>1, <1>2, Invariant, PTL DEF Spec, SwitchesReleases, Switch!Spec
=============================================================================
