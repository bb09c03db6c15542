-------------------------- MODULE StackStore_proofs --------------------------
(***************************************************************************)
(* StoreInv is an inductive invariant of StackStore, for every set of      *)
(* requests, stacks and operations and any number of crashes.  It is       *)
(* proved in two halves: LockInv, that the lock of a stack is held by the  *)
(* requests inside an operation on it and by at most one, which needs      *)
(* nothing else; and FilesInv, what saves, failures, crashes and deletes   *)
(* leave on disk, which needs LockInv.  What a command is told, what the   *)
(* owner of a stack may rely on, and that the store uses the lock as       *)
(* StackMutex prescribes, follow.  Each half has one lemma for each        *)
(* action, with one step for each of its parts.                            *)
(***************************************************************************)
EXTENDS StackStore, TLAPS

USE KindsAssumption, MaxCrashesAssumption, ContentsAssumption
    DEF disk, locals, Goto, Answer, Return

\* What the operators of the model return.
LEMMA EffectType == ASSUME NEW c \in Commands, NEW p \in Projects
                    PROVE  Effect(c, p) \subseteq Projects
BY DEF Effect, Commands, RunKinds, Projects

LEMMA FirstCmdType == \A k \in AllKinds : FirstCmd(k) \in Commands
BY DEF FirstCmd, AllKinds, Commands, SaveKinds, DeployKinds, RunKinds

LEMMA FirstPcType == \A k \in AllKinds : FirstPc(k) \in {"stat", "lock"}
BY DEF FirstPc, AllKinds, Commands, SaveKinds, DeployKinds, RunKinds

\* SaveStack: no step of it is inside an operation on the stack.
LEMMA StatDirStep ==
    ASSUME NEW r \in Requests, LockInv, StatDir(r) PROVE LockInv'
<1> USE DEF LockInv, StatDir, Adding
<1>1. TypeOK' BY DEF TypeOK, Pcs, SavePcs, Answers
<1>2. LockHeldInside'
  BY DEF TypeOK, LockHeldInside, OneUser, OwnedPcs, SavePcs
<1>3. OneUser' BY DEF TypeOK, OneUser
<1>4. QED BY <1>1, <1>2, <1>3

LEMMA MkdirAllStep ==
    ASSUME NEW r \in Requests, LockInv, MkdirAll(r) PROVE LockInv'
<1> USE DEF LockInv, MkdirAll
<1>1. TypeOK' BY DEF TypeOK, Pcs, SavePcs
<1>2. LockHeldInside'
  BY DEF TypeOK, LockHeldInside, OneUser, OwnedPcs, SavePcs
<1>3. OneUser' BY DEF TypeOK, OneUser
<1>4. QED BY <1>1, <1>2, <1>3

LEMMA SaveFailsStep ==
    ASSUME NEW r \in Requests, LockInv, SaveFails(r) PROVE LockInv'
<1> USE DEF LockInv, SaveFails
<1>1. TypeOK' BY DEF TypeOK, Pcs, Answers
<1>2. LockHeldInside'
  BY DEF TypeOK, LockHeldInside, OneUser, OwnedPcs, SavePcs
<1>3. OneUser' BY DEF TypeOK, OneUser
<1>4. QED BY <1>1, <1>2, <1>3

LEMMA WriteTempStep ==
    ASSUME NEW r \in Requests, NEW f \in FileNames, LockInv, WriteTemp(r, f) PROVE LockInv'
<1> USE DEF LockInv, WriteTemp, WritePc, RenamePc
<1>1. TypeOK' BY DEF TypeOK, Pcs, SavePcs
<1>2. LockHeldInside'
  BY DEF TypeOK, LockHeldInside, OneUser, OwnedPcs, SavePcs
<1>3. OneUser' BY DEF TypeOK, OneUser
<1>4. QED BY <1>1, <1>2, <1>3

LEMMA RenameTempStep ==
    ASSUME NEW r \in Requests, NEW f \in FileNames, LockInv, RenameTemp(r, f) PROVE LockInv'
<1> USE DEF LockInv, RenameTemp, RenamePc
<1>1. TypeOK' BY DEF TypeOK, Pcs, SavePcs, Answers, Contents
<1>2. LockHeldInside'
  BY DEF TypeOK, LockHeldInside, OneUser, OwnedPcs, SavePcs
<1>3. OneUser' BY DEF TypeOK, OneUser
<1>4. QED BY <1>1, <1>2, <1>3

\* A grant: the first request inside.  A refusal: nobody enters.
LEMMA TryLockStep ==
    ASSUME NEW r \in Requests, LockInv, TryLock(r) PROVE LockInv'
<1> USE DEF LockInv, TryLock
<1>1. CASE users[stack[r]] = {}
  <2>1. /\ users' = [users EXCEPT ![stack[r]] = {r}]
        /\ pc[r] = "lock"
        /\ pc' = [pc EXCEPT ![r] = IF kind[r] = "delete" THEN "del_stat" ELSE "args"]
        /\ res' = res
    BY <1>1
  <2>2. TypeOK' BY <2>1 DEF TypeOK, Pcs, OwnedPcs
  <2>3. LockHeldInside'
    BY <1>1, <2>1 DEF TypeOK, LockHeldInside, OwnedPcs
  <2>4. OneUser' BY <2>1 DEF TypeOK, OneUser
  <2>5. QED BY <2>2, <2>3, <2>4
<1>2. CASE users[stack[r]] # {}
  <2>1. users' = users /\ pc[r] = "lock" /\ pc' = [pc EXCEPT ![r] = "done"]
        /\ res' = [res EXCEPT ![r] = "busy"]
    BY <1>2
  <2>2. TypeOK' BY <2>1 DEF TypeOK, Pcs, Answers
  <2>3. LockHeldInside'
    BY <2>1 DEF TypeOK, LockHeldInside, OwnedPcs
  <2>4. OneUser' BY <2>1 DEF TypeOK, OneUser
  <2>5. QED BY <2>2, <2>3, <2>4
<1>3. QED BY <1>1, <1>2

\* Inside the operation: from one owned position to another.
LEMMA ComposeArgsStep ==
    ASSUME NEW r \in Requests, LockInv, ComposeArgs(r) PROVE LockInv'
<1> USE DEF LockInv, ComposeArgs
<1>1. TypeOK' BY DEF TypeOK, Pcs, OwnedPcs
<1>2. LockHeldInside'
  BY DEF TypeOK, LockHeldInside, OneUser, OwnedPcs, SavePcs
<1>3. OneUser' BY DEF TypeOK, OneUser
<1>4. QED BY <1>1, <1>2, <1>3

LEMMA SpawnStep ==
    ASSUME NEW r \in Requests, LockInv, Spawn(r) PROVE LockInv'
<1> USE DEF LockInv, Spawn, AfterCommand
<1>1. TypeOK'
  <2>1. pc' \in [Requests -> Pcs] BY DEF TypeOK, Pcs, SavePcs, OwnedPcs
  <2>2. res' \in [Requests -> Answers] BY DEF TypeOK, Answers
  <2>3. QED BY <2>1, <2>2 DEF TypeOK
<1>2. LockHeldInside'
  BY DEF TypeOK, LockHeldInside, OneUser, OwnedPcs, SavePcs
<1>3. OneUser' BY DEF TypeOK, OneUser
<1>4. QED BY <1>1, <1>2, <1>3

LEMMA CommandEndsStep ==
    ASSUME NEW r \in Requests, NEW b \in BOOLEAN, LockInv, CommandEnds(r, b) PROVE LockInv'
<1> USE DEF LockInv, CommandEnds, AfterCommand
<1>1. TypeOK'
  <2>0. \/ pc' = [pc EXCEPT ![r] = "del_scan"]
        \/ pc' = [pc EXCEPT ![r] = "ls"]
        \/ pc' = [pc EXCEPT ![r] = "unlock"]
    BY Zenon
  <2>1. pc' \in [Requests -> Pcs] BY <2>0 DEF TypeOK, Pcs, OwnedPcs
  <2>2. res' \in [Requests -> Answers] BY DEF TypeOK, Answers
  <2>3. docker' \in [Stacks -> Projects] BY EffectType DEF TypeOK
  <2>4. QED BY <2>1, <2>2, <2>3 DEF TypeOK
<1>2. LockHeldInside'
  BY DEF TypeOK, LockHeldInside, OneUser, OwnedPcs, SavePcs
<1>3. OneUser' BY DEF TypeOK, OneUser
<1>4. QED BY <1>1, <1>2, <1>3

LEMMA ListProjectsStep ==
    ASSUME NEW r \in Requests, NEW b \in BOOLEAN, LockInv, ListProjects(r, b) PROVE LockInv'
<1> USE DEF LockInv, ListProjects
<1>1. TypeOK'
  <2>0. \/ pc' = [pc EXCEPT ![r] = "args"]
        \/ pc' = [pc EXCEPT ![r] = "unlock"]
    BY Zenon
  <2>1. pc' \in [Requests -> Pcs] BY <2>0 DEF TypeOK, Pcs, OwnedPcs
  <2>2. res' \in [Requests -> Answers] BY DEF TypeOK, Answers
  <2>3. cmd' \in [Requests -> Commands] BY DEF TypeOK, Commands, RunKinds
  <2>4. QED BY <2>1, <2>2, <2>3 DEF TypeOK
<1>2. LockHeldInside'
  BY DEF TypeOK, LockHeldInside, OneUser, OwnedPcs, SavePcs
<1>3. OneUser' BY DEF TypeOK, OneUser
<1>4. QED BY <1>1, <1>2, <1>3

LEMMA StatForDeleteStep ==
    ASSUME NEW r \in Requests, LockInv, StatForDelete(r) PROVE LockInv'
<1> USE DEF LockInv, StatForDelete
<1>1. TypeOK' BY DEF TypeOK, Pcs, OwnedPcs
<1>2. LockHeldInside'
  BY DEF TypeOK, LockHeldInside, OneUser, OwnedPcs, SavePcs
<1>3. OneUser' BY DEF TypeOK, OneUser
<1>4. QED BY <1>1, <1>2, <1>3

LEMMA ScanDirStep ==
    ASSUME NEW r \in Requests, LockInv, ScanDir(r) PROVE LockInv'
<1> USE DEF LockInv, ScanDir, DirEntries
<1>1. TypeOK'
  <2>1. pc' \in [Requests -> Pcs] BY DEF TypeOK, Pcs, SavePcs, OwnedPcs
  <2>2. res' \in [Requests -> Answers] BY DEF TypeOK, Answers
  <2>3. DirEntries(stack[r]) \subseteq Entries BY DEF TypeOK, Entries
  <2>4. todo' \in [Requests -> SUBSET Entries] BY <2>3 DEF TypeOK
  <2>5. QED BY <2>1, <2>2, <2>4 DEF TypeOK
<1>2. LockHeldInside'
  BY DEF TypeOK, LockHeldInside, OneUser, OwnedPcs, SavePcs
<1>3. OneUser' BY DEF TypeOK, OneUser
<1>4. QED BY <1>1, <1>2, <1>3

LEMMA RemoveDirStep ==
    ASSUME NEW r \in Requests, LockInv, RemoveDir(r) PROVE LockInv'
<1> USE DEF LockInv, RemoveDir
<1>1. TypeOK' BY DEF TypeOK, Pcs, OwnedPcs, Answers
<1>2. LockHeldInside'
  BY DEF TypeOK, LockHeldInside, OneUser, OwnedPcs, SavePcs
<1>3. OneUser' BY DEF TypeOK, OneUser
<1>4. QED BY <1>1, <1>2, <1>3

LEMMA RemoveEntryStep ==
    ASSUME NEW r \in Requests, NEW e \in todo[r], LockInv, RemoveEntry(r, e) PROVE LockInv'
<1> USE DEF LockInv, RemoveEntry
<1>1. TypeOK' BY DEF TypeOK, Entries, Contents
<1>2. LockHeldInside'
  BY DEF TypeOK, LockHeldInside, OneUser, OwnedPcs, SavePcs
<1>3. OneUser' BY DEF TypeOK, OneUser
<1>4. QED BY <1>1, <1>2, <1>3

\* The owner leaves.
LEMMA UnlockStep ==
    ASSUME NEW r \in Requests, LockInv, Unlock(r) PROVE LockInv'
<1> USE DEF LockInv, Unlock
<1>1. TypeOK' BY DEF TypeOK, Pcs
<1>2. LockHeldInside'
  BY DEF TypeOK, LockHeldInside, OneUser, OwnedPcs, SavePcs
<1>3. OneUser' BY DEF TypeOK, OneUser
<1>4. QED BY <1>1, <1>2, <1>3

LEMMA StartStep ==
    ASSUME NEW r \in Requests, NEW k \in Kinds, NEW s \in Stacks, LockInv,
           Start(r, k, s)
    PROVE  LockInv'
<1> USE DEF LockInv, Start
<1>0. FirstPc(k) \in {"stat", "lock"} /\ FirstCmd(k) \in Commands
  BY FirstPcType, FirstCmdType
<1>1. TypeOK' BY <1>0 DEF TypeOK, Pcs, SavePcs
<1>2. LockHeldInside' BY <1>0 DEF TypeOK, LockHeldInside, OneUser, OwnedPcs
<1>3. OneUser' BY DEF OneUser
<1>4. QED BY <1>1, <1>2, <1>3

LEMMA SetGlobalEnvStep == LockInv /\ SetGlobalEnv => LockInv'
BY DEF LockInv, SetGlobalEnv, TypeOK, LockHeldInside, OneUser

LEMMA ProjectMovesStep ==
    ASSUME NEW s \in Stacks, LockInv, ProjectMoves(s) PROVE LockInv'
<1> USE DEF LockInv, ProjectMoves
<1>1. TypeOK' BY DEF TypeOK, Projects
<1>2. LockHeldInside' BY DEF LockHeldInside
<1>3. OneUser' BY DEF OneUser
<1>4. QED BY <1>1, <1>2, <1>3

\* A crash empties the lock table and ends every operation in flight.
LEMMA CrashStep == LockInv /\ Crash => LockInv'
<1> SUFFICES ASSUME LockInv, Crash PROVE LockInv'
  OBVIOUS
<1> USE DEF LockInv, Crash
<1>1. TypeOK'
  <2>1. pc' \in [Requests -> Pcs] BY DEF TypeOK, Pcs
  <2>2. res' \in [Requests -> Answers] BY DEF TypeOK, Answers
  <2>3. users' \in [Stacks -> SUBSET Requests] OBVIOUS
  <2>4. crashes' \in 0..MaxCrashes BY DEF TypeOK
  <2>5. QED BY <2>1, <2>2, <2>3, <2>4 DEF TypeOK
<1>2. LockHeldInside'
  BY DEF TypeOK, LockHeldInside, OwnedPcs
<1>3. OneUser' BY DEF OneUser
<1>4. QED BY <1>1, <1>2, <1>3

LEMMA InitInv == Init => LockInv
<1> SUFFICES ASSUME Init PROVE LockInv
  OBVIOUS
<1> USE DEF Init
<1>1. TypeOK
  <2>1. file \in [Stacks -> [FileNames -> Contents]]
    BY DEF NoFiles, Contents
  <2>2. kind \in [Requests -> AllKinds] /\ stack \in [Requests -> Stacks]
    BY DEF AllKinds, RunKinds
  <2>3. pc \in [Requests -> Pcs] BY DEF Pcs
  <2>4. cmd \in [Requests -> Commands] /\ res \in [Requests -> Answers]
    BY DEF Commands, Answers
  <2>5. todo \in [Requests -> SUBSET Entries] OBVIOUS
  <2>6. tmp \in [Stacks -> SUBSET (Requests \X FileNames)] OBVIOUS
  <2>7. users \in [Stacks -> SUBSET Requests] OBVIOUS
  <2>8. crashes \in 0..MaxCrashes /\ envFlag \in [Requests -> BOOLEAN]
    OBVIOUS
  <2>9. QED BY <2>1, <2>2, <2>3, <2>4, <2>5, <2>6, <2>7, <2>8 DEF TypeOK
<1>2. LockHeldInside BY DEF LockHeldInside, OwnedPcs
<1>3. OneUser BY DEF OneUser
<1>4. QED BY <1>1, <1>2, <1>3 DEF LockInv

LEMMA NextInv == LockInv /\ [Next]_vars => LockInv'
<1> SUFFICES ASSUME LockInv, [Next]_vars PROVE LockInv'
  OBVIOUS
<1>1. CASE UNCHANGED vars
  BY <1>1 DEF vars, LockInv, TypeOK, LockHeldInside, OneUser
<1>2. ASSUME NEW r \in Requests, Step(r) PROVE LockInv'
  BY <1>2, StatDirStep, MkdirAllStep, SaveFailsStep, WriteTempStep,
     RenameTempStep, TryLockStep, ComposeArgsStep, SpawnStep, CommandEndsStep,
     ListProjectsStep, StatForDeleteStep, ScanDirStep, RemoveDirStep,
     RemoveEntryStep, UnlockStep
  DEF Step
<1>3. ASSUME NEW r \in Requests, NEW k \in Kinds, NEW s \in Stacks,
             Start(r, k, s)
      PROVE  LockInv'
  BY <1>3, StartStep
<1>4. CASE SetGlobalEnv BY <1>4, SetGlobalEnvStep
<1>5. ASSUME NEW s \in Stacks, ProjectMoves(s) PROVE LockInv'
  BY <1>5, ProjectMovesStep
<1>6. CASE Crash BY <1>6, CrashStep
<1>7. QED BY <1>1, <1>2, <1>3, <1>4, <1>5, <1>6 DEF Next

\* The lock of a stack is held exactly by the request inside an operation on
\* it, and by at most one (stack_store.go:516-519, 567-570, 598-601;
\* bridge.go:45-48).
THEOREM LockInvariant == Spec => []LockInv
BY InitInv, NextInv, PTL DEF Spec

\* Two requests are never inside operations on one stack, whatever saves run
\* beside them and however often the agent crashes.
THEOREM OperationsExclude == Spec => []OneOperation
<1>1. LockInv => OneOperation
  BY DEF LockInv, TypeOK, LockHeldInside, OneUser, OneOperation
<1>2. QED BY LockInvariant, <1>1, PTL

-----------------------------------------------------------------------------
(* The arguments of a compose command. *)

\* Only the owner of a stack removes its .env, and the owner that has built
\* its arguments is not deleting.
LEMMA FlaggedStep ==
    ASSUME LockInv, FlaggedEnvExists, [Next]_vars PROVE FlaggedEnvExists'
<1> SUFFICES ASSUME NEW r \in Requests, (pc[r] = "spawn" /\ envFlag[r])',
                    (file[stack[r]]["env"] = Absent)'
             PROVE  FALSE
  BY DEF FlaggedEnvExists
<1> USE DEF LockInv, TypeOK, FlaggedEnvExists
<1>1. CASE UNCHANGED vars
  BY <1>1 DEF vars
<1>2. ASSUME NEW q \in Requests, Step(q) PROVE FALSE
  <2>1. CASE StatDir(q) \/ MkdirAll(q) \/ SaveFails(q)
    BY <2>1 DEF StatDir, MkdirAll, SaveFails
  <2>2. ASSUME NEW f \in FileNames, WriteTemp(q, f) PROVE FALSE
    BY <2>2 DEF WriteTemp, RenamePc
  <2>3. ASSUME NEW f \in FileNames, RenameTemp(q, f) PROVE FALSE
    BY <2>3 DEF RenameTemp, FileNames
  <2>4. CASE TryLock(q)
    BY <2>4 DEF TryLock
  <2>5. CASE ComposeArgs(q)
    BY <2>5 DEF ComposeArgs
  <2>6. CASE Spawn(q)
    BY <2>6 DEF Spawn, AfterCommand
  <2>7. ASSUME NEW b \in BOOLEAN, CommandEnds(q, b) \/ ListProjects(q, b)
        PROVE  FALSE
    BY <2>7 DEF CommandEnds, ListProjects, AfterCommand
  <2>8. CASE StatForDelete(q) \/ ScanDir(q) \/ RemoveDir(q) \/ Unlock(q)
    BY <2>8 DEF StatForDelete, ScanDir, RemoveDir, Unlock
  <2>9. ASSUME NEW e \in todo[q], RemoveEntry(q, e) PROVE FALSE
    <3>1. pc[q] = "del_files" /\ pc[r] = "spawn"
      BY <2>9 DEF RemoveEntry
    <3>2. stack[q] # stack[r]
      BY <3>1 DEF LockHeldInside, OneUser, OwnedPcs
    <3>3. file'[stack[r]] = file[stack[r]]
      BY <2>9, <3>2 DEF RemoveEntry
    <3>4. QED BY <2>9, <3>1, <3>3 DEF RemoveEntry
  <2>10. QED
    BY <1>2, <2>1, <2>2, <2>3, <2>4, <2>5, <2>6, <2>7, <2>8, <2>9 DEF Step
<1>3. ASSUME NEW q \in Requests, NEW k \in Kinds, NEW s \in Stacks,
             Start(q, k, s)
      PROVE  FALSE
  <2>1. FirstPc(k) # "spawn"
    BY FirstPcType, KindsAssumption
  <2>2. QED BY <1>3, <2>1 DEF Start
<1>4. CASE SetGlobalEnv
  BY <1>4 DEF SetGlobalEnv
<1>5. ASSUME NEW s \in Stacks, ProjectMoves(s) PROVE FALSE
  BY <1>5 DEF ProjectMoves
<1>6. CASE Crash
  BY <1>6 DEF Crash
<1>7. QED BY <1>1, <1>2, <1>3, <1>4, <1>5, <1>6 DEF Next

\* The env file named by the arguments of a compose command is there when the
\* command starts (stack_store.go:292-303 against 520-521 and 605).
THEOREM FlaggedEnv == Spec => []FlaggedEnvExists
<1>1. Init => FlaggedEnvExists
  BY DEF Init, FlaggedEnvExists
<1>2. LockInv /\ FlaggedEnvExists /\ [Next]_vars => FlaggedEnvExists'
  BY FlaggedStep
<1>3. QED BY LockInvariant, <1>1, <1>2, PTL DEF Spec

-----------------------------------------------------------------------------
(* The files of a stack. *)

FilesInv == Roles /\ ComposeIsWritten /\ EnvOnlyAfterDelete /\ SavedIsOnDisk

\* A request that has arrived stays what it is, and whoever is alone in writing
\* a stack has been alone all along.
LEMMA StillAlone ==
    ASSUME LockInv, Roles, NEW r \in Requests, AloneWriting(r)', stack'[r] = stack[r],
           \A q \in Requests : pc[q] # "idle" =>
               pc'[q] # "idle" /\ kind'[q] = kind[q] /\ stack'[q] = stack[q]
    PROVE  AloneWriting(r)
BY DEF AloneWriting

\* A step of r that leaves the files alone, and does not get r past the rename
\* of its compose file.
LEMMA FilesKept ==
    ASSUME LockInv, FilesInv, Roles', NEW r \in Requests, pc[r] # "idle", pc'[r] # "idle",
           UNCHANGED <<file, kind, stack, saved>>,
           \A q \in Requests \ {r} : pc'[q] = pc[q],
           pc'[r] \in {"write_env", "rename_env"} => pc[r] \in {"write_env", "rename_env"}
    PROVE  FilesInv'
<1> USE DEF FilesInv
<1>1. \A q \in Requests : AloneWriting(q)' => AloneWriting(q)
  BY StillAlone
<1>2. ComposeIsWritten' BY <1>1 DEF ComposeIsWritten, Deleting
<1>3. EnvOnlyAfterDelete' BY DEF EnvOnlyAfterDelete, Deleting
<1>4. SavedIsOnDisk' BY <1>1 DEF SavedIsOnDisk, LockInv, TypeOK
<1>5. QED BY <1>2, <1>3, <1>4

\* compose.yaml is renamed before .env, and a save that is alone finds what it
\* has renamed.
LEMMA RenameTempFiles ==
    ASSUME NEW r \in Requests, NEW f \in FileNames, LockInv, FilesInv, RenameTemp(r, f)
    PROVE  FilesInv'
<1> USE DEF LockInv, TypeOK, FilesInv, RenameTemp, RenamePc
<1>0. /\ pc[r] \in {"rename_compose", "rename_env"} /\ kind[r] \in SavingKinds
      /\ file' = [file EXCEPT ![stack[r]][f] = r] /\ r # Absent
      /\ UNCHANGED <<kind, stack>> /\ \A q \in Requests \ {r} : pc'[q] = pc[q]
      /\ pc[r] = IF f = "compose" THEN "rename_compose" ELSE "rename_env"
      /\ pc'[r] \in IF f = "compose" THEN {"write_env"} ELSE {"lock", "done"}
      /\ saved' = IF f = "compose" THEN saved ELSE saved \cup {r}
      /\ f \in {"compose", "env"} /\ stack[r] \in Stacks
  BY DEF Roles, SavePcs, FileNames
<1> HIDE DEF RenameTemp
<1>1. \A q \in Requests : AloneWriting(q)' => AloneWriting(q)
  BY <1>0, StillAlone
<1>2. Roles' BY <1>0 DEF Roles, SavePcs
<1>3. \A s \in Stacks, g \in FileNames :
        file'[s][g] = IF s = stack[r] /\ g = f THEN r ELSE file[s][g]
  BY <1>0
<1>4. \A q \in Requests : q # r /\ stack[q] = stack[r] => ~AloneWriting(q)
  BY <1>0 DEF AloneWriting, Writers
<1>5. ComposeIsWritten'
  <2> SUFFICES ASSUME NEW q \in Requests, pc'[q] \in {"write_env", "rename_env"}
               PROVE  /\ file'[stack[q]]["compose"] # Absent \/ Deleting(stack[q])
                      /\ AloneWriting(q)' => file'[stack[q]]["compose"] = q
    BY <1>0 DEF ComposeIsWritten, Deleting
  <2>1. CASE q = r BY <1>0, <1>3, <2>1 DEF FileNames
  <2>2. CASE q # r
    BY <1>0, <1>1, <1>3, <1>4, <2>2 DEF ComposeIsWritten, FileNames
  <2>3. QED BY <2>1, <2>2
<1>6. EnvOnlyAfterDelete'
  <2> SUFFICES ASSUME NEW s \in Stacks, file'[s]["env"] # Absent, file'[s]["compose"] = Absent
               PROVE  Deleting(s)
    BY <1>0 DEF EnvOnlyAfterDelete, Deleting
  <2>1. CASE s = stack[r] /\ f = "env"
    BY <1>0, <1>3, <2>1 DEF ComposeIsWritten, FileNames
  <2>2. CASE ~(s = stack[r] /\ f = "env")
    BY <1>0, <1>3, <2>2 DEF EnvOnlyAfterDelete, FileNames
  <2>3. QED BY <2>1, <2>2
<1>7. SavedIsOnDisk'
  <2> SUFFICES ASSUME NEW q \in saved', AloneWriting(q)', NEW g \in FileNames
               PROVE  file'[stack[q]][g] = q
    BY <1>0 DEF SavedIsOnDisk
  <2>1. CASE q = r
    BY <1>0, <1>1, <1>3, <2>1 DEF ComposeIsWritten, Roles, SavePcs, FileNames
  <2>2. CASE q # r
    BY <1>0, <1>1, <1>3, <1>4, <2>2 DEF SavedIsOnDisk
  <2>3. QED BY <2>1, <2>2
<1>8. QED BY <1>2, <1>5, <1>6, <1>7

\* Only a delete takes a file away.
LEMMA RemoveEntryFiles ==
    ASSUME NEW r \in Requests, NEW e \in todo[r], LockInv, FilesInv, RemoveEntry(r, e)
    PROVE  FilesInv'
<1> USE DEF LockInv, TypeOK, FilesInv, RemoveEntry
<1>0. /\ pc[r] = "del_files" /\ kind[r] = "delete" /\ Deleting(stack[r])
      /\ UNCHANGED <<kind, stack, pc, saved>>
  BY DEF Roles, Deleting
<1>1. \A q \in Requests : AloneWriting(q)' => AloneWriting(q)
  BY <1>0, StillAlone
<1>2. Roles' BY <1>0 DEF Roles
<1>3. \A s \in Stacks : s # stack[r] => file'[s] = file[s]
  OBVIOUS
<1>4. \A q \in Requests : kind[q] \in SavingKinds /\ stack[q] = stack[r] => ~AloneWriting(q)
  BY <1>0 DEF AloneWriting, Writers, SavingKinds, SaveKinds
<1> HIDE DEF RemoveEntry
<1>5. ComposeIsWritten'
  BY <1>0, <1>1, <1>3, <1>4 DEF ComposeIsWritten, Deleting, Roles, SavePcs
<1>6. EnvOnlyAfterDelete' BY <1>0, <1>3 DEF EnvOnlyAfterDelete, Deleting
<1>7. SavedIsOnDisk' BY <1>0, <1>1, <1>3, <1>4 DEF SavedIsOnDisk, Roles
<1>8. QED BY <1>2, <1>5, <1>6, <1>7

LEMMA StartFiles ==
    ASSUME NEW r \in Requests, NEW k \in Kinds, NEW s \in Stacks, LockInv, FilesInv,
           Start(r, k, s)
    PROVE  FilesInv'
<1> USE DEF LockInv, TypeOK, FilesInv
<1>0. /\ pc[r] = "idle" /\ kind[r] = "up" /\ r \notin saved
      /\ kind' = [kind EXCEPT ![r] = k] /\ stack' = [stack EXCEPT ![r] = s]
      /\ pc' = [pc EXCEPT ![r] = FirstPc(k)] /\ UNCHANGED <<file, saved>>
  BY DEF Start, Roles, SavingKinds, SaveKinds
<1>1. FirstPc(k) = IF k \in SavingKinds THEN "stat" ELSE "lock"
  BY DEF FirstPc, SavingKinds
<1>2. \A q \in Requests \ {r} : AloneWriting(q)' => AloneWriting(q)
  BY <1>0, <1>1, StillAlone
<1>3. \A t \in Stacks : Deleting(t) => Deleting(t)'
  BY <1>0 DEF Deleting
<1>4. Roles' BY <1>0, <1>1 DEF Roles, SavePcs
<1>5. ComposeIsWritten' BY <1>0, <1>1, <1>2, <1>3 DEF ComposeIsWritten
<1>6. EnvOnlyAfterDelete' BY <1>0, <1>3 DEF EnvOnlyAfterDelete
<1>7. SavedIsOnDisk' BY <1>0, <1>2 DEF SavedIsOnDisk
<1>8. QED BY <1>4, <1>5, <1>6, <1>7

\* The disk stays as it was.
LEMMA CrashFiles == ASSUME LockInv, FilesInv, Crash PROVE FilesInv'
<1> USE DEF LockInv, TypeOK, FilesInv
<1>0. /\ UNCHANGED <<file, kind, stack, saved>>
      /\ \A q \in Requests : pc'[q] = IF pc[q] = "idle" THEN "idle" ELSE "done"
  BY DEF Crash
<1>1. \A q \in Requests : AloneWriting(q)' => AloneWriting(q)
  BY <1>0, StillAlone
<1>2. Roles' BY <1>0 DEF Roles, SavePcs
<1>3. ComposeIsWritten' BY <1>0 DEF ComposeIsWritten
<1>4. EnvOnlyAfterDelete' BY <1>0 DEF EnvOnlyAfterDelete, Deleting
<1>5. SavedIsOnDisk' BY <1>0, <1>1 DEF SavedIsOnDisk
<1>6. QED BY <1>2, <1>3, <1>4, <1>5

LEMMA FilesStep ==
    ASSUME LockInv, FilesInv, NEW r \in Requests, Step(r) PROVE FilesInv'
<1> USE DEF LockInv, TypeOK
<1> DEFINE Quiet ==
      /\ pc[r] # "idle" /\ pc'[r] # "idle" /\ Roles'
      /\ UNCHANGED <<file, kind, stack, saved>>
      /\ \A q \in Requests \ {r} : pc'[q] = pc[q]
      /\ pc'[r] \in {"write_env", "rename_env"} => pc[r] \in {"write_env", "rename_env"}
<1>0. ASSUME Quiet PROVE FilesInv'
  BY <1>0, FilesKept
<1>1. CASE StatDir(r) \/ MkdirAll(r) \/ SaveFails(r)
  <2>1. Quiet
    BY <1>1 DEF StatDir, MkdirAll, SaveFails, FilesInv, Roles, SavePcs
  <2>2. QED BY <2>1, <1>0
<1>2. ASSUME NEW f \in FileNames, WriteTemp(r, f) PROVE FilesInv'
  <2>1. Quiet BY <1>2 DEF WriteTemp, WritePc, RenamePc, FilesInv, Roles, SavePcs
  <2>2. QED BY <2>1, <1>0
<1>3. ASSUME NEW f \in FileNames, RenameTemp(r, f) PROVE FilesInv'
  BY <1>3, RenameTempFiles
<1>4. CASE TryLock(r) \/ ComposeArgs(r) \/ StatForDelete(r)
  <2>1. Quiet
    BY <1>4 DEF TryLock, ComposeArgs, StatForDelete, FilesInv, Roles, SavePcs
  <2>2. QED BY <2>1, <1>0
<1>5. CASE Spawn(r)
  <2>1. Quiet BY <1>5 DEF Spawn, AfterCommand, FilesInv, Roles, SavePcs
  <2>2. QED BY <2>1, <1>0
<1>6. ASSUME NEW b \in BOOLEAN, CommandEnds(r, b) \/ ListProjects(r, b) PROVE FilesInv'
  <2>1. Quiet
    BY <1>6 DEF CommandEnds, AfterCommand, ListProjects, FilesInv, Roles, SavePcs
  <2>2. QED BY <2>1, <1>0
<1>7. CASE ScanDir(r) \/ RemoveDir(r) \/ Unlock(r)
  <2>1. Quiet BY <1>7 DEF ScanDir, RemoveDir, Unlock, FilesInv, Roles, SavePcs
  <2>2. QED BY <2>1, <1>0
<1>8. ASSUME NEW e \in todo[r], RemoveEntry(r, e) PROVE FilesInv'
  BY <1>8, RemoveEntryFiles
<1>9. QED
  BY <1>1, <1>2, <1>3, <1>4, <1>5, <1>6, <1>7, <1>8 DEF Step

LEMMA InitFiles == Init => FilesInv
BY DEF Init, FilesInv, Roles, SavePcs, ComposeIsWritten, EnvOnlyAfterDelete, SavedIsOnDisk,
   NoFiles, FileNames

LEMMA NextFiles == ASSUME LockInv, FilesInv, [Next]_vars PROVE FilesInv'
<1>1. CASE UNCHANGED vars
  BY <1>1 DEF vars, FilesInv, Roles, ComposeIsWritten, EnvOnlyAfterDelete, SavedIsOnDisk,
     AloneWriting, Deleting
<1>2. ASSUME NEW r \in Requests, Step(r) PROVE FilesInv'
  BY <1>2, FilesStep
<1>3. ASSUME NEW r \in Requests, NEW k \in Kinds, NEW s \in Stacks, Start(r, k, s)
      PROVE  FilesInv'
  BY <1>3, StartFiles
<1>4. CASE SetGlobalEnv \/ \E s \in Stacks : ProjectMoves(s)
  BY <1>4 DEF SetGlobalEnv, ProjectMoves, FilesInv, Roles, ComposeIsWritten,
     EnvOnlyAfterDelete, SavedIsOnDisk, AloneWriting, Deleting
<1>5. CASE Crash
  BY <1>5, CrashFiles
<1>6. QED BY <1>1, <1>2, <1>3, <1>4, <1>5 DEF Next

\* The inductive invariant of the store: its lock, and its files.
THEOREM StoreInvariant == Spec => []StoreInv
<1>1. Spec => []FilesInv
  BY LockInvariant, InitFiles, NextFiles, PTL DEF Spec
<1>2. QED BY LockInvariant, <1>1, PTL DEF StoreInv, FilesInv

\* An .env without a compose file is what a delete has left, never a save that
\* failed or died between its renames (stack_store.go:226-231).
THEOREM EnvHasCompose == Spec => []EnvOnlyAfterDelete
BY StoreInvariant, PTL DEF StoreInv

\* What a save has answered is on disk, as long as nobody else saves or deletes
\* the stack (stack_store.go:194-233).
THEOREM SavedStays == Spec => []SavedIsOnDisk
BY StoreInvariant, PTL DEF StoreInv

-----------------------------------------------------------------------------
(* The owner of a stack. *)

\* A step of another request leaves the project of an owned stack alone, and
\* takes nothing away from it.
LEMMA OwnerStep ==
    ASSUME LockInv, [Next]_vars, NEW s \in Stacks, NEW q \in Requests,
           users[s] # {}, q \notin users[s], pc'[q] # pc[q] \/ todo'[q] # todo[q],
           crashes' = crashes
    PROVE  /\ docker'[s] = docker[s]
           /\ s \in dir => s \in dir'
           /\ \A f \in FileNames : file[s][f] # Absent => file'[s][f] # Absent
<1> USE DEF LockInv, TypeOK
<1>0. stack[q] = s => pc[q] \notin OwnedPcs
  BY DEF LockHeldInside
<1>1. ASSUME NEW r \in Requests, Step(r) PROVE r = q
  <2> SUFFICES ASSUME r # q PROVE pc'[q] = pc[q] /\ todo'[q] = todo[q]
    OBVIOUS
  <2>1. CASE StatDir(r) \/ MkdirAll(r) \/ SaveFails(r)
    BY <2>1 DEF StatDir, MkdirAll, SaveFails
  <2>2. ASSUME NEW f \in FileNames, WriteTemp(r, f) \/ RenameTemp(r, f)
        PROVE  pc'[q] = pc[q] /\ todo'[q] = todo[q]
    BY <2>2 DEF WriteTemp, RenameTemp
  <2>3. CASE TryLock(r) \/ ComposeArgs(r) \/ Spawn(r) \/ StatForDelete(r)
    BY <2>3 DEF TryLock, ComposeArgs, Spawn, AfterCommand, StatForDelete
  <2>4. ASSUME NEW b \in BOOLEAN, CommandEnds(r, b) \/ ListProjects(r, b)
        PROVE  pc'[q] = pc[q] /\ todo'[q] = todo[q]
    BY <2>4 DEF CommandEnds, AfterCommand, ListProjects
  <2>5. CASE ScanDir(r) \/ RemoveDir(r) \/ Unlock(r)
    BY <2>5 DEF ScanDir, RemoveDir, Unlock
  <2>6. ASSUME NEW e \in todo[r], RemoveEntry(r, e)
        PROVE  pc'[q] = pc[q] /\ todo'[q] = todo[q]
    BY <2>6 DEF RemoveEntry
  <2>7. QED BY <1>1, <2>1, <2>2, <2>3, <2>4, <2>5, <2>6 DEF Step
<1>2. CASE Step(q)
  <2>1. ASSUME StatDir(q) \/ MkdirAll(q) \/ SaveFails(q)
        PROVE  docker' = docker /\ dir \subseteq dir' /\ file' = file
    BY <2>1 DEF StatDir, MkdirAll, SaveFails
  <2>2. ASSUME NEW f \in FileNames, WriteTemp(q, f) \/ RenameTemp(q, f)
        PROVE  /\ docker' = docker /\ dir' = dir
               /\ \A g \in FileNames : file[s][g] # Absent => file'[s][g] # Absent
    <3>1. CASE WriteTemp(q, f) BY <3>1 DEF WriteTemp
    <3>2. CASE RenameTemp(q, f)
      <4>1. q # Absent OBVIOUS
      <4>2. /\ UNCHANGED <<docker, dir>> /\ stack[q] \in Stacks
            /\ file' = [file EXCEPT ![stack[q]][f] = q]
        BY <3>2 DEF RenameTemp
      <4>3. \A g \in FileNames : file'[s][g] \in {q, file[s][g]}
        BY <4>2
      <4>4. QED BY <4>1, <4>2, <4>3
    <3>3. QED BY <2>2, <3>1, <3>2
  <2>3. CASE TryLock(q) \/ ComposeArgs(q) \/ Spawn(q) \/ StatForDelete(q) \/ ScanDir(q)
             \/ Unlock(q)
    BY <2>3 DEF TryLock, ComposeArgs, Spawn, StatForDelete, ScanDir, Unlock
  <2>4. ASSUME NEW b \in BOOLEAN, CommandEnds(q, b) \/ ListProjects(q, b)
        PROVE  docker'[s] = docker[s] /\ UNCHANGED <<dir, file>>
    BY <2>4, <1>0 DEF CommandEnds, AfterCommand, ListProjects, OwnedPcs
  <2>5. CASE RemoveDir(q)
    BY <2>5, <1>0 DEF RemoveDir, OwnedPcs
  <2>6. ASSUME NEW e \in todo[q], RemoveEntry(q, e)
        PROVE  docker' = docker /\ dir' = dir /\ file'[s] = file[s]
    BY <2>6, <1>0 DEF RemoveEntry, OwnedPcs
  <2>7. QED BY <1>2, <2>1, <2>2, <2>3, <2>4, <2>5, <2>6 DEF Step
<1>3. ASSUME NEW r \in Requests, NEW k \in Kinds, NEW t \in Stacks, Start(r, k, t)
      PROVE  UNCHANGED <<docker, dir, file>>
  BY <1>3 DEF Start
<1>4. CASE SetGlobalEnv \/ \E t \in Stacks : ProjectMoves(t)
  BY <1>4 DEF SetGlobalEnv, ProjectMoves
<1>5. CASE UNCHANGED vars
  BY <1>5 DEF vars
<1>6. ~Crash
  BY DEF Crash
<1>7. QED BY <1>1, <1>2, <1>3, <1>4, <1>5, <1>6 DEF Next

\* What the owner of a stack has found there stays until it has answered,
\* but for saves that replace files (stack_store.go:516-606).
THEOREM OwnerAlone == Spec => OwnerUndisturbed
<1>1. LockInv /\ [Next]_vars =>
        [\A s \in Stacks, q \in Requests :
            /\ users[s] # {} /\ q \notin users[s]
            /\ pc'[q] # pc[q] \/ todo'[q] # todo[q]
            /\ crashes' = crashes
            => /\ docker'[s] = docker[s]
               /\ s \in dir => s \in dir'
               /\ \A f \in FileNames :
                      file[s][f] # Absent => file'[s][f] # Absent]_vars
  BY OwnerStep
<1>2. QED BY LockInvariant, <1>1, PTL DEF Spec, OwnerUndisturbed

-----------------------------------------------------------------------------
(***************************************************************************)
(* Refinement: the store uses the abstract lock as StackMutex prescribes.  *)
(***************************************************************************)
\* A request that was refused has returned.
BusyIsDone == \A r \in Requests : res[r] = "busy" => pc[r] = "done"

LEMMA BusyStep == ASSUME LockInv, BusyIsDone, [Next]_vars PROVE BusyIsDone'
<1> USE DEF LockInv, TypeOK, BusyIsDone
<1>1. CASE UNCHANGED vars
  BY <1>1 DEF vars
<1>2. ASSUME NEW r \in Requests, Step(r) PROVE BusyIsDone'
  <2>1. CASE StatDir(r) \/ MkdirAll(r)
    BY <2>1 DEF StatDir, MkdirAll
  <2>2. CASE SaveFails(r)
    BY <2>2 DEF SaveFails
  <2>3. ASSUME NEW f \in FileNames, WriteTemp(r, f) \/ RenameTemp(r, f)
        PROVE  BusyIsDone'
    BY <2>3 DEF WriteTemp, RenameTemp, WritePc, RenamePc
  <2>4. CASE TryLock(r)
    BY <2>4 DEF TryLock
  <2>5. CASE ComposeArgs(r) \/ StatForDelete(r)
    BY <2>5 DEF ComposeArgs, StatForDelete
  <2>6. CASE Spawn(r)
    BY <2>6 DEF Spawn, AfterCommand
  <2>7. ASSUME NEW b \in BOOLEAN, CommandEnds(r, b) PROVE BusyIsDone'
    BY <2>7 DEF CommandEnds, AfterCommand
  <2>8. ASSUME NEW b \in BOOLEAN, ListProjects(r, b) PROVE BusyIsDone'
    BY <2>8 DEF ListProjects
  <2>9. CASE ScanDir(r) \/ RemoveDir(r) \/ Unlock(r)
    BY <2>9 DEF ScanDir, RemoveDir, Unlock
  <2>10. ASSUME NEW e \in todo[r], RemoveEntry(r, e) PROVE BusyIsDone'
    BY <2>10 DEF RemoveEntry
  <2>11. QED
    BY <1>2, <2>1, <2>2, <2>3, <2>4, <2>5, <2>6, <2>7, <2>8, <2>9, <2>10 DEF Step
<1>3. ASSUME NEW r \in Requests, NEW k \in Kinds, NEW s \in Stacks,
             Start(r, k, s)
      PROVE  BusyIsDone'
  BY <1>3 DEF Start
<1>4. CASE SetGlobalEnv \/ \E s \in Stacks : ProjectMoves(s)
  BY <1>4 DEF SetGlobalEnv, ProjectMoves
<1>5. CASE Crash
  BY <1>5 DEF Crash
<1>6. QED BY <1>1, <1>2, <1>3, <1>4, <1>5 DEF Next

\* A step in which r neither enters nor leaves an operation, and is not
\* refused, is invisible to the abstract lock.
LEMMA SilentStep ==
    ASSUME LockInv, BusyIsDone, BusyIsDone', NEW r \in Requests, users' = users,
           \A q \in Requests \ {r} : pc'[q] = pc[q] /\ res'[q] = res[q],
           pc'[r] \in OwnedPcs <=> pc[r] \in OwnedPcs,
           res'[r] = "busy" <=> res[r] = "busy"
    PROVE  UNCHANGED Mutex!vars
<1>1. Verdict' = Verdict
  BY DEF Verdict, BusyIsDone, OwnedPcs
<1>2. QED BY <1>1 DEF Mutex!vars

LEMMA StepMutex ==
    ASSUME LockInv, LockInv', BusyIsDone, BusyIsDone', NEW r \in Requests, Step(r)
    PROVE  [Mutex!Next]_(Mutex!vars)
<1> USE DEF LockInv, TypeOK
<1> DEFINE Quiet == /\ users' = users
                    /\ \A q \in Requests \ {r} : pc'[q] = pc[q] /\ res'[q] = res[q]
                    /\ pc'[r] \in OwnedPcs <=> pc[r] \in OwnedPcs
                    /\ res'[r] = "busy" <=> res[r] = "busy"
<1>0. ASSUME Quiet PROVE [Mutex!Next]_(Mutex!vars)
  BY <1>0, SilentStep
<1>1. CASE StatDir(r) \/ MkdirAll(r)
  <2>1. Quiet BY <1>1 DEF StatDir, MkdirAll, OwnedPcs, BusyIsDone
  <2>2. QED BY <2>1, <1>0
<1>2. CASE SaveFails(r)
  <2>1. Quiet BY <1>2 DEF SaveFails, OwnedPcs, SavePcs, BusyIsDone
  <2>2. QED BY <2>1, <1>0
<1>3. ASSUME NEW f \in FileNames, WriteTemp(r, f) PROVE [Mutex!Next]_(Mutex!vars)
  <2>1. Quiet BY <1>3 DEF WriteTemp, WritePc, RenamePc, OwnedPcs
  <2>2. QED BY <2>1, <1>0
<1>4. ASSUME NEW f \in FileNames, RenameTemp(r, f) PROVE [Mutex!Next]_(Mutex!vars)
  <2>1. Quiet BY <1>4 DEF RenameTemp, RenamePc, OwnedPcs, BusyIsDone
  <2>2. QED BY <2>1, <1>0
<1>5. CASE TryLock(r)
  <2> DEFINE s == stack[r]
  <2>1. s \in Stacks /\ Verdict[r] = "none" /\ pc[r] = "lock"
    BY <1>5 DEF TryLock, Verdict, OwnedPcs
  <2>2. CASE users[s] = {}
    <3>1. /\ users' = [users EXCEPT ![s] = {r}]
          /\ pc' = [pc EXCEPT ![r] = IF kind[r] = "delete" THEN "del_stat" ELSE "args"]
          /\ res' = res
      BY <1>5, <2>2 DEF TryLock
    <3>2. Verdict' = [Verdict EXCEPT ![r] = "granted"]
      BY <3>1 DEF Verdict, OwnedPcs
    <3>3. Mutex!Grant(r, s)
      BY <2>1, <2>2, <3>1, <3>2 DEF Mutex!Grant
    <3>4. QED BY <2>1, <3>3 DEF Mutex!Next
  <2>3. CASE users[s] # {}
    <3>1. /\ users' = users
          /\ pc' = [pc EXCEPT ![r] = "done"] /\ res' = [res EXCEPT ![r] = "busy"]
      BY <1>5, <2>3 DEF TryLock
    <3>2. Verdict' = [Verdict EXCEPT ![r] = "busy"]
      BY <3>1 DEF Verdict, OwnedPcs
    <3>3. Mutex!Refuse(r, s)
      BY <2>1, <2>3, <3>1, <3>2 DEF Mutex!Refuse
    <3>4. QED BY <2>1, <3>3 DEF Mutex!Next
  <2>4. QED BY <2>2, <2>3
<1>6. CASE ComposeArgs(r) \/ StatForDelete(r)
  <2>1. Quiet BY <1>6 DEF ComposeArgs, StatForDelete, OwnedPcs
  <2>2. QED BY <2>1, <1>0
<1>7. CASE Spawn(r)
  <2>1. Quiet BY <1>7 DEF Spawn, AfterCommand, OwnedPcs, BusyIsDone
  <2>2. QED BY <2>1, <1>0
<1>8. ASSUME NEW b \in BOOLEAN, CommandEnds(r, b) PROVE [Mutex!Next]_(Mutex!vars)
  <2>1. Quiet BY <1>8 DEF CommandEnds, AfterCommand, OwnedPcs, BusyIsDone
  <2>2. QED BY <2>1, <1>0
<1>9. ASSUME NEW b \in BOOLEAN, ListProjects(r, b) PROVE [Mutex!Next]_(Mutex!vars)
  <2>1. Quiet BY <1>9 DEF ListProjects, OwnedPcs, BusyIsDone
  <2>2. QED BY <2>1, <1>0
<1>10. CASE ScanDir(r) \/ RemoveDir(r)
  <2>1. Quiet BY <1>10 DEF ScanDir, RemoveDir, OwnedPcs, BusyIsDone
  <2>2. QED BY <2>1, <1>0
<1>11. ASSUME NEW e \in todo[r], RemoveEntry(r, e) PROVE [Mutex!Next]_(Mutex!vars)
  <2>1. Quiet BY <1>11 DEF RemoveEntry
  <2>2. QED BY <2>1, <1>0
<1>12. CASE Unlock(r)
  <2> DEFINE s == stack[r]
  <2>1. /\ pc[r] = "unlock" /\ pc' = [pc EXCEPT ![r] = "done"] /\ res' = res
        /\ users' = [users EXCEPT ![s] = @ \ {r}]
    BY <1>12 DEF Unlock
  <2>2. s \in Stacks /\ r \in users[s] /\ res[r] # "busy"
    BY <2>1 DEF LockHeldInside, OwnedPcs, BusyIsDone
  <2>3. Verdict' = [Verdict EXCEPT ![r] = "none"]
    BY <2>1, <2>2 DEF Verdict, OwnedPcs
  <2>4. Mutex!Release(r, s)
    BY <2>1, <2>2, <2>3 DEF Mutex!Release
  <2>5. QED BY <2>2, <2>4 DEF Mutex!Next
<1>13. QED
  BY <1>1, <1>2, <1>3, <1>4, <1>5, <1>6, <1>7, <1>8, <1>9, <1>10, <1>11, <1>12
  DEF Step

\* A crash is a restart of the abstract lock: who owned a stack is done now,
\* and was not refused.
LEMMA CrashMutex ==
    ASSUME LockInv, BusyIsDone, Crash
    PROVE  Mutex!Restart
<1> USE DEF LockInv, TypeOK
<1>1. MaxCrashes > 0
  BY DEF Crash
<1>2. users' = [s \in Stacks |-> {}]
  BY DEF Crash
<1>3. ASSUME NEW r \in Requests
      PROVE  Verdict'[r] = IF Verdict[r] = "granted" THEN "none" ELSE Verdict[r]
  <2>1. CASE pc[r] \in {"idle", "done"}
    <3>1. pc'[r] = pc[r] /\ res'[r] = res[r]
      BY <2>1 DEF Crash
    <3>2. QED BY <2>1, <3>1 DEF Verdict, OwnedPcs
  <2>2. CASE pc[r] \notin {"idle", "done"}
    <3>1. pc'[r] = "done" /\ res'[r] = "lost"
      BY <2>2 DEF Crash
    <3>2. QED BY <2>2, <3>1 DEF Verdict, OwnedPcs
  <2>3. QED BY <2>1, <2>2
<1>4. Verdict' = [r \in Requests |->
                    IF Verdict[r] = "granted" THEN "none" ELSE Verdict[r]]
  BY <1>3 DEF Verdict
<1>5. QED BY <1>1, <1>2, <1>4 DEF Mutex!Restart

LEMMA NextMutex ==
    ASSUME LockInv, LockInv', BusyIsDone, BusyIsDone', [Next]_vars
    PROVE  [Mutex!Next]_(Mutex!vars)
<1> USE DEF LockInv, TypeOK
<1>1. CASE UNCHANGED vars
  BY <1>1 DEF vars, Mutex!vars, Verdict
<1>2. ASSUME NEW r \in Requests, Step(r) PROVE [Mutex!Next]_(Mutex!vars)
  BY <1>2, StepMutex
<1>3. ASSUME NEW r \in Requests, NEW k \in Kinds, NEW s \in Stacks,
             Start(r, k, s)
      PROVE  [Mutex!Next]_(Mutex!vars)
  <2>1. FirstPc(k) \in {"stat", "lock"}
    BY FirstPcType
  <2>2. users' = users /\ res' = res /\ pc[r] = "idle"
        /\ pc' = [pc EXCEPT ![r] = FirstPc(k)]
    BY <1>3 DEF Start
  <2>3. QED BY <2>1, <2>2, SilentStep DEF OwnedPcs
<1>4. CASE SetGlobalEnv \/ \E s \in Stacks : ProjectMoves(s)
  BY <1>4 DEF SetGlobalEnv, ProjectMoves, Mutex!vars, Verdict
<1>5. CASE Crash
  BY <1>5, CrashMutex DEF Mutex!Next
<1>6. QED BY <1>1, <1>2, <1>3, <1>4, <1>5 DEF Next

\* Every request treats its stack's lock as StackMutex says: an operation is
\* granted a free stack, is refused an owned one, and gives back what it was
\* granted, or dies with the agent and its locks (stack_store.go:508-519,
\* 556-606).
THEOREM StoreRefinement == Spec => MutexSpec
<1>1. Init => Mutex!Init
  BY DEF Init, Mutex!Init, Verdict, OwnedPcs
<1>2. Init => BusyIsDone
  BY DEF Init, BusyIsDone
<1>3. LockInv /\ BusyIsDone /\ [Next]_vars => BusyIsDone'
  BY BusyStep
<1>4. /\ LockInv /\ LockInv' /\ BusyIsDone /\ BusyIsDone' /\ [Next]_vars
      => [Mutex!Next]_(Mutex!vars)
  BY NextMutex
<1>5. QED
  BY LockInvariant, <1>1, <1>2, <1>3, <1>4, PTL
  DEF Spec, MutexSpec, Mutex!Spec
==============================================================================
