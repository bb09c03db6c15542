----------------------------- MODULE StackStore -----------------------------
(***************************************************************************)
(* The stack store of internal/docker: concurrent requests that save a     *)
(* stack's compose.yaml and .env (SaveStack), run `docker compose` on it   *)
(* (stackRun, StackUpdate, the deploy goroutine) and delete it, all over   *)
(* one directory per stack.  Compose commands take the per-stack lock;     *)
(* SaveStack does not.  Each request performs one operation, one system    *)
(* call or one command at a time, and the agent may crash in between.      *)
(*                                                                         *)
(* A file's content is the request that wrote it.  A project is what       *)
(* `docker compose ls` says of it, as StatusConvert reads it.              *)
(***************************************************************************)
EXTENDS Naturals, FiniteSets

CONSTANTS Requests,   \* requests in flight, each one goroutine
          Stacks,     \* stack names
          Kinds,      \* the operations an instance exercises
          NoRequest,  \* the writer of nothing: an entry that is no temp file
          Original,   \* the content of a file that was there from the start
          Absent,     \* the content of a file that is not there
          MaxCrashes  \* bound on agent crashes

\* An operation: SaveStack with isAdd true and false; a deploy, which saves
\* first, or (an empty body) deploys what is on disk; a stackRun; StackUpdate;
\* StackDelete.
SaveKinds   == {"add", "update"}
DeployKinds == {"deploy_add", "deploy_update", "deploy"}
RunKinds    == {"up", "stop", "restart", "recreate", "down"}
AllKinds    == SaveKinds \cup DeployKinds \cup RunKinds \cup {"pull_up", "delete"}

ASSUME KindsAssumption == Kinds \subseteq AllKinds
ASSUME MaxCrashesAssumption == MaxCrashes \in Nat
ASSUME ContentsAssumption == /\ Requests \cap {NoRequest, Original, Absent} = {}
                             /\ Original # Absent

VARIABLES dir,        \* stacks whose directory exists
          file,       \* file[s][f]: content of file f of stack s
          tmp,        \* tmp[s]: temp files <<r, f>> in the directory of s
          globalEnv,  \* global.env exists
          docker,     \* docker[s]: state of the compose project s
          users,      \* users[s]: requests that hold the lock of s
          crashes,    \* crashes so far
          kind, stack, pc, \* per request: its operation, stack and position
          cmd,        \* per request: the compose command it runs
          envFlag,    \* per request: `--env-file ./.env` is in the arguments
          todo,       \* per request: entries RemoveAll has still to unlink
          res,        \* per request: the answer
          saved       \* requests whose SaveStack returned nil

disk   == <<dir, file, tmp, globalEnv>>
locals == <<kind, stack, cmd, envFlag, todo>>
vars   == <<disk, docker, users, crashes, pc, locals, res, saved>>

FileNames == {"compose", "env"}
Contents  == Requests \cup {Original, Absent}
Projects  == {"none", "running", "exited"}
Commands  == RunKinds \cup {"pull", "none"}
Answers   == {"none", "ok", "busy", "error", "lost"}
SavePcs   == {"stat", "mkdir", "write_compose", "rename_compose",
              "write_env", "rename_env"}
\* Positions between a successful TryLock and the deferred Unlock.
OwnedPcs  == {"args", "spawn", "exec", "ls", "del_stat", "del_scan",
              "del_files", "unlock"}
Pcs       == {"idle", "lock", "done"} \cup SavePcs \cup OwnedPcs
\* A directory entry: a temp file of a request or, under NoRequest, f itself.
Entries   == (Requests \cup {NoRequest}) \X FileNames

TypeOK == /\ dir \subseteq Stacks
          /\ file \in [Stacks -> [FileNames -> Contents]]
          /\ tmp \in [Stacks -> SUBSET (Requests \X FileNames)]
          /\ globalEnv \in BOOLEAN
          /\ docker \in [Stacks -> Projects]
          /\ users \in [Stacks -> SUBSET Requests]
          /\ crashes \in 0..MaxCrashes
          /\ kind \in [Requests -> AllKinds]
          /\ stack \in [Requests -> Stacks]
          /\ pc \in [Requests -> Pcs]
          /\ cmd \in [Requests -> Commands]
          /\ envFlag \in [Requests -> BOOLEAN]
          /\ todo \in [Requests -> SUBSET Entries]
          /\ res \in [Requests -> Answers]
          /\ saved \subseteq Requests

NoFiles   == [f \in FileNames |-> Absent]
\* A stack is not there, or was saved earlier (and perhaps brought up), or a save
\* of it failed before it had written its .env.
Init == /\ dir \in SUBSET Stacks
        /\ \E written \in [dir -> {{"compose"}, FileNames}] :
             file = [s \in Stacks |-> IF s \in dir
                       THEN [f \in FileNames |-> IF f \in written[s] THEN Original ELSE Absent]
                       ELSE NoFiles]
        /\ tmp = [s \in Stacks |-> {}]
        /\ globalEnv \in BOOLEAN
        /\ docker \in [Stacks -> Projects]
        /\ \A s \in Stacks \ dir : docker[s] = "none"
        /\ users = [s \in Stacks |-> {}]
        /\ crashes = 0
        /\ kind \in {[r \in Requests |-> "up"]}
        /\ \E s \in Stacks : stack = [r \in Requests |-> s]
        /\ pc = [r \in Requests |-> "idle"]
        /\ cmd = [r \in Requests |-> "none"]
        /\ envFlag = [r \in Requests |-> FALSE]
        /\ todo = [r \in Requests |-> {}]
        /\ res = [r \in Requests |-> "none"]
        /\ saved = {}

Goto(r, from, to) == pc[r] = from /\ pc' = [pc EXCEPT ![r] = to]
Answer(r, a)      == res' = [res EXCEPT ![r] = a]
\* Return from an operation that holds no lock.
Return(r, from, a) == Goto(r, from, "done") /\ Answer(r, a)

DirEntries(s) ==
    tmp[s] \cup {<<NoRequest, f>> : f \in {g \in FileNames : file[s][g] # Absent}}

\* What a successful `docker compose c` does to a project in state p; a
\* project that comes up may have containers that exit at once.
Effect(c, p) ==
    CASE c \in {"up", "recreate"} -> {"running", "exited"}
      [] c = "restart" -> IF p = "none" THEN {"none"} ELSE {"running", "exited"}
      [] c = "stop"    -> IF p = "none" THEN {"none"} ELSE {"exited"}
      [] c = "down"    -> {"none"}
      [] OTHER         -> {p}

-----------------------------------------------------------------------------
(* Requests arrive. *)

FirstPc(k) == IF k \in SaveKinds \cup {"deploy_add", "deploy_update"}
                THEN "stat" ELSE "lock"

FirstCmd(k) == CASE k \in RunKinds    -> k
                 [] k \in DeployKinds -> "up"
                 [] k = "pull_up"     -> "pull"
                 [] k = "delete"      -> "down"
                 [] OTHER             -> "none"

Start(r, k, s) == /\ Goto(r, "idle", FirstPc(k))
                  /\ kind' = [kind EXCEPT ![r] = k]
                  /\ stack' = [stack EXCEPT ![r] = s]
                  /\ cmd' = [cmd EXCEPT ![r] = FirstCmd(k)]
                  /\ UNCHANGED <<disk, docker, users, crashes, envFlag, todo,
                                 res, saved>>

-----------------------------------------------------------------------------
(* SaveStack: stat, mkdir, then each file by a temp file and a rename. *)

Adding(r) == kind[r] \in {"add", "deploy_add"}

\* os.Stat(dir): an add wants no directory, an update wants one.
StatDir(r) ==
    /\ IF (stack[r] \in dir) = Adding(r)
         THEN Return(r, "stat", "error")
         ELSE /\ Goto(r, "stat", IF Adding(r) THEN "mkdir" ELSE "write_compose")
              /\ UNCHANGED res
    /\ UNCHANGED <<disk, docker, users, crashes, locals, saved>>

\* os.MkdirAll(dir), which succeeds when the directory exists by now.
MkdirAll(r) ==
    /\ Goto(r, "mkdir", "write_compose")
    /\ dir' = dir \cup {stack[r]}
    /\ UNCHANGED <<file, tmp, globalEnv, docker, users, crashes, locals, res, saved>>

WritePc(f)  == IF f = "compose" THEN "write_compose" ELSE "write_env"
RenamePc(f) == IF f = "compose" THEN "rename_compose" ELSE "rename_env"

\* os.CreateTemp in the stack directory, then write, chmod and close.
WriteTemp(r, f) ==
    LET s == stack[r]
    IN  /\ s \in dir
        /\ Goto(r, WritePc(f), RenamePc(f))
        /\ tmp' = [tmp EXCEPT ![s] = @ \cup {<<r, f>>}]
        /\ UNCHANGED <<dir, file, globalEnv, docker, users, crashes, locals, res, saved>>

\* os.Rename over the file.  compose.yaml comes first; after .env SaveStack
\* returns nil, and a deploy goes on to its goroutine.
RenameTemp(r, f) ==
    LET s    == stack[r]
        last == f = "env"
    IN  /\ <<r, f>> \in tmp[s]
        /\ file' = [file EXCEPT ![s][f] = r]
        /\ tmp' = [tmp EXCEPT ![s] = @ \ {<<r, f>>}]
        /\ saved' = IF last THEN saved \cup {r} ELSE saved
        /\ IF last /\ kind[r] \in SaveKinds
             THEN Return(r, RenamePc(f), "ok")
             ELSE /\ Goto(r, RenamePc(f), IF last THEN "lock" ELSE "write_env")
                  /\ UNCHANGED res
        /\ UNCHANGED <<dir, globalEnv, docker, users, crashes, locals>>

\* Mutant: a failed save removes the files it finds, to leave no half stack.
FailedSaveCleansUp(r) ==
    /\ \E p \in SavePcs \ {"stat"} : Return(r, p, "error")
    /\ tmp' = [tmp EXCEPT ![stack[r]] = {t \in @ : t[1] # r}]
    /\ file' = [file EXCEPT ![stack[r]]["compose"] = Absent]
    /\ UNCHANGED <<dir, globalEnv, docker, users, crashes, locals, saved>>

\* Mutant: the error of writing .env is dropped.
EnvErrorIgnored(r) ==
    /\ \E p \in SavePcs \ {"stat"} :
          /\ Return(r, p, IF p \in {"write_env", "rename_env"} THEN "ok" ELSE "error")
          /\ saved' = IF p \in {"write_env", "rename_env"} THEN saved \cup {r} ELSE saved
    /\ tmp' = [tmp EXCEPT ![stack[r]] = {t \in @ : t[1] # r}]
    /\ UNCHANGED <<dir, file, globalEnv, docker, users, crashes, locals>>

\* Any of these system calls fails: the directory or the temp file is gone,
\* or the disk is full.  The deferred os.Remove drops the temp file; what was
\* created or renamed before stays.
SaveFails(r) ==
    /\ \E p \in SavePcs \ {"stat"} : Return(r, p, "error")
    /\ tmp' = [tmp EXCEPT ![stack[r]] = {t \in @ : t[1] # r}]
    /\ UNCHANGED <<dir, file, globalEnv, docker, users, crashes, locals, saved>>

-----------------------------------------------------------------------------
(* Compose commands, under the lock. *)

\* Mutant: TryLock grants a held stack.
GrantAlways(r) ==
    /\ users' = [users EXCEPT ![stack[r]] = @ \cup {r}]
    /\ Goto(r, "lock", IF kind[r] = "delete" THEN "del_stat" ELSE "args")
    /\ UNCHANGED <<disk, docker, crashes, locals, res, saved>>

\* Mutant: StackDelete does not respect the lock.
DeleteWithoutLock(r) ==
    LET s == stack[r]
    IN  /\ IF users[s] = {} \/ kind[r] = "delete"
             THEN /\ users' = [users EXCEPT ![s] = @ \cup {r}]
                  /\ Goto(r, "lock", IF kind[r] = "delete" THEN "del_stat" ELSE "args")
                  /\ UNCHANGED res
             ELSE Return(r, "lock", "busy") /\ UNCHANGED users
        /\ UNCHANGED <<disk, docker, crashes, locals, saved>>

\* TryLock: granted only when nobody holds the stack, else "another operation
\* is already running".
TryLock(r) ==
    LET s == stack[r]
    IN  /\ IF users[s] = {}
             THEN /\ users' = [users EXCEPT ![s] = {r}]
                  /\ Goto(r, "lock", IF kind[r] = "delete" THEN "del_stat" ELSE "args")
                  /\ UNCHANGED res
             ELSE Return(r, "lock", "busy") /\ UNCHANGED users
        /\ UNCHANGED <<disk, docker, crashes, locals, saved>>

\* StackComposeArgs looks for global.env and for the stack's .env.
ComposeArgs(r) ==
    /\ Goto(r, "args", "spawn")
    /\ envFlag' = [envFlag EXCEPT
                     ![r] = globalEnv /\ file[stack[r]]["env"] # Absent]
    /\ UNCHANGED <<disk, docker, users, crashes, kind, stack, cmd, todo, res, saved>>

\* Mutant: a failed command returns without giving the lock back.
FailedCommandKeepsLock(r, from, ok) ==
    IF kind[r] = "delete" THEN Goto(r, from, "del_scan") /\ UNCHANGED res
    ELSE IF ok /\ cmd[r] = "pull" THEN Goto(r, from, "ls") /\ UNCHANGED res
    ELSE Goto(r, from, IF ok THEN "unlock" ELSE "done")
         /\ Answer(r, IF ok THEN "ok" ELSE "error")

\* What the operation does when its command has ended: a delete ignores the
\* outcome, an update lists the projects after its pull, the others unlock.
AfterCommand(r, from, ok) ==
    IF kind[r] = "delete" THEN Goto(r, from, "del_scan") /\ UNCHANGED res
    ELSE IF ok /\ cmd[r] = "pull" THEN Goto(r, from, "ls") /\ UNCHANGED res
    ELSE Goto(r, from, "unlock") /\ Answer(r, IF ok THEN "ok" ELSE "error")

\* The command can read its files: it starts in the stack's directory, finds
\* the compose file, and the env file its arguments name.
Runnable(r) == LET s == stack[r]
               IN  /\ s \in dir
                   /\ file[s]["compose"] # Absent
                   /\ envFlag[r] => file[s]["env"] # Absent

Spawn(r) ==
    /\ IF Runnable(r) THEN Goto(r, "spawn", "exec") /\ UNCHANGED res
                      ELSE AfterCommand(r, "spawn", FALSE)
    /\ UNCHANGED <<disk, docker, users, crashes, locals, saved>>

\* The command ends; a failed or killed one may have had its effect.
CommandEnds(r, ok) ==
    LET s == stack[r]
    IN  /\ \/ docker' = docker /\ ~ok
           \/ \E p \in Effect(cmd[r], docker[s]) : docker' = [docker EXCEPT ![s] = p]
        /\ AfterCommand(r, "exec", ok)
        /\ UNCHANGED <<disk, users, crashes, locals, saved>>

\* StackUpdate after its pull: `docker compose ls`, whose failure counts as
\* "not running", and up only for a running project.
ListProjects(r, listed) ==
    /\ IF listed /\ docker[stack[r]] = "running"
         THEN /\ Goto(r, "ls", "args")
              /\ cmd' = [cmd EXCEPT ![r] = "up"]
              /\ UNCHANGED res
         ELSE Goto(r, "ls", "unlock") /\ Answer(r, "ok") /\ UNCHANGED cmd
    /\ UNCHANGED <<disk, docker, users, crashes, kind, stack, envFlag, todo, saved>>

\* StackDelete runs `down --remove-orphans` only in an existing directory.
StatForDelete(r) ==
    /\ Goto(r, "del_stat", IF stack[r] \in dir THEN "args" ELSE "del_scan")
    /\ UNCHANGED <<disk, docker, users, crashes, locals, res, saved>>

\* os.RemoveAll: read the directory, unlink what was read, remove it.
ScanDir(r) ==
    LET s == stack[r]
    IN  /\ IF s \in dir
             THEN /\ Goto(r, "del_scan", "del_files")
                  /\ todo' = [todo EXCEPT ![r] = DirEntries(s)]
                  /\ UNCHANGED res
             ELSE Goto(r, "del_scan", "unlock") /\ Answer(r, "ok") /\ UNCHANGED todo
        /\ UNCHANGED <<disk, docker, users, crashes, kind, stack, cmd, envFlag, saved>>

RemoveEntry(r, e) ==
    LET s == stack[r]
    IN  /\ pc[r] = "del_files" /\ e \in todo[r]
        /\ todo' = [todo EXCEPT ![r] = @ \ {e}]
        /\ tmp' = [tmp EXCEPT ![s] = @ \ {e}]
        /\ file' = IF e[1] = NoRequest THEN [file EXCEPT ![s][e[2]] = Absent]
                                       ELSE file
        /\ UNCHANGED <<dir, globalEnv, docker, users, crashes, pc, kind, stack,
                       cmd, envFlag, res, saved>>

\* The directory itself: ENOTEMPTY when something was written meanwhile.
RemoveDir(r) ==
    LET s == stack[r]
        empty == DirEntries(s) = {}
    IN  /\ todo[r] = {}
        /\ Goto(r, "del_files", "unlock")
        /\ dir' = IF empty THEN dir \ {s} ELSE dir
        /\ Answer(r, IF empty THEN "ok" ELSE "error")
        /\ UNCHANGED <<file, tmp, globalEnv, docker, users, crashes, locals, saved>>

\* The deferred Unlock, after which the answer leaves.
Unlock(r) ==
    /\ Goto(r, "unlock", "done")
    /\ users' = [users EXCEPT ![stack[r]] = @ \ {r}]
    /\ UNCHANGED <<disk, docker, crashes, locals, res, saved>>

-----------------------------------------------------------------------------
(* Everything else that happens. *)

\* SetGlobalEnv: one rename makes global.env visible; nothing removes it.
SetGlobalEnv == /\ globalEnv' = TRUE
                /\ UNCHANGED <<dir, file, tmp, docker, users, crashes, pc, locals,
                               res, saved>>

\* Containers exit by themselves, or are started and stopped one by one.
ProjectMoves(s) ==
    /\ docker[s] # "none"
    /\ \E p \in {"running", "exited"} : docker' = [docker EXCEPT ![s] = p]
    /\ UNCHANGED <<disk, users, crashes, pc, locals, res, saved>>

\* The agent dies with its requests, its lock table and the commands it
\* started, and comes back; the disk stays as it was.
Crash ==
    /\ crashes < MaxCrashes
    /\ crashes' = crashes + 1
    /\ users' = [s \in Stacks |-> {}]
    /\ LET flying == {r \in Requests : pc[r] \notin {"idle", "done"}}
       IN  /\ pc' = [r \in Requests |-> IF r \in flying THEN "done" ELSE pc[r]]
           /\ res' = [r \in Requests |-> IF r \in flying THEN "lost" ELSE res[r]]
    /\ docker' \in [Stacks -> Projects]
    /\ \A s \in Stacks :
          \/ docker'[s] = docker[s]
          \/ \E r \in Requests : /\ pc[r] = "exec" /\ stack[r] = s
                                 /\ docker'[s] \in Effect(cmd[r], docker[s])
    /\ UNCHANGED <<disk, locals, saved>>

Step(r) == \/ StatDir(r) \/ MkdirAll(r) \/ SaveFails(r)
           \/ \E f \in FileNames : WriteTemp(r, f) \/ RenameTemp(r, f)
           \/ TryLock(r) \/ ComposeArgs(r) \/ Spawn(r)
           \/ \E b \in BOOLEAN : CommandEnds(r, b) \/ ListProjects(r, b)
           \/ StatForDelete(r) \/ ScanDir(r) \/ RemoveDir(r)
           \/ \E e \in todo[r] : RemoveEntry(r, e)
           \/ Unlock(r)

Next == \/ \E r \in Requests : \/ Step(r)
                               \/ \E k \in Kinds, s \in Stacks : Start(r, k, s)
        \/ SetGlobalEnv
        \/ \E s \in Stacks : ProjectMoves(s)
        \/ Crash

Spec == Init /\ [][Next]_vars

-----------------------------------------------------------------------------
(***************************************************************************)
(* Properties                                                              *)
(***************************************************************************)
\* Two operations never run compose commands, or delete, on one stack at the
\* same time, before and after crashes (stack_store.go:516-519, 567-570,
\* 598-601; bridge.go:45-48).
OneOperation ==
    \A r, q \in Requests :
        /\ pc[r] \in OwnedPcs /\ pc[q] \in OwnedPcs
        /\ stack[r] = stack[q]
        => r = q

\* The parts of the inductive invariant, first about the lock.
\* The lock of a stack is held by the requests inside an operation on it...
LockHeldInside ==
    \A s \in Stacks :
        users[s] = {r \in Requests : pc[r] \in OwnedPcs /\ stack[r] = s}
\* ... and by one at a time.
OneUser == \A s \in Stacks : \A r, q \in users[s] : r = q
LockInv == TypeOK /\ LockHeldInside /\ OneUser

\* While an operation owns a stack, no other request changes its project or
\* takes a file away from it; saves may replace files, containers may exit.
OwnerUndisturbed ==
    [][\A s \in Stacks, q \in Requests :
          /\ users[s] # {} /\ q \notin users[s]
          /\ pc'[q] # pc[q] \/ todo'[q] # todo[q]
          /\ crashes' = crashes
          => /\ docker'[s] = docker[s]
             /\ s \in dir => s \in dir'
             /\ \A f \in FileNames :
                    file[s][f] # Absent => file'[s][f] # Absent]_vars

\* The env file named by the arguments that StackComposeArgs built is still
\* there when the command starts (stack_store.go:292-303 against 520-521).
FlaggedEnvExists ==
    \A r \in Requests :
        pc[r] = "spawn" /\ envFlag[r] => file[stack[r]]["env"] # Absent

\* A stack directory holds an .env without a compose file only when a delete
\* took the compose file away: neither a failed save, nor a crash between the
\* two renames, nor concurrent saves leave one (stack_store.go:226-231).
Deleting(s) == \E r \in Requests : kind[r] = "delete" /\ stack[r] = s
EnvOnlyAfterDelete ==
    \A s \in Stacks :
        file[s]["env"] # Absent /\ file[s]["compose"] = Absent => Deleting(s)

SavingKinds == SaveKinds \cup {"deploy_add", "deploy_update"}
Writers == SavingKinds \cup {"delete"}
AloneWriting(r) ==
    \A q \in Requests \ {r} :
        pc[q] # "idle" /\ stack[q] = stack[r] => kind[q] \notin Writers

\* A SaveStack that returned nil left both of its files on disk, whatever
\* ran, failed or crashed beside and after it, as long as no other request
\* saved or deleted the stack (stack_store.go:194-233).
SavedIsOnDisk ==
    \A r \in saved : AloneWriting(r) => \A f \in FileNames : file[stack[r]][f] = r

\* The parts of the inductive invariant that are about files.  Which operation
\* is where...
Roles ==
    \A r \in Requests :
        /\ pc[r] = "idle" => kind[r] = "up"
        /\ pc[r] \in SavePcs \/ r \in saved => kind[r] \in SavingKinds
        /\ r \in saved => pc[r] \notin SavePcs
        /\ pc[r] \in {"del_stat", "del_scan", "del_files"} => kind[r] = "delete"
\* ... and what a save may rely on that has renamed its compose file.
ComposeIsWritten ==
    \A r \in Requests : pc[r] \in {"write_env", "rename_env"} =>
        /\ file[stack[r]]["compose"] # Absent \/ Deleting(stack[r])
        /\ AloneWriting(r) => file[stack[r]]["compose"] = r

\* What the requests of the store keep between them: the inductive invariant.
StoreInv == LockInv /\ Roles /\ ComposeIsWritten /\ EnvOnlyAfterDelete /\ SavedIsOnDisk

\* Not kept: "isAdd=true requires the directory to not exist yet"
\* (stack_store.go:195), that is, of the adds of a stack that nobody deletes,
\* one succeeds.  StatDir and MkdirAll are two steps, without the lock.
OneAddSucceeds ==
    \A r, q \in saved :
        /\ Adding(r) /\ Adding(q) /\ stack[r] = stack[q]
        /\ \A d \in Requests : kind[d] # "delete"
        => r = q

\* Not kept: "SaveStack validates and persists a stack's compose file and
\* .env" (stack_store.go:194), that is, when every save has returned nil and nothing was
\* deleted or lost, the two files on disk are those of one save.  The files
\* are renamed one after the other, without the lock.
PairOfOneSave ==
    \A s \in Stacks :
        /\ \A r \in Requests : pc[r] \notin {"idle", "done"} => kind[r] \notin Writers
        /\ \A r \in Requests :
              pc[r] = "done" /\ kind[r] \in Writers => r \in saved
        => file[s]["compose"] = file[s]["env"]

\* The store uses the abstract per-stack lock as it is meant to be used: an
\* operation is granted a free stack, refused an owned one, and gives back what
\* it was granted, unless the agent dies with it (stack_store.go:508-519,
\* 556-606).
Verdict == [r \in Requests |->
              IF pc[r] \in OwnedPcs THEN "granted"
              ELSE IF pc[r] = "done" /\ res[r] = "busy" THEN "busy" ELSE "none"]
Mutex == INSTANCE StackMutex
             WITH Callers <- Requests, users <- users, verdict <- Verdict,
                  MayRestart <- MaxCrashes > 0
MutexSpec == Mutex!Spec
=============================================================================
