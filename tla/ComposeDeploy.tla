---------------------------- MODULE ComposeDeploy ----------------------------
(***************************************************************************)
(* The deploys of one compose project through the Docker API, and the      *)
(* requests that stop, remove and relabel it.  Nothing serialises them:    *)
(* what keeps two deploys apart is that Docker refuses a second container  *)
(* of one name.                                                            *)
(*                                                                         *)
(* A compose file is the request it came from and whether it carries the   *)
(* auto-update label; a container is known by its service and the request  *)
(* that created it, which stand for its name and its ID.                   *)
(***************************************************************************)
EXTENDS Naturals, FiniteSets

CONSTANTS Requests, Services,
          Deps,        \* depends_on, without circles
          Kinds,       \* kinds of requests that arrive
          Labels,      \* what toggles set the auto-update label to
          CanFail,     \* calls that may fail of themselves
          MaxCrashes,  \* bound on restarts of the agent
          NoFile,
          Torn         \* a file that is being written, or was left in the middle of it

ASSUME DepsAssumption == Deps \in [Services -> SUBSET Services]
ASSUME KindsAssumption ==
  /\ Kinds \subseteq {"deploy", "stream", "toggle", "update", "stop", "remove"}
  /\ CanFail \subseteq {"parse", "pull", "write", "create", "start", "remove",
                        "list", "read", "stop"}
  /\ Labels \subseteq BOOLEAN /\ MaxCrashes \in Nat

VARIABLES file,        \* docker-compose.yml of the project
          containers,  \* of the project, on the Docker daemon
          pc, kind, answer,
          doc,         \* the compose file a request works with
          todo,        \* services of its start order still to come
          cur,         \* the service it is at
          made,        \* createdContainers: services it has started
          seen,        \* result.Items: containers it was given by the daemon
          done,        \* those of seen it has dealt with
          refused,     \* history: containers that Docker did not remove
          crashes

daemon == <<file, containers>>
request == <<kind, answer, doc, todo, cur, made, seen, done>>
vars == <<daemon, request, pc, crashes, refused>>

Docs   == [by : Requests, auto : BOOLEAN]
Files  == Docs \cup {NoFile, Torn}
ASSUME FilesAssumption == NoFile # Torn /\ Docs \cap {NoFile, Torn} = {}

NoSvc  == "none"
Ids    == Services \X Requests
Containers == [svc : Services, by : Requests, doc : Docs, up : BOOLEAN]

Id(c) == <<c.svc, c.by>>
Named(s) == {c \in containers : c.svc = s}

Deploying == {"deploy", "stream", "toggle", "update"}
Pcs == {"idle", "parse", "pull", "write", "fill", "pick", "create", "start", "cleanup",
        "resolve", "read", "save", "saving", "list", "each", "rmdir", "end"}

TypeOK == /\ file \in Files
          /\ containers \subseteq Containers
          /\ \A c, d \in containers : c.svc = d.svc => c = d
          /\ pc \in [Requests -> Pcs]
          /\ kind \in [Requests -> Kinds \cup {NoSvc}]
          /\ answer \in [Requests -> {"none", "ok", "failed"}]
          /\ doc \in [Requests -> Files]
          /\ todo \in [Requests -> SUBSET Services]
          /\ cur \in [Requests -> Services \cup {NoSvc}]
          /\ made \in [Requests -> SUBSET Services]
          /\ seen \in [Requests -> SUBSET Ids]
          /\ done \in [Requests -> SUBSET Ids]
          /\ crashes \in 0..MaxCrashes
          /\ refused \subseteq Ids

Init == /\ file = NoFile /\ containers = {}
        /\ pc = [r \in Requests |-> "idle"]
        /\ kind = [r \in Requests |-> NoSvc]
        /\ answer = [r \in Requests |-> "none"]
        /\ doc = [r \in Requests |-> NoFile]
        /\ todo = [r \in Requests |-> {}]
        /\ cur = [r \in Requests |-> NoSvc]
        /\ made = [r \in Requests |-> {}]
        /\ seen = [r \in Requests |-> {}] /\ done = [r \in Requests |-> {}]
        /\ crashes = 0
        /\ refused = {}

At(r, p)   == pc[r] = p /\ UNCHANGED <<kind, crashes, refused>>
Goto(r, p) == pc' = [pc EXCEPT ![r] = p]
End(r, a)  == Goto(r, "end") /\ answer' = [answer EXCEPT ![r] = a]

local == <<doc, todo, cur, made, seen, done>>

\* Reading, pulling and listing change nothing if they fail.
Fails(r) == /\ \/ pc[r] \in {"parse", "pull", "list", "read"} \cap CanFail
               \/ pc[r] = "resolve" /\ "list" \in CanFail
            /\ End(r, "failed")
            /\ UNCHANGED <<daemon, kind, local, crashes, refused>>

-----------------------------------------------------------------------------
(* Arrival, and how a request comes by its compose file. *)

Start(r, k) ==
    /\ pc[r] = "idle"
    /\ kind' = [kind EXCEPT ![r] = k]
    /\ doc' = [doc EXCEPT ![r] = IF k \in {"deploy", "stream"}
                                   THEN [by |-> r, auto |-> FALSE] ELSE NoFile]
    /\ Goto(r, CASE k = "deploy" -> "write"
                 [] k = "stream" -> "parse"
                 [] k \in {"toggle", "update"} -> "resolve"
                 [] OTHER -> "list")
    /\ UNCHANGED <<daemon, answer, todo, cur, made, seen, done, crashes, refused>>

\* ListContainersWithLabel: an app without containers is not found.
Resolve(r) == /\ At(r, "resolve")
              /\ \/ containers # {} /\ Goto(r, "read") /\ UNCHANGED answer
                 \/ containers = {} /\ End(r, "failed")
              /\ UNCHANGED <<daemon, local>>

\* The file the label names, with the new label if this is a toggle: a file
\* that is truncated has no services to label.
ReadFile(r) ==
    /\ At(r, "read")
    /\ \/ /\ kind[r] = "update" /\ file # NoFile
          /\ doc' = [doc EXCEPT ![r] = file]
          /\ Goto(r, "write") /\ UNCHANGED answer
       \/ /\ kind[r] = "toggle" /\ file \in Docs
          /\ \E auto \in Labels : doc' = [doc EXCEPT ![r] = [file EXCEPT !.auto = auto]]
          /\ Goto(r, "save") /\ UNCHANGED answer
       \/ /\ file \in IF kind[r] = "toggle" THEN {NoFile, Torn} ELSE {NoFile}
          /\ End(r, "failed") /\ UNCHANGED doc
    /\ UNCHANGED <<daemon, todo, cur, made, seen, done>>

\* os.WriteFile truncates the file and then writes d to it.  A file that was
\* removed in between is written in vain; two that are written to at once may
\* be mixed.
Opened    == file' = Torn
Filled(d) == file' \in IF file = NoFile THEN {NoFile}
                       ELSE {d} \cup (IF file \in Docs THEN {Torn} ELSE {})
HalfFilled == "write" \in CanFail /\ file' \in IF file = NoFile THEN {NoFile} ELSE {file, Torn}

\* A toggle goes on whether the file could be written or not; without its
\* directory it is not created.
Save(r) ==
    /\ \/ /\ At(r, "save")
          /\ \/ file # NoFile /\ Opened /\ Goto(r, "saving")
             \/ (file = NoFile \/ "write" \in CanFail) /\ UNCHANGED file /\ Goto(r, "write")
       \/ At(r, "saving") /\ (Filled(doc[r]) \/ HalfFilled) /\ Goto(r, "write")
    /\ UNCHANGED <<containers, answer, local>>

-----------------------------------------------------------------------------
(* The deploy. *)

\* writeComposeFile: before the file is parsed, or, streamed, after every
\* image was pulled.
Write(r) ==
    /\ \/ /\ At(r, "write")
          /\ \/ Opened /\ Goto(r, "fill") /\ UNCHANGED answer
             \/ "write" \in CanFail /\ UNCHANGED file /\ End(r, "failed")
       \/ /\ At(r, "fill")
          /\ \/ /\ Filled(doc[r])
                /\ Goto(r, IF kind[r] = "stream" THEN "pick" ELSE "parse")
                /\ UNCHANGED answer
             \/ HalfFilled /\ End(r, "failed")
    /\ UNCHANGED <<containers, local>>

Parse(r) ==
    /\ At(r, "parse")
    /\ \/ /\ doc[r] \in Docs
          /\ todo' = [todo EXCEPT ![r] = Services]
          /\ Goto(r, IF kind[r] = "stream" THEN "pull" ELSE "pick")
          /\ UNCHANGED answer
       \/ doc[r] \notin Docs /\ End(r, "failed") /\ UNCHANGED todo
    /\ UNCHANGED <<daemon, doc, cur, made, seen, done>>

\* The next service of the start order; the deploy is complete after the last.
Pick(r) ==
    /\ At(r, "pick")
    /\ \/ \E s \in todo[r] :
            /\ Deps[s] \cap todo[r] = {}
            /\ todo' = [todo EXCEPT ![r] = @ \ {s}]
            /\ cur' = [cur EXCEPT ![r] = s]
            /\ Goto(r, IF kind[r] = "stream" THEN "create" ELSE "pull")
            /\ UNCHANGED answer
       \/ todo[r] = {} /\ End(r, "ok") /\ UNCHANGED <<todo, cur>>
    /\ UNCHANGED <<daemon, doc, made, seen, done>>

\* Mutant: a streamed deploy does not save its compose file.
PullThenCreate(r) ==
    /\ At(r, "pull")
    /\ Goto(r, IF kind[r] = "stream" THEN "pick" ELSE "create")
    /\ UNCHANGED <<daemon, answer, local>>

\* One image, or, streamed, the images of all services.
Pull(r) == /\ At(r, "pull")
           /\ Goto(r, IF kind[r] = "stream" THEN "write" ELSE "create")
           /\ UNCHANGED <<daemon, answer, local>>

\* A deploy that fails leaves its loop over the services.
LeaveLoop(r) == todo' = [todo EXCEPT ![r] = {}] /\ cur' = [cur EXCEPT ![r] = NoSvc]

\* Mutant: a streamed deploy that fails leaves what it has started.
GiveUpAtOnce(r) == LeaveLoop(r) /\ End(r, "failed")

\* Only a streamed deploy takes back what it has started.
GiveUp(r) ==
    /\ LeaveLoop(r)
    /\ \/ kind[r] = "stream" /\ made[r] # {} /\ Goto(r, "cleanup") /\ UNCHANGED answer
       \/ ~(kind[r] = "stream" /\ made[r] # {}) /\ End(r, "failed")

\* Docker refuses a second container of one name.
Create(r) ==
    /\ At(r, "create")
    /\ \/ /\ Named(cur[r]) = {}
          /\ containers' = containers \cup
               {[svc |-> cur[r], by |-> r, doc |-> doc[r], up |-> FALSE]}
          /\ Goto(r, "start") /\ UNCHANGED <<answer, todo, cur>>
       \/ /\ Named(cur[r]) # {} \/ "create" \in CanFail
          /\ GiveUp(r) /\ UNCHANGED containers
    /\ UNCHANGED <<file, doc, made, seen, done>>

\* A container that is gone by now cannot be started.
StartContainer(r) ==
    /\ At(r, "start")
    /\ \/ \E c \in containers :
            /\ Id(c) = <<cur[r], r>>
            /\ containers' = (containers \ {c}) \cup {[c EXCEPT !.up = TRUE]}
            /\ made' = [made EXCEPT ![r] = @ \cup {cur[r]}]
            /\ cur' = [cur EXCEPT ![r] = NoSvc]
            /\ Goto(r, "pick") /\ UNCHANGED <<answer, todo>>
       \/ /\ "start" \in CanFail \/ \A c \in containers : Id(c) # <<cur[r], r>>
          /\ GiveUp(r) /\ UNCHANGED <<containers, made>>
    /\ UNCHANGED <<file, doc, seen, done>>

\* Mutant: the cleanup goes over the services of the project.
CleanupProject(r) ==
    /\ At(r, "cleanup")
    /\ \/ \E s \in Services :
            /\ containers' = containers \ Named(s)
            /\ made' = [made EXCEPT ![r] = @ \ {s}]
            /\ UNCHANGED <<pc, answer>>
       \/ made[r] = {} /\ End(r, "failed") /\ UNCHANGED <<containers, made>>
    /\ UNCHANGED <<file, doc, todo, cur, seen, done>>

\* Containers are removed by name; errors are ignored.
Cleanup(r) ==
    /\ pc[r] = "cleanup"
    /\ \/ \E s \in made[r] :
            /\ \/ containers' = containers \ Named(s) /\ UNCHANGED refused
               \/ /\ "remove" \in CanFail /\ UNCHANGED containers
                  /\ refused' = refused \cup {Id(c) : c \in Named(s)}
            /\ made' = [made EXCEPT ![r] = @ \ {s}]
            /\ UNCHANGED <<pc, answer>>
       \/ /\ made[r] = {} /\ End(r, "failed")
          /\ UNCHANGED <<containers, made, refused>>
    /\ UNCHANGED <<file, kind, doc, todo, cur, seen, done, crashes>>

-----------------------------------------------------------------------------
(* StopCompose and RemoveCompose. *)

\* All containers with the label of the project, stopped ones included.
List(r) ==
    /\ At(r, "list")
    /\ seen' = [seen EXCEPT ![r] = {Id(c) : c \in containers}]
    /\ Goto(r, "each")
    /\ UNCHANGED <<daemon, answer, doc, todo, cur, made, done>>

\* One after the other, by ID; errors are ignored.
Each(r) ==
    /\ pc[r] = "each"
    /\ \/ \E i \in seen[r] \ done[r] :
            /\ LET these == {c \in containers : Id(c) = i}
               IN  \/ /\ kind[r] = "stop"
                      /\ containers' = (containers \ these)
                                         \cup {[c EXCEPT !.up = FALSE] : c \in these}
                      /\ UNCHANGED refused
                   \/ /\ kind[r] = "remove"
                      /\ containers' = containers \ these
                      /\ UNCHANGED refused
                   \/ /\ kind[r] \in CanFail /\ UNCHANGED containers
                      /\ refused' = IF kind[r] = "stop" THEN refused
                                    ELSE refused \cup {i}
            /\ done' = [done EXCEPT ![r] = @ \cup {i}]
            /\ UNCHANGED <<pc, answer>>
       \/ /\ seen[r] = done[r]
          /\ \/ kind[r] = "stop" /\ End(r, "ok")
             \/ kind[r] = "remove" /\ Goto(r, "rmdir") /\ UNCHANGED answer
          /\ UNCHANGED <<containers, done, refused>>
    /\ UNCHANGED <<file, kind, doc, todo, cur, made, seen, crashes>>

\* The error of os.RemoveAll is ignored as well.
RemoveDir(r) == /\ At(r, "rmdir")
                /\ file' \in {NoFile} \cup (IF "remove" \in CanFail THEN {file} ELSE {})
                /\ End(r, "ok")
                /\ UNCHANGED <<containers, local>>

\* The agent restarts: what was under way is gone, what is on disk and on the
\* daemon is not.
Crash == /\ crashes < MaxCrashes
         /\ crashes' = crashes + 1
         /\ pc' = [r \in Requests |-> IF pc[r] = "idle" THEN "idle" ELSE "end"]
         /\ UNCHANGED <<daemon, request, refused>>

Step(r) == \/ Fails(r) \/ Resolve(r) \/ ReadFile(r) \/ Save(r)
           \/ Write(r) \/ Parse(r) \/ Pick(r) \/ Pull(r)
           \/ Create(r) \/ StartContainer(r) \/ Cleanup(r)
           \/ List(r) \/ Each(r) \/ RemoveDir(r)

Next == \/ \E r \in Requests : Step(r) \/ \E k \in Kinds : Start(r, k)
        \/ Crash

Spec == Init /\ [][Next]_vars

-----------------------------------------------------------------------------
Owned(r, s) == \E c \in containers : c.svc = s /\ c.by = r

NobodyRemoves == \A r \in Requests : kind[r] # "remove"

(* A deploy that was answered as deployed keeps the containers of all its
   services, whatever other deploys of the project fail and take back
   meanwhile, as long as nobody removes the project. *)
DeployedStays ==
    NobodyRemoves => \A r \in Requests :
        kind[r] \in Deploying /\ answer[r] = "ok" => \A s \in Services : Owned(r, s)

(* A streamed deploy that was answered as failed leaves no container that it
   has started running, but for those that Docker would not remove. *)
FailedLeavesNoneRunning ==
    \A r \in Requests : kind[r] = "stream" /\ answer[r] = "failed" =>
        \A c \in containers : c.by = r /\ c.up => Id(c) \in refused

(* A container of the project has its compose file beside it, through crashes
   and failures of every step, as long as nobody removes the project: stop,
   relabel and update find it there. *)
ContainersHaveFile == NobodyRemoves /\ containers # {} => file # NoFile

(* RemoveCompose removes all containers of the project: those it was given are
   gone when it answers, but for those that Docker would not remove. *)
RemovedIsGone ==
    \A r \in Requests : kind[r] = "remove" /\ answer[r] = "ok" =>
        \A c \in containers : Id(c) \in seen[r] => Id(c) \in refused

-----------------------------------------------------------------------------
(* The inductive invariant behind these properties. *)

\* A deploy has not yet read its compose file; its loop over the services is
\* under way or ahead; it is at one of them.
BeforeParse(r) == \/ pc[r] \in {"idle", "resolve", "read", "save", "saving", "parse"}
                  \/ pc[r] \in {"write", "fill"} /\ kind[r] # "stream"
AtService(r) == \/ pc[r] \in {"create", "start"}
                \/ pc[r] = "pull" /\ kind[r] # "stream"
Looping(r)   == \/ AtService(r) \/ pc[r] = "pick"
                \/ pc[r] \in {"pull", "write", "fill"} /\ kind[r] = "stream"

\* The services r may yet create a container of.
Ahead(r) == IF BeforeParse(r) THEN Services
            ELSE IF ~Looping(r) THEN {}
            ELSE todo[r] \cup (IF AtService(r) /\ pc[r] # "start" THEN {cur[r]} ELSE {})

\* Which requests are where, and with which compose file.
Placed(r) ==
    /\ pc[r] = "idle" <=> kind[r] = NoSvc
    /\ answer[r] # "none" => pc[r] = "end"
    /\ pc[r] \in {"resolve", "read", "save", "saving"} => kind[r] \in {"toggle", "update"}
    /\ pc[r] \in {"write", "fill", "parse"} \/ Looping(r) => kind[r] \in Deploying
    /\ pc[r] = "cleanup" => kind[r] = "stream"
    /\ pc[r] \in {"list", "each"} => kind[r] \in {"stop", "remove"}
    /\ pc[r] = "rmdir" => kind[r] = "remove"
    /\ kind[r] = "stream" \/ pc[r] \in {"save", "saving"} \/ Looping(r) => doc[r] \in Docs
    /\ pc[r] \in {"write", "fill", "parse"} => doc[r] # NoFile

\* A deploy goes over its services once, and knows those it has started.
Progress(r) ==
    /\ AtService(r) => cur[r] \in Services \ todo[r]
    /\ Looping(r) => Services \subseteq
         todo[r] \cup made[r] \cup (IF AtService(r) THEN {cur[r]} ELSE {})
    /\ kind[r] \in Deploying /\ answer[r] = "ok" => Services \subseteq made[r]
    /\ \/ BeforeParse(r)
       \/ kind[r] = "stream" /\ (pc[r] \in {"pull", "write", "fill"} \/ answer[r] = "failed")
       => made[r] = {}

\* A removal deals with what it was given, and with nothing else.
Dealt(r) ==
    /\ done[r] \subseteq seen[r]
    /\ pc[r] \in {"idle", "list"} => done[r] = {}
    /\ pc[r] = "rmdir" \/ (kind[r] = "remove" /\ answer[r] = "ok") => seen[r] = done[r]
    /\ kind[r] = "remove" =>
         \A c \in containers : Id(c) \in done[r] => Id(c) \in refused

\* No container has the ID of one that is still to be created: an ID that a
\* request has been given never comes back.
IdsAreFresh == \A r \in Requests : \A s \in Ahead(r) :
                 /\ ~Owned(r, s)
                 /\ \A q \in Requests : <<s, r>> \notin seen[q]

\* What runs was started, and is known to its deploy until that takes it back.
RunningIsMade == \A c \in containers : c.up => c.svc \in made[c.by] \/ Id(c) \in refused

\* What a deploy has started is there, and nobody else's.
MadeIsOwned == NobodyRemoves => \A r \in Requests : \A s \in made[r] : Owned(r, s)

\* A deploy creates containers once it has written their file, which is there
\* from when it was opened.
Written(r) == \/ pc[r] \in {"fill", "pick", "create", "start"}
              \/ pc[r] \in {"parse", "pull"} /\ kind[r] # "stream"
FileIsWritten == NobodyRemoves /\ (\E r \in Requests : Written(r)) => file # NoFile

\* What the requests of a project keep: one container of a name (in TypeOK),
\* their compose file, and nothing that was removed.
ProjectInv == /\ TypeOK /\ ContainersHaveFile /\ RemovedIsGone
              /\ \A r \in Requests : Placed(r) /\ Progress(r) /\ Dealt(r)
              /\ IdsAreFresh /\ RunningIsMade /\ MadeIsOwned /\ FileIsWritten

(* Not kept: "redeploys so containers pick up the new label"
   (server/apps.go:16).  Create meets the containers that Resolve has found. *)
ToggleTakesEffect ==
    \A r \in Requests : kind[r] = "toggle" /\ doc[r] # NoFile /\ answer[r] # "none" =>
        \A c \in containers : c.doc.auto = doc[r].auto

(* Not kept: "Removed partial containers" (deploy_stream.go:113).  A container
   that was created and could not be started is not in made. *)
FailedLeavesNone ==
    \A r \in Requests : kind[r] = "stream" /\ answer[r] = "failed" =>
        \A c \in containers : c.by # r
=============================================================================
