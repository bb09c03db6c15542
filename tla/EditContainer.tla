---------------------------- MODULE EditContainer ----------------------------
(***************************************************************************)
(* EditContainer: requests that edit one container, each a series of calls *)
(* of the Docker daemon with nothing to keep two of them apart.  A name    *)
(* and limits are changed in place; an image, environment, ports and       *)
(* volumes need the container removed and created again from what an       *)
(* inspection of it returned.                                              *)
(*                                                                         *)
(* A configuration has a field of each kind, whose value is the request    *)
(* that set it.  A request the agent dies with is one that stops after     *)
(* any of its steps.                                                       *)
(***************************************************************************)
EXTENDS Naturals, FiniteSets

CONSTANTS Requests,
          CanFail,   \* Docker calls that may fail of themselves
          AutoRemove, \* whether the container has AutoRemove, which removes it once it
                     \* stops, and
          Taken      \* whether another has the other name: one or both of BOOLEAN

ASSUME EditAssumption ==
  /\ CanFail \subseteq {"rename", "update", "inspect", "stop", "remove", "create",
                        "start", "answer"}
  /\ AutoRemove \subseteq BOOLEAN /\ Taken \subseteq BOOLEAN

VARIABLES containers,  \* on the daemon
          nextId,
          pc, edit, answer,
          id,          \* fullID
          name,        \* containerName
          old          \* ctr: the container as recreateContainer inspected it

request == <<edit, answer, id, name, old>>
vars == <<containers, nextId, pc, request>>

\* memory: changed in place and copied; image: copied when recreated; labels:
\* copied, never edited; health: neither.
InPlace  == {"memory"}
Recreate == {"image"}
Copied   == {"memory", "image", "labels"}
Fields   == Copied \cup {"health"}

Names  == {"web", "api"}
NoName == "none"
Values == {"original", "default"} \cup Requests
Ids    == Nat \ {0}    \* never used again
\* first: the ID it had before all edits; was: whether it ran then; auto: its
\* AutoRemove.
Containers == [id : Ids, first : Ids, was : BOOLEAN, auto : BOOLEAN,
               name : Names, up : BOOLEAN, conf : [Fields -> Values]]
None   == [id |-> 0, auto |-> FALSE]
\* The container is named by its ID or by its name as it was.
Edits  == [by : {"id", "name"}, name : Names \cup {NoName},
           fields : SUBSET (InPlace \cup Recreate)]
NoEdit == [by |-> "id", name |-> NoName, fields |-> {}]

Steps == {"inspect", "rename", "update", "again", "stop", "remove", "create", "start",
          "answer"}

TypeOK == /\ containers \subseteq Containers
          /\ \A c, d \in containers : c.id = d.id \/ c.name = d.name => c = d
          /\ nextId \in Ids /\ \A c \in containers : c.id < nextId
          /\ pc \in [Requests -> Steps \cup {"idle", "end"}]
          /\ edit \in [Requests -> Edits]
          /\ answer \in [Requests -> Steps \cup {"none", "ok"}]
          /\ id \in [Requests -> Ids \cup {0}]
          /\ name \in [Requests -> Names \cup {NoName}]
          /\ old \in [Requests -> Containers \cup {None}]

Original(i, n, up, auto) ==
    [id |-> i, first |-> i, was |-> up, auto |-> auto, name |-> n, up |-> up,
     conf |-> [f \in Fields |-> "original"]]

Init == /\ \E up \in BOOLEAN, auto \in AutoRemove, taken \in Taken :
             containers = {Original(1, "web", up, auto)}
                            \cup (IF taken THEN {Original(2, "api", TRUE, FALSE)} ELSE {})
        /\ nextId = 3
        /\ pc = [r \in Requests |-> "idle"]
        /\ edit = [r \in Requests |-> NoEdit]
        /\ answer = [r \in Requests |-> "none"]
        /\ id = [r \in Requests |-> 0]
        /\ name = [r \in Requests |-> NoName]
        /\ old = [r \in Requests |-> None]

At(r, p)   == pc[r] = p /\ UNCHANGED edit
Goto(r, p) == pc' = [pc EXCEPT ![r] = p]
\* The answer says which call has failed.
Answer(r, a) == answer' = [answer EXCEPT ![r] = a] /\ Goto(r, "end")
Fail(r)      == Answer(r, pc[r])
Mine(r)      == {c \in containers : c.id = id[r]}
Recreates(r) == edit[r].fields \cap Recreate # {}

-----------------------------------------------------------------------------
Start(r) == /\ pc[r] = "idle"
            /\ \E e \in Edits : edit' = [edit EXCEPT ![r] = e]
            /\ Goto(r, "inspect")
            /\ UNCHANGED <<containers, nextId, answer, id, name, old>>

\* From here on the container is known by its full ID.
Inspect(r) ==
    /\ At(r, "inspect")
    /\ \/ \E c \in containers :
            /\ IF edit[r].by = "id" THEN c.id = 1 ELSE c.name = "web"
            /\ id' = [id EXCEPT ![r] = c.id]
            /\ name' = [name EXCEPT ![r] = c.name]
            /\ Goto(r, "rename") /\ UNCHANGED answer
       \/ /\ \/ "inspect" \in CanFail
             \/ \A c \in containers : IF edit[r].by = "id" THEN c.id # 1 ELSE c.name # "web"
          /\ Fail(r) /\ UNCHANGED <<id, name>>
    /\ UNCHANGED <<containers, nextId, old>>

\* Docker refuses a name that is taken, by the container itself too.
Rename(r) ==
    /\ At(r, "rename")
    /\ \/ /\ edit[r].name = NoName
          /\ Goto(r, "update") /\ UNCHANGED <<containers, answer, name>>
       \/ /\ edit[r].name # NoName
          /\ \E c \in Mine(r) :
               /\ \A d \in containers : d.name # edit[r].name
               /\ containers' = (containers \ {c}) \cup {[c EXCEPT !.name = edit[r].name]}
          /\ name' = [name EXCEPT ![r] = edit[r].name]
          /\ Goto(r, "update") /\ UNCHANGED answer
       \/ /\ edit[r].name # NoName
          /\ \/ "rename" \in CanFail \/ Mine(r) = {}
             \/ \E d \in containers : d.name = edit[r].name
          /\ Fail(r) /\ UNCHANGED <<containers, name>>
    /\ UNCHANGED <<nextId, id, old>>

Edited(r, fields, conf) == [f \in Fields |-> IF f \in fields \cap edit[r].fields
                                               THEN r ELSE conf[f]]
AfterUpdate(r) == IF Recreates(r) THEN "again" ELSE "answer"

Update(r) ==
    /\ At(r, "update")
    /\ \/ /\ edit[r].fields \cap InPlace = {}
          /\ Goto(r, AfterUpdate(r)) /\ UNCHANGED <<containers, answer>>
       \/ /\ edit[r].fields \cap InPlace # {}
          /\ \E c \in Mine(r) :
               containers' = (containers \ {c})
                               \cup {[c EXCEPT !.conf = Edited(r, InPlace, @)]}
          /\ Goto(r, AfterUpdate(r)) /\ UNCHANGED answer
       \/ /\ edit[r].fields \cap InPlace # {}
          /\ "update" \in CanFail \/ Mine(r) = {}
          /\ Fail(r) /\ UNCHANGED containers
    /\ UNCHANGED <<nextId, id, name, old>>

\* recreateContainer inspects the container once more.
InspectAgain(r) ==
    /\ At(r, "again")
    /\ \/ \E c \in Mine(r) : /\ old' = [old EXCEPT ![r] = c]
                             /\ Goto(r, IF c.up THEN "stop" ELSE "remove")
                             /\ UNCHANGED answer
       \/ /\ "inspect" \in CanFail \/ Mine(r) = {}
          /\ Fail(r) /\ UNCHANGED old
    /\ UNCHANGED <<containers, nextId, id, name>>

\* Mutant: whether the container runs is looked at after it was stopped.
StopAndLook(r) ==
    /\ At(r, "stop")
    /\ containers' = {IF c \in Mine(r) THEN [c EXCEPT !.up = FALSE] ELSE c : c \in containers}
    /\ old' = [old EXCEPT ![r].up = FALSE]
    /\ Goto(r, "remove")
    /\ UNCHANGED <<nextId, answer, id, name>>

\* The error is ignored.  With AutoRemove the container may be gone at once.
Stop(r) ==
    /\ At(r, "stop")
    /\ \/ containers' = {IF c \in Mine(r) THEN [c EXCEPT !.up = FALSE] ELSE c :
                           c \in containers}
       \/ containers' = containers \ {c \in Mine(r) : c.auto}
       \/ "stop" \in CanFail /\ UNCHANGED containers
    /\ Goto(r, "remove")
    /\ UNCHANGED <<nextId, answer, id, name, old>>

\* Mutant: a container that cannot be removed is not in the way.
RemoveIfThere(r) ==
    /\ At(r, "remove")
    /\ containers' = containers \ Mine(r)
    /\ Goto(r, "create")
    /\ UNCHANGED <<nextId, answer, id, name, old>>

Remove(r) ==
    /\ At(r, "remove")
    /\ \/ /\ Mine(r) # {}
          /\ containers' = containers \ Mine(r)
          /\ Goto(r, "create") /\ UNCHANGED answer
       \/ /\ "remove" \in CanFail \/ Mine(r) = {}
          /\ Fail(r) /\ UNCHANGED containers
    /\ UNCHANGED <<nextId, id, name, old>>

\* The merged configuration: what neither is edited nor copied has its default.
Merged(r) == Edited(r, Fields, [f \in Fields |-> IF f \in Copied THEN old[r].conf[f]
                                                  ELSE "default"])
NewName(r) == IF edit[r].name # NoName THEN edit[r].name ELSE old[r].name

Recreated(r) == [old[r] EXCEPT !.id = nextId, !.auto = FALSE, !.name = NewName(r),
                               !.up = FALSE, !.conf = Merged(r)]

\* Mutant: that the container cannot be created is not an error.
CreateErrorIgnored(r) ==
    /\ At(r, "create")
    /\ \/ /\ \A d \in containers : d.name # NewName(r)
          /\ containers' = containers \cup {Recreated(r)}
          /\ id' = [id EXCEPT ![r] = nextId] /\ nextId' = nextId + 1
       \/ "create" \in CanFail /\ UNCHANGED <<containers, id, nextId>>
    /\ Goto(r, "answer")
    /\ UNCHANGED <<answer, name, old>>

Create(r) ==
    /\ At(r, "create")
    /\ \/ /\ \A d \in containers : d.name # NewName(r)
          /\ containers' = containers \cup {Recreated(r)}
          /\ id' = [id EXCEPT ![r] = nextId] /\ nextId' = nextId + 1
          /\ Goto(r, IF old[r].up THEN "start" ELSE "answer") /\ UNCHANGED answer
       \/ /\ \/ "create" \in CanFail \/ \E d \in containers : d.name = NewName(r)
          /\ Fail(r) /\ UNCHANGED <<containers, id, nextId>>
    /\ UNCHANGED <<name, old>>

StartContainer(r) ==
    /\ At(r, "start")
    /\ \/ \E c \in Mine(r) :
            /\ containers' = (containers \ {c}) \cup {[c EXCEPT !.up = TRUE]}
            /\ Goto(r, "answer") /\ UNCHANGED answer
       \/ /\ "start" \in CanFail \/ Mine(r) = {}
          /\ Fail(r) /\ UNCHANGED containers
    /\ UNCHANGED <<nextId, id, name, old>>

\* The answer shows the container that has the name now.
AnswerByName(r) ==
    /\ At(r, "answer")
    /\ \/ (\E c \in containers : c.name = name[r]) /\ Answer(r, "ok")
       \/ /\ "answer" \in CanFail \/ \A c \in containers : c.name # name[r]
          /\ Fail(r)
    /\ UNCHANGED <<containers, nextId, id, name, old>>

Step(r) == \/ Inspect(r) \/ Rename(r) \/ Update(r) \/ InspectAgain(r) \/ Stop(r)
           \/ Remove(r) \/ Create(r) \/ StartContainer(r) \/ AnswerByName(r)

Next == \E r \in Requests : Start(r) \/ Step(r)

Spec == Init /\ [][Next]_vars

-----------------------------------------------------------------------------
\* What became of the container that is edited.
Present == {c \in containers : c.first = 1}

(* However edits of one container interleave, it exists at most once: the one
   that removes it is the one that creates it again. *)
AtMostOnce == Cardinality(Present) <= 1

(* The container is gone only while an edit has yet to create it again, or
   because one was answered that it could not create it, or could not remove
   what Docker had removed when the edit stopped it: never for another reason,
   and never with every edit answered as made. *)
GoneIsReported ==
    Present = {} => \E r \in Requests :
        \/ pc[r] = "create" \/ answer[r] = "create"
        \/ old[r].auto /\ (pc[r] = "remove" \/ answer[r] = "remove")

(* An edit that was answered as made, the only one, has set what it edits, has
   kept the image, limits and labels it does not edit, and runs the container
   if it ran; its name is the new one, or the old one. *)
Sole(r) == \A q \in Requests \ {r} : pc[q] = "idle"
EditApplied ==
    \A r \in Requests : answer[r] = "ok" /\ Sole(r) =>
        \E c \in Present :
          /\ c.name = IF edit[r].name = NoName THEN "web" ELSE edit[r].name
          /\ \A f \in Copied : c.conf[f] = IF f \in edit[r].fields THEN r ELSE "original"
          /\ c.up = c.was

-----------------------------------------------------------------------------
(* The inductive invariant behind these properties. *)

\* What a request works with: an ID that was given out, and the container that
\* has it until somebody removes that.
Held(r) == /\ id[r] < nextId
           /\ answer[r] # "none" => pc[r] = "end"
           /\ pc[r] \in {"stop", "remove", "create"} => old[r] # None
           /\ pc[r] \in {"stop", "remove"} =>
                \A c \in Mine(r) : c.first = old[r].first /\ c.auto = old[r].auto

\* A container is there once, or is removed and waits for one request to create
\* it again.
OneOfEach == /\ \A c, d \in containers : c.first = d.first => c = d
             /\ \A r \in Requests, c \in containers : pc[r] = "create" => c.first # old[r].first
             /\ \A r, q \in Requests :
                   pc[r] = "create" /\ pc[q] = "create" /\ old[r].first = old[q].first => r = q
\* One that was removed by its stop waits for the request that finds it gone.
Waits == Present = {} => \E r \in Requests :
             \/ pc[r] = "create" /\ old[r].first = 1
             \/ answer[r] = "create"
             \/ pc[r] = "remove" /\ old[r].auto /\ old[r].first = 1
             \/ answer[r] = "remove" /\ old[r].auto

\* A sole edit has made, of c, the fields it has come to.
Target(r) == IF edit[r].name = NoName THEN "web" ELSE edit[r].name
Made(r, c, fields) ==
    /\ c.first = 1 /\ c.name = Target(r)
    /\ \A f \in Copied : c.conf[f] = IF f \in fields \cap edit[r].fields THEN r ELSE "original"

\* How far a sole edit is, by where it is.
Alone(r) == Sole(r) =>
    /\ pc[r] \in {"idle", "inspect", "rename"} =>
         \E c \in Present : /\ c.id = 1 /\ c.name = "web" /\ c.up = c.was
                           /\ \A f \in Copied : c.conf[f] = "original"
    /\ pc[r] = "rename" => id[r] = 1 /\ name[r] = "web"
    /\ pc[r] = "update" => \E c \in Mine(r) : Made(r, c, {}) /\ c.up = c.was
    /\ pc[r] = "again"  => \E c \in Mine(r) : Made(r, c, InPlace) /\ c.up = c.was
    /\ pc[r] \in {"stop", "remove", "create"} => Made(r, old[r], InPlace) /\ old[r].up = old[r].was
    /\ pc[r] = "start"  => \E c \in Mine(r) : Made(r, c, Copied) /\ c.was
    /\ pc[r] = "answer" \/ answer[r] = "ok" => \E c \in Present : Made(r, c, Copied) /\ c.up = c.was

\* What concurrent edits keep: names and IDs are unique (in TypeOK), and the
\* container is one.
EditInv == /\ TypeOK /\ AtMostOnce
           /\ (\A r \in Requests : Held(r) /\ Alone(r)) /\ OneOfEach /\ Waits

(* Not kept: "recreates a container with merged config" (containers.go:322).
   What recreateContainer does not name has its default again. *)
UneditedKept ==
    \A r \in Requests : answer[r] = "ok" =>
        \A c \in Present, f \in Fields \ edit[r].fields : c.conf[f] = "original"

(* Not kept: fields are "applied without recreation" (containers.go:264-265).
   An edit that another edit has inspected the container before is undone. *)
AnsweredEditStays ==
    \A r \in Requests, f \in InPlace : answer[r] = "ok" /\ f \in edit[r].fields =>
        \A c \in Present : c.conf[f] \in {q \in Requests : f \in edit[q].fields}

(* Not kept: recreating is to replace the container (containers.go:322).  One
   that cannot be created again is gone, and one with AutoRemove may be gone
   before it was to be removed. *)
FailedEditKeepsContainer ==
    (\E r \in Requests : pc[r] = "end") /\ (\A r \in Requests : pc[r] \in {"idle", "end"}) =>
        Present # {}
=============================================================================
