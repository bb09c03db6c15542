------------------------- MODULE ComposeDeploy_proofs -------------------------
(***************************************************************************)
(* ProjectInv is an inductive invariant of ComposeDeploy, for every set of *)
(* requests and services, every failure and any number of restarts; that a *)
(* deploy which was answered stays, and that one which failed leaves       *)
(* nothing running, follow.  First what the steps have in common, then one *)
(* lemma for each action, with one step for each part of ProjectInv.       *)
(***************************************************************************)
EXTENDS ComposeDeploy, TLAPS

USE KindsAssumption, DepsAssumption, FilesAssumption
    DEF daemon, request, local, At, Goto, End

-----------------------------------------------------------------------------
(* What the steps have in common. *)

\* The parts of ProjectInv that are about one request.
Local == \A r \in Requests : Placed(r) /\ Progress(r) /\ Dealt(r)

\* A step that leaves the daemon and what a request knows of it alone.
LEMMA DaemonKept ==
    ASSUME ProjectInv, UNCHANGED <<containers, refused, made, seen>>,
           NobodyRemoves' => NobodyRemoves,
           \A r \in Requests : Ahead(r)' \subseteq Ahead(r)
    PROVE  IdsAreFresh' /\ RunningIsMade' /\ MadeIsOwned'
<1> USE DEF ProjectInv
<1>1. IdsAreFresh' BY DEF IdsAreFresh, Owned
<1>2. RunningIsMade' BY DEF RunningIsMade, Id
<1>3. MadeIsOwned' BY DEF MadeIsOwned, Owned
<1>4. QED BY <1>1, <1>2, <1>3

\* A container that is started or stopped is the same container.
LEMMA Switched ==
    ASSUME NEW c \in Containers, NEW up \in BOOLEAN
    PROVE  /\ [c EXCEPT !.up = up] \in Containers
           /\ [c EXCEPT !.up = up].svc = c.svc /\ [c EXCEPT !.up = up].by = c.by
           /\ [c EXCEPT !.up = up].doc = c.doc /\ [c EXCEPT !.up = up].up = up
BY DEF Containers

\* A removal that was answered has dealt with all it was given.
LEMMA GoneWhenDealt == Local' => RemovedIsGone'
BY DEF Local, Dealt, RemovedIsGone

\* No request turns into a removal: who removes has arrived as one.
LEMMA KindKept == ASSUME kind' = kind PROVE NobodyRemoves' <=> NobodyRemoves
BY DEF NobodyRemoves

-----------------------------------------------------------------------------
(* How a request comes by its compose file. *)

LEMMA FailsStep ==
    ASSUME NEW r \in Requests, ProjectInv, Fails(r) PROVE ProjectInv'
<1> USE DEF ProjectInv, Fails
<1>1. TypeOK' BY DEF TypeOK, Pcs
<1>2. Local'
  BY DEF TypeOK, Local, Placed, Progress, Dealt, Deploying,
  BeforeParse, Looping, AtService, Id
<1>3. \A q \in Requests : Ahead(q)' \subseteq Ahead(q)
  BY DEF TypeOK, Ahead, BeforeParse, Looping, AtService, Placed, Progress
<1>4. IdsAreFresh' /\ RunningIsMade' /\ MadeIsOwned'
  BY <1>3, DaemonKept, KindKept
<1>5. FileIsWritten'
  BY KindKept DEF TypeOK, FileIsWritten, Written, Placed
<1>6. ContainersHaveFile'
  BY KindKept DEF ContainersHaveFile, Placed
<1>7. QED BY <1>1, <1>2, <1>4, <1>5, <1>6, GoneWhenDealt DEF Local

LEMMA ResolveStep ==
    ASSUME NEW r \in Requests, ProjectInv, Resolve(r) PROVE ProjectInv'
<1> USE DEF ProjectInv, Resolve
<1>1. TypeOK' BY DEF TypeOK, Pcs
<1>2. Local'
  BY DEF TypeOK, Local, Placed, Progress, Dealt, Deploying,
  BeforeParse, Looping, AtService, Id
<1>3. \A q \in Requests : Ahead(q)' \subseteq Ahead(q)
  BY DEF TypeOK, Ahead, BeforeParse, Looping, AtService, Placed, Progress
<1>4. IdsAreFresh' /\ RunningIsMade' /\ MadeIsOwned'
  BY <1>3, DaemonKept, KindKept
<1>5. FileIsWritten'
  BY KindKept DEF TypeOK, FileIsWritten, Written, Placed
<1>6. ContainersHaveFile'
  BY KindKept DEF ContainersHaveFile, Placed
<1>7. QED BY <1>1, <1>2, <1>4, <1>5, <1>6, GoneWhenDealt DEF Local

\* A label that is set leaves a compose file.
LEMMA Relabelled == \A d \in Docs, auto \in BOOLEAN : [d EXCEPT !.auto = auto] \in Docs
BY DEF Docs

LEMMA ReadFileStep ==
    ASSUME NEW r \in Requests, ProjectInv, ReadFile(r) PROVE ProjectInv'
<1> USE DEF ProjectInv, ReadFile
<1>1. TypeOK' BY Relabelled DEF TypeOK, Pcs, Files
<1>2. Local'
  BY Relabelled DEF TypeOK, Local, Placed, Progress, Dealt, Deploying,
  BeforeParse, Looping, AtService, Id
<1>3. \A q \in Requests : Ahead(q)' \subseteq Ahead(q)
  BY DEF TypeOK, Ahead, BeforeParse, Looping, AtService, Placed, Progress
<1>4. IdsAreFresh' /\ RunningIsMade' /\ MadeIsOwned'
  BY <1>3, DaemonKept, KindKept
<1>5. FileIsWritten'
  BY KindKept DEF TypeOK, FileIsWritten, Written, Placed
<1>6. ContainersHaveFile'
  BY KindKept DEF ContainersHaveFile, Placed
<1>7. QED BY <1>1, <1>2, <1>4, <1>5, <1>6, GoneWhenDealt DEF Local

LEMMA SaveStep ==
    ASSUME NEW r \in Requests, ProjectInv, Save(r) PROVE ProjectInv'
<1> USE DEF ProjectInv, Save, Opened, Filled, HalfFilled
<1>1. TypeOK' BY DEF TypeOK, Pcs, Files
<1>2. Local'
  BY DEF TypeOK, Local, Placed, Progress, Dealt, Deploying,
  BeforeParse, Looping, AtService, Id
<1>3. \A q \in Requests : Ahead(q)' \subseteq Ahead(q)
  BY DEF TypeOK, Ahead, BeforeParse, Looping, AtService, Placed, Progress
<1>4. IdsAreFresh' /\ RunningIsMade' /\ MadeIsOwned'
  BY <1>3, DaemonKept, KindKept
<1>5. FileIsWritten'
  BY KindKept DEF TypeOK, FileIsWritten, Written, Placed
<1>6. ContainersHaveFile'
  BY KindKept DEF ContainersHaveFile, Placed
<1>7. QED BY <1>1, <1>2, <1>4, <1>5, <1>6, GoneWhenDealt DEF Local

-----------------------------------------------------------------------------
(* The deploy. *)

LEMMA WriteStep ==
    ASSUME NEW r \in Requests, ProjectInv, Write(r) PROVE ProjectInv'
<1> USE DEF ProjectInv, Write, Opened, Filled, HalfFilled
<1>1. TypeOK' BY DEF TypeOK, Pcs, Files
<1>2. Local'
  BY DEF TypeOK, Local, Placed, Progress, Dealt, Deploying,
  BeforeParse, Looping, AtService, Id
<1>3. \A q \in Requests : Ahead(q)' \subseteq Ahead(q)
  BY DEF TypeOK, Ahead, BeforeParse, Looping, AtService, Placed, Progress
<1>4. IdsAreFresh' /\ RunningIsMade' /\ MadeIsOwned'
  BY <1>3, DaemonKept, KindKept
<1>5. FileIsWritten'
  BY KindKept DEF TypeOK, FileIsWritten, Written, Placed
<1>6. ContainersHaveFile'
  BY KindKept DEF ContainersHaveFile, Placed
<1>7. QED BY <1>1, <1>2, <1>4, <1>5, <1>6, GoneWhenDealt DEF Local

LEMMA ParseStep ==
    ASSUME NEW r \in Requests, ProjectInv, Parse(r) PROVE ProjectInv'
<1> USE DEF ProjectInv, Parse
<1>1. TypeOK' BY DEF TypeOK, Pcs
<1>2. Local'
  BY DEF TypeOK, Local, Placed, Progress, Dealt, Deploying,
  BeforeParse, Looping, AtService, Id
<1>3. \A q \in Requests : Ahead(q)' \subseteq Ahead(q)
  BY DEF TypeOK, Ahead, BeforeParse, Looping, AtService, Placed, Progress
<1>4. IdsAreFresh' /\ RunningIsMade' /\ MadeIsOwned'
  BY <1>3, DaemonKept, KindKept
<1>5. FileIsWritten'
  BY KindKept DEF TypeOK, FileIsWritten, Written, Placed
<1>6. ContainersHaveFile'
  BY KindKept DEF ContainersHaveFile, Placed
<1>7. QED BY <1>1, <1>2, <1>4, <1>5, <1>6, GoneWhenDealt DEF Local

LEMMA PickStep ==
    ASSUME NEW r \in Requests, ProjectInv, Pick(r) PROVE ProjectInv'
<1> USE DEF ProjectInv, Pick
<1>1. TypeOK' BY DEF TypeOK, Pcs
<1>2. Local'
  BY DEF TypeOK, Local, Placed, Progress, Dealt, Deploying,
  BeforeParse, Looping, AtService, Id
<1>3. \A q \in Requests : Ahead(q)' \subseteq Ahead(q)
  BY DEF TypeOK, Ahead, BeforeParse, Looping, AtService, Placed, Progress
<1>4. IdsAreFresh' /\ RunningIsMade' /\ MadeIsOwned'
  BY <1>3, DaemonKept, KindKept
<1>5. FileIsWritten'
  BY KindKept DEF TypeOK, FileIsWritten, Written, Placed
<1>6. ContainersHaveFile'
  BY KindKept DEF ContainersHaveFile, Placed
<1>7. QED BY <1>1, <1>2, <1>4, <1>5, <1>6, GoneWhenDealt DEF Local

LEMMA PullStep ==
    ASSUME NEW r \in Requests, ProjectInv, Pull(r) PROVE ProjectInv'
<1> USE DEF ProjectInv, Pull
<1>1. TypeOK' BY DEF TypeOK, Pcs
<1>2. Local'
  BY DEF TypeOK, Local, Placed, Progress, Dealt, Deploying,
  BeforeParse, Looping, AtService, Id
<1>3. \A q \in Requests : Ahead(q)' \subseteq Ahead(q)
  BY DEF TypeOK, Ahead, BeforeParse, Looping, AtService, Placed, Progress
<1>4. IdsAreFresh' /\ RunningIsMade' /\ MadeIsOwned'
  BY <1>3, DaemonKept, KindKept
<1>5. FileIsWritten'
  BY KindKept DEF TypeOK, FileIsWritten, Written, Placed
<1>6. ContainersHaveFile'
  BY KindKept DEF ContainersHaveFile, Placed
<1>7. QED BY <1>1, <1>2, <1>4, <1>5, <1>6, GoneWhenDealt DEF Local

\* Nobody has the ID of the container that is created.
LEMMA CreateStep ==
    ASSUME NEW r \in Requests, ProjectInv, Create(r) PROVE ProjectInv'
<1> USE DEF ProjectInv, Create, GiveUp, LeaveLoop
<1> DEFINE new == [svc |-> cur[r], by |-> r, doc |-> doc[r], up |-> FALSE]
<1>0. /\ pc[r] = "create" /\ cur[r] \in Services \ todo[r] /\ cur[r] \in Ahead(r)
      /\ doc[r] \in Docs
  BY DEF Placed, Progress, Looping, AtService, Ahead, BeforeParse
<1>1. CASE containers' = containers /\ GiveUp(r)
  <2>1. TypeOK' BY <1>1 DEF TypeOK, Pcs
  <2>2. Local'
    BY <1>1 DEF TypeOK, Local, Placed, Progress, Dealt, Deploying, BeforeParse,
       Looping, AtService, Id
  <2>3. \A q \in Requests : Ahead(q)' \subseteq Ahead(q)
    BY <1>1 DEF TypeOK, Ahead, BeforeParse, Looping, AtService, Placed, Progress
  <2>4. IdsAreFresh' /\ RunningIsMade' /\ MadeIsOwned'
    BY <1>1, <2>3, DaemonKept, KindKept
  <2>5. FileIsWritten' BY KindKept DEF TypeOK, FileIsWritten, Written, Placed
  <2>6. ContainersHaveFile' BY <1>1, KindKept DEF ContainersHaveFile
  <2>7. QED BY <2>1, <2>2, <2>4, <2>5, <2>6, GoneWhenDealt DEF Local
<1>2. CASE /\ Named(cur[r]) = {} /\ containers' = containers \cup {new}
           /\ pc' = [pc EXCEPT ![r] = "start"]
           /\ UNCHANGED <<answer, todo, cur>>
  <2>1. TypeOK'
    <3>1. new \in Containers BY <1>0 DEF Containers
    <3>2. \A c \in containers : c.svc # new.svc BY <1>2 DEF Named
    <3>3. QED BY <1>2, <3>1, <3>2 DEF TypeOK, Pcs
  <2>2. \A q \in Requests : <<cur[r], r>> \notin seen[q]
    BY <1>0 DEF IdsAreFresh
  <2>3. Local'
    BY <1>0, <1>2, <2>2 DEF TypeOK, Local, Placed, Progress, Dealt, Deploying, BeforeParse,
       Looping, AtService, Id
  <2>4. /\ \A q \in Requests : Ahead(q)' \subseteq Ahead(q)
        /\ cur[r] \notin Ahead(r)'
    BY <1>0, <1>2 DEF TypeOK, Ahead, BeforeParse, Looping, AtService, Placed
  <2>5. IdsAreFresh' BY <1>2, <2>4 DEF IdsAreFresh, Owned
  <2>6. RunningIsMade' BY <1>2 DEF RunningIsMade, Id
  <2>7. MadeIsOwned' BY <1>2, KindKept DEF MadeIsOwned, Owned
  <2>8. FileIsWritten' BY KindKept, <1>2 DEF TypeOK, FileIsWritten, Written, Placed
  <2>9. ContainersHaveFile' BY <1>0, KindKept DEF ContainersHaveFile, FileIsWritten, Written
  <2>10. QED BY <2>1, <2>3, <2>5, <2>6, <2>7, <2>8, <2>9, GoneWhenDealt DEF Local
<1>3. QED BY <1>1, <1>2

LEMMA StartContainerStep ==
    ASSUME NEW r \in Requests, ProjectInv, StartContainer(r) PROVE ProjectInv'
<1> USE DEF ProjectInv, StartContainer, GiveUp, LeaveLoop
<1>0. /\ pc[r] = "start" /\ cur[r] \in Services \ todo[r] /\ kind[r] \in Deploying
  BY DEF Placed, Progress, Looping, AtService
<1>1. \A q \in Requests : Ahead(q)' \subseteq Ahead(q)
  BY <1>0 DEF TypeOK, Ahead, BeforeParse, Looping, AtService, Placed, Progress
<1>2. CASE UNCHANGED <<containers, made>> /\ GiveUp(r)
  <2>1. TypeOK' BY <1>2 DEF TypeOK, Pcs
  <2>2. Local'
    BY <1>2 DEF TypeOK, Local, Placed, Progress, Dealt, Deploying, BeforeParse,
       Looping, AtService, Id
  <2>3. IdsAreFresh' /\ RunningIsMade' /\ MadeIsOwned'
    BY <1>1, <1>2, DaemonKept, KindKept
  <2>4. FileIsWritten' BY KindKept DEF TypeOK, FileIsWritten, Written, Placed
  <2>5. ContainersHaveFile' BY <1>2, KindKept DEF ContainersHaveFile
  <2>6. QED BY <2>1, <2>2, <2>3, <2>4, <2>5, GoneWhenDealt DEF Local
<1>3. ASSUME NEW c \in containers, Id(c) = <<cur[r], r>>,
             containers' = (containers \ {c}) \cup {[c EXCEPT !.up = TRUE]},
             made' = [made EXCEPT ![r] = @ \cup {cur[r]}],
             cur' = [cur EXCEPT ![r] = NoSvc], todo' = todo,
             pc' = [pc EXCEPT ![r] = "pick"], answer' = answer
      PROVE  ProjectInv'
  <2> DEFINE on == [c EXCEPT !.up = TRUE]
  <2>0. c \in Containers /\ c.svc = cur[r] /\ c.by = r /\ cur[r] \in Services
    BY <1>0, <1>3 DEF TypeOK, Id
  <2>1. on \in Containers /\ on.svc = cur[r] /\ on.by = r
    BY <2>0, Switched
  <2>11. containers' = (containers \ {c}) \cup {on}
    BY <1>3
  <2> HIDE DEF on
  <2>2. \A d \in containers' : \E e \in containers :
            d.svc = e.svc /\ d.by = e.by /\ (d = e \/ (d = on /\ e = c))
    BY <2>0, <2>1, <2>11
  <2>3. TypeOK'
    <3>1. \A d, e \in containers' : d.svc = e.svc => d = e
      BY <2>0, <2>1, <2>11 DEF TypeOK
    <3>2. containers' \subseteq Containers BY <2>1, <2>11 DEF TypeOK
    <3>3. made' \in [Requests -> SUBSET Services] BY <1>3, <2>0 DEF TypeOK
    <3>4. pc' \in [Requests -> Pcs] BY <1>3 DEF TypeOK, Pcs
    <3>5. QED BY <1>3, <3>1, <3>2, <3>3, <3>4 DEF TypeOK
  <2>4. Local'
    BY <1>0, <1>3, <2>2 DEF TypeOK, Local, Placed, Progress, Dealt, Deploying,
       BeforeParse, Looping, AtService, Id
  <2>5. IdsAreFresh' BY <1>1, <2>2 DEF IdsAreFresh, Owned
  <2>6. RunningIsMade' 
    <3> SUFFICES ASSUME NEW d \in containers', d.up
                 PROVE  d.svc \in made'[d.by] \/ Id(d) \in refused
      BY DEF RunningIsMade, Id
    <3>1. CASE d = on BY <1>3, <2>1, <3>1 DEF TypeOK
    <3>2. CASE d \in containers
      BY <1>3, <3>2 DEF TypeOK, RunningIsMade, Containers
    <3>3. QED BY <2>11, <3>1, <3>2
  <2>7. MadeIsOwned'
    <3>1. \A d \in containers : \E e \in containers' : d.svc = e.svc /\ d.by = e.by
      BY <2>0, <2>1, <2>11
    <3>2. \E d \in containers' : d.svc = cur[r] /\ d.by = r
      BY <2>1, <2>11
    <3> SUFFICES ASSUME NobodyRemoves, NEW q \in Requests, NEW s \in made'[q]
                 PROVE  \E d \in containers' : d.svc = s /\ d.by = q
      BY KindKept DEF MadeIsOwned, Owned, NobodyRemoves
    <3>3. CASE s \in made[q] BY <3>1, <3>3 DEF MadeIsOwned, Owned
    <3>4. CASE q = r /\ s = cur[r] BY <3>2, <3>4
    <3>5. QED BY <1>3, <3>3, <3>4 DEF TypeOK
  <2>8. FileIsWritten' BY KindKept, <1>0, <1>3 DEF TypeOK, FileIsWritten, Written, Placed
  <2>9. ContainersHaveFile' BY <1>3, KindKept DEF ContainersHaveFile
  <2>10. QED BY <2>3, <2>4, <2>5, <2>6, <2>7, <2>8, <2>9, GoneWhenDealt DEF Local
<1>4. QED BY <1>2, <1>3

\* What a deploy takes back is its own, as long as nobody removes the project.
LEMMA CleanupStep ==
    ASSUME NEW r \in Requests, ProjectInv, Cleanup(r) PROVE ProjectInv'
<1> USE DEF ProjectInv, Cleanup
<1>0. pc[r] = "cleanup" /\ kind[r] = "stream" /\ kind' = kind
  BY DEF Placed
<1>1. containers' \subseteq containers
  OBVIOUS
<1>2. refused \subseteq refused'
  OBVIOUS
<1>3. \A q \in Requests : Ahead(q)' \subseteq Ahead(q)
  BY <1>0 DEF TypeOK, Ahead, BeforeParse, Looping, AtService
<1>4. TypeOK'
  <2>1. refused' \subseteq Ids BY DEF TypeOK, Named, Id, Ids, Containers
  <2>2. made' \in [Requests -> SUBSET Services] BY DEF TypeOK
  <2>3. QED BY <1>1, <2>1, <2>2 DEF TypeOK, Pcs
<1>5. Local'
  BY <1>0, <1>1, <1>2 DEF TypeOK, Local, Placed, Progress, Dealt, Deploying, BeforeParse,
     Looping, AtService, Id
<1>6. IdsAreFresh' BY <1>1, <1>3 DEF IdsAreFresh, Owned
<1>7. RunningIsMade' 
  <2> SUFFICES ASSUME NEW c \in containers', c.up
               PROVE  c.svc \in made'[c.by] \/ Id(c) \in refused'
    BY DEF RunningIsMade, Id
  <2>1. c \in containers /\ c.by \in Requests BY <1>1 DEF TypeOK, Containers
  <2>2. CASE Id(c) \in refused BY <1>2, <2>2
  <2>3. CASE c.svc \in made[c.by]
    BY <2>1, <2>3 DEF TypeOK, Named
  <2>4. QED BY <2>1, <2>2, <2>3 DEF RunningIsMade
<1>8. MadeIsOwned'
  <2> SUFFICES ASSUME NobodyRemoves, NEW q \in Requests, NEW s \in made'[q]
               PROVE  Owned(q, s)'
    BY <1>0, KindKept DEF MadeIsOwned
  <2>1. s \in made[q] /\ Owned(q, s) BY DEF TypeOK, MadeIsOwned
  <2>2. PICK c \in containers : c.svc = s /\ c.by = q BY <2>1 DEF Owned
  <2>3. c \in containers'
    <3>1. ASSUME NEW t \in made[r], made' = [made EXCEPT ![r] = @ \ {t}],
                 containers' = containers \ Named(t), c.svc = t
          PROVE  FALSE
      <4>1. Owned(r, t) BY MadeIsOwned DEF MadeIsOwned
      <4>2. q = r BY <2>2, <3>1, <4>1 DEF Owned, TypeOK
      <4>3. QED BY <2>2, <3>1, <4>2 DEF TypeOK
    <3>2. QED BY <3>1, <2>2 DEF Named
  <2>4. QED BY <2>2, <2>3 DEF Owned
<1>9. FileIsWritten' BY KindKept DEF TypeOK, FileIsWritten, Written, Placed
<1>10. ContainersHaveFile' BY <1>1, KindKept DEF ContainersHaveFile
<1>11. QED BY <1>4, <1>5, <1>6, <1>7, <1>8, <1>9, <1>10, GoneWhenDealt DEF Local

-----------------------------------------------------------------------------
(* Stopping and removing. *)

LEMMA ListStep ==
    ASSUME NEW r \in Requests, ProjectInv, List(r) PROVE ProjectInv'
<1> USE DEF ProjectInv, List
<1>1. TypeOK' BY DEF TypeOK, Pcs, Id, Ids, Containers
<1>2. Local'
  BY DEF TypeOK, Local, Placed, Progress, Dealt, Deploying, BeforeParse, Looping,
     AtService, Id
<1>3. \A q \in Requests : Ahead(q)' \subseteq Ahead(q)
  BY DEF TypeOK, Ahead, BeforeParse, Looping, AtService
<1>4. IdsAreFresh' BY <1>3 DEF TypeOK, IdsAreFresh, Owned, Id
<1>5. RunningIsMade' /\ MadeIsOwned'
  BY KindKept DEF RunningIsMade, MadeIsOwned, Owned, Id
<1>6. FileIsWritten' BY KindKept DEF TypeOK, FileIsWritten, Written
<1>7. ContainersHaveFile' BY KindKept DEF ContainersHaveFile
<1>8. QED BY <1>1, <1>2, <1>4, <1>5, <1>6, <1>7, GoneWhenDealt DEF Local

LEMMA EachStep ==
    ASSUME NEW r \in Requests, ProjectInv, Each(r) PROVE ProjectInv'
<1> USE DEF ProjectInv, Each
<1>0. pc[r] = "each" /\ kind[r] \in {"stop", "remove"} /\ kind' = kind
  BY DEF Placed
<1> DEFINE off(c) == [c EXCEPT !.up = FALSE]
           with(i) == {c \in containers : Id(c) = i}
<1>a. \A c \in containers : /\ off(c) \in Containers /\ off(c).svc = c.svc
                            /\ off(c).by = c.by /\ off(c).up = FALSE
  BY Switched DEF TypeOK
<1>b. \/ kind[r] = "remove" /\ containers' \subseteq containers
      \/ kind[r] = "stop" /\ \E i \in Ids : containers' =
           (containers \ with(i)) \cup {off(c) : c \in with(i)}
      \/ containers' = containers
  <2>1. CASE \E i \in seen[r] \ done[r] : kind[r] = "stop" /\ containers' =
           (containers \ with(i)) \cup {off(c) : c \in with(i)}
    <3> HIDE DEF Each, off, with
    <3>1. seen[r] \subseteq Ids BY DEF TypeOK
    <3>2. QED BY <2>1, <3>1
  <2>2. CASE kind[r] = "remove" /\ containers' \subseteq containers BY <2>2
  <2>3. QED BY <2>1, <2>2
<1> HIDE DEF off
<1>1. \A d \in containers' : \E c \in containers :
         d \in {c, off(c)} /\ d.svc = c.svc /\ d.by = c.by /\ (d.up => c.up)
  BY <1>a, <1>b
<1>2. containers' \subseteq Containers
  BY <1>1, <1>a DEF TypeOK
<1>3. refused \subseteq refused' /\ refused' \subseteq Ids
  BY DEF TypeOK
<1>4. \A q \in Requests : Ahead(q)' \subseteq Ahead(q)
  BY <1>0 DEF TypeOK, Ahead, BeforeParse, Looping, AtService
<1>5. TypeOK'
  <2>1. \A c, d \in containers' : c.svc = d.svc => c = d
    BY <1>a, <1>b DEF TypeOK
  <2>2. pc' \in [Requests -> Pcs] BY DEF TypeOK, Pcs
  <2>3. answer' \in [Requests -> {"none", "ok", "failed"}] BY DEF TypeOK
  <2>4. done' \in [Requests -> SUBSET Ids] BY DEF TypeOK
  <2>5. QED BY <1>2, <1>3, <2>1, <2>2, <2>3, <2>4 DEF TypeOK
<1>6. Local'
  BY <1>0, <1>1, <1>3 DEF TypeOK, Local, Placed, Progress, Dealt, Deploying, BeforeParse,
     Looping, AtService, Id
<1>7. IdsAreFresh' BY <1>1, <1>4 DEF IdsAreFresh, Owned
<1>8. RunningIsMade' BY <1>1, <1>3 DEF RunningIsMade, Id
<1>9. MadeIsOwned' 
  <2>1. NobodyRemoves' =>
          \A c \in containers : \E d \in containers' : d.svc = c.svc /\ d.by = c.by
    BY <1>0, <1>a, <1>b DEF NobodyRemoves
  <2>2. QED BY <1>0, <2>1, KindKept DEF MadeIsOwned, Owned
<1>10. FileIsWritten' BY KindKept DEF TypeOK, FileIsWritten, Written
<1>11. ContainersHaveFile' BY <1>1, KindKept DEF ContainersHaveFile
<1>12. QED BY <1>5, <1>6, <1>7, <1>8, <1>9, <1>10, <1>11, GoneWhenDealt DEF Local

LEMMA RemoveDirStep ==
    ASSUME NEW r \in Requests, ProjectInv, RemoveDir(r) PROVE ProjectInv'
<1> USE DEF ProjectInv, RemoveDir
<1>0. ~NobodyRemoves' BY DEF Placed, NobodyRemoves
<1>1. TypeOK' BY DEF TypeOK, Pcs, Files
<1>2. Local'
  BY DEF TypeOK, Local, Placed, Progress, Dealt, Deploying, BeforeParse, Looping,
     AtService, Id
<1>3. \A q \in Requests : Ahead(q)' \subseteq Ahead(q)
  BY DEF TypeOK, Ahead, BeforeParse, Looping, AtService
<1>4. IdsAreFresh' /\ RunningIsMade' /\ MadeIsOwned' BY <1>0, <1>3, DaemonKept
<1>5. FileIsWritten' /\ ContainersHaveFile' BY <1>0 DEF FileIsWritten, ContainersHaveFile
<1>6. QED BY <1>1, <1>2, <1>4, <1>5, GoneWhenDealt DEF Local

-----------------------------------------------------------------------------
(* Requests arrive, and are lost. *)

LEMMA StartStep ==
    ASSUME NEW r \in Requests, NEW k \in Kinds, ProjectInv, Start(r, k) PROVE ProjectInv'
<1> USE DEF ProjectInv, Start
<1>0. /\ pc[r] = "idle" /\ kind[r] = NoSvc
      /\ k \in {"deploy", "stream", "toggle", "update", "stop", "remove"}
  BY DEF Placed
<1>1. NobodyRemoves' => NobodyRemoves BY <1>0 DEF TypeOK, NobodyRemoves, NoSvc
<1>2. TypeOK' BY <1>0 DEF TypeOK, Pcs, Files, Docs
<1>3. Local'
  <2> SUFFICES ASSUME NEW q \in Requests
               PROVE  Placed(q)' /\ Progress(q)' /\ Dealt(q)'
    BY DEF Local
  <2>1. CASE q # r
    BY <2>1 DEF TypeOK, Placed, Progress, Dealt, BeforeParse, Looping, AtService, Id
  <2>2. CASE q = r
    <3>1. kind'[r] = k /\ answer'[r] = "none" /\ done'[r] = {} /\ made'[r] = {}
      BY <1>0 DEF TypeOK, Placed, Progress, Dealt, BeforeParse
    <3>2. \/ k = "deploy" /\ pc'[r] = "write"
          \/ k = "stream" /\ pc'[r] = "parse"
          \/ k \in {"toggle", "update"} /\ pc'[r] = "resolve"
          \/ k \in {"stop", "remove"} /\ pc'[r] = "list"
      BY <1>0 DEF TypeOK
    <3>3. k \in {"deploy", "stream"} => doc'[r] \in Docs /\ doc'[r] # NoFile
      BY DEF TypeOK, Docs
    <3>4. Placed(r)'
      BY <1>0, <3>1, <3>2, <3>3 DEF Placed, Looping, AtService, Deploying, NoSvc
    <3>5. Progress(r)'
      BY <3>1, <3>2 DEF Progress, BeforeParse, Looping, AtService
    <3>6. Dealt(r)'
      BY <3>1, <3>2 DEF Dealt, Id
    <3>7. QED BY <2>2, <3>4, <3>5, <3>6
  <2>3. QED BY <2>1, <2>2
<1>4. \A q \in Requests : Ahead(q)' \subseteq Ahead(q)
  BY <1>0 DEF TypeOK, Ahead, BeforeParse, Looping, AtService
<1>5. IdsAreFresh' /\ RunningIsMade' /\ MadeIsOwned' BY <1>1, <1>4, DaemonKept
<1>6. FileIsWritten' BY <1>0, <1>1 DEF TypeOK, FileIsWritten, Written
<1>7. ContainersHaveFile' BY <1>1 DEF ContainersHaveFile
<1>8. QED BY <1>2, <1>3, <1>5, <1>6, <1>7, GoneWhenDealt DEF Local

LEMMA CrashStep == ASSUME ProjectInv, Crash PROVE ProjectInv'
<1> USE DEF ProjectInv, Crash
<1>1. TypeOK' BY DEF TypeOK, Pcs
<1>2. Local'
  BY DEF TypeOK, Local, Placed, Progress, Dealt, Deploying, BeforeParse, Looping,
     AtService, Id
<1>3. \A q \in Requests : Ahead(q)' \subseteq Ahead(q)
  BY DEF TypeOK, Ahead, BeforeParse, Looping, AtService
<1>4. IdsAreFresh' /\ RunningIsMade' /\ MadeIsOwned' BY <1>3, DaemonKept, KindKept
<1>5. FileIsWritten' BY KindKept DEF TypeOK, FileIsWritten, Written
<1>6. ContainersHaveFile' BY KindKept DEF ContainersHaveFile
<1>7. QED BY <1>1, <1>2, <1>4, <1>5, <1>6, GoneWhenDealt DEF Local

LEMMA InitInv == Init => ProjectInv
<1> SUFFICES ASSUME Init PROVE ProjectInv
  OBVIOUS
<1> USE DEF Init
<1>1. TypeOK BY DEF TypeOK, Files, Pcs
<1>2. \A r \in Requests : Placed(r) /\ Progress(r) /\ Dealt(r)
  BY DEF Placed, Progress, Dealt, Looping, AtService, NoSvc, Deploying
<1>3. IdsAreFresh /\ RunningIsMade /\ MadeIsOwned
  BY DEF IdsAreFresh, RunningIsMade, MadeIsOwned, Owned
<1>4. FileIsWritten /\ ContainersHaveFile /\ RemovedIsGone
  BY DEF FileIsWritten, Written, ContainersHaveFile, RemovedIsGone
<1>5. QED BY <1>1, <1>2, <1>3, <1>4 DEF ProjectInv

LEMMA NextInv == ProjectInv /\ [Next]_vars => ProjectInv'
<1> SUFFICES ASSUME ProjectInv, [Next]_vars PROVE ProjectInv'
  OBVIOUS
<1>1. CASE UNCHANGED vars
  BY <1>1 DEF vars, ProjectInv, TypeOK, ContainersHaveFile, RemovedIsGone, Placed, Progress,
     Dealt, IdsAreFresh, RunningIsMade, MadeIsOwned, FileIsWritten, Written, Ahead,
     BeforeParse, Looping, AtService, NobodyRemoves, Owned, Id
<1>2. ASSUME NEW r \in Requests, Step(r) PROVE ProjectInv'
  BY <1>2, FailsStep, ResolveStep, ReadFileStep, SaveStep, WriteStep, ParseStep, PickStep,
     PullStep, CreateStep, StartContainerStep, CleanupStep, ListStep, EachStep, RemoveDirStep
  DEF Step
<1>3. ASSUME NEW r \in Requests, NEW k \in Kinds, Start(r, k) PROVE ProjectInv'
  BY <1>3, StartStep
<1>4. CASE Crash BY <1>4, CrashStep
<1>5. QED BY <1>1, <1>2, <1>3, <1>4 DEF Next

-----------------------------------------------------------------------------
(* The theorems. *)

\* One container of a name, a compose file beside the containers, and nothing
\* left of what a removal was given (compose.go:60-90, 448-493).
THEOREM ProjectInvariant == Spec => []ProjectInv
BY InitInv, NextInv, PTL DEF Spec

\* A deploy that was answered as deployed keeps the containers of all its
\* services, whatever other deploys take back meanwhile (deploy_stream.go:108-120).
THEOREM DeployStays == Spec => []DeployedStays
<1>1. ProjectInv => DeployedStays
  BY DEF ProjectInv, Progress, MadeIsOwned, DeployedStays
<1>2. QED BY ProjectInvariant, <1>1, PTL

\* A streamed deploy that failed leaves nothing running that it has started, but
\* what Docker would not remove (deploy_stream.go:108-120).
THEOREM FailedDeployStops == Spec => []FailedLeavesNoneRunning
<1>1. ProjectInv => FailedLeavesNoneRunning
  BY DEF ProjectInv, Progress, RunningIsMade, FailedLeavesNoneRunning
<1>2. QED BY ProjectInvariant, <1>1, PTL
=============================================================================
