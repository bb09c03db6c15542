------------------------------ MODULE StackLock ------------------------------
(***************************************************************************)
(* The per-stack lock of internal/composecli: a sync.Map from stack names  *)
(* to *stackLock objects, each a mutex and a flag "held".  TryLock and     *)
(* Unlock are modelled one memory operation at a time, so the flag is read *)
(* in one step and written in another, with only the mutex between them.   *)
(***************************************************************************)
CONSTANTS Callers,  \* goroutines that run stack operations
          Stacks,   \* stack names
          NoCaller  \* "nobody": the nil of a map entry or a mutex

ASSUME NoCallerAssumption == NoCaller \notin Callers

VARIABLES entry,    \* stackLocks: which caller's &stackLock{} is stored for s
          held,     \* held[<<s, c>>]: flag of the object c allocated for s
          mu,       \* mu[<<s, c>>]: the goroutine inside that object's mutex
          pc,       \* where each caller is
          target,   \* the stack the caller's current operation is about
          ptr       \* the local variable l of TryLock and Unlock

vars == <<entry, held, mu, pc, target, ptr>>

Objects == Stacks \X Callers

TryPcs    == {"try_lock", "try_test", "try_set", "try_grant", "try_refuse"}
UnlockPcs == {"unlock_lock", "unlock_clear", "unlock_return"}
Pcs       == {"idle", "critical"} \cup TryPcs \cup UnlockPcs

\* The program points at which a caller is inside the mutex of its object.
InMutexPcs == {"try_test", "try_set", "try_grant", "try_refuse",
               "unlock_clear", "unlock_return"}
\* The program points at which a caller owns its stack: from held = true to
\* held = false.
OwnerPcs == {"try_grant", "critical", "unlock_lock", "unlock_clear"}

TypeOK == /\ entry \in [Stacks -> Callers \cup {NoCaller}]
          /\ held \in [Objects -> BOOLEAN]
          /\ mu \in [Objects -> Callers \cup {NoCaller}]
          /\ pc \in [Callers -> Pcs]
          /\ target \in [Callers -> Stacks]
          /\ ptr \in [Callers -> Objects]

Init == /\ entry = [s \in Stacks |-> NoCaller]
        /\ held = [o \in Objects |-> FALSE]
        /\ mu = [o \in Objects |-> NoCaller]
        /\ pc = [c \in Callers |-> "idle"]
        /\ target \in [Callers -> Stacks]
        /\ ptr \in {[c \in Callers |-> <<target[c], c>>]}

Goto(c, from, to) == /\ pc[c] = from
                     /\ pc' = [pc EXCEPT ![c] = to]

(***************************************************************************)
(* TryLock                                                                 *)
(***************************************************************************)

\* stackLocks.LoadOrStore(stackName, &stackLock{}): one atomic operation that
\* publishes c's own object only when the name has none yet.
LoadOrStore(c, s) ==
    LET owner == IF entry[s] = NoCaller THEN c ELSE entry[s]
    IN  /\ Goto(c, "idle", "try_lock")
        /\ target' = [target EXCEPT ![c] = s]
        /\ entry' = [entry EXCEPT ![s] = owner]
        /\ ptr' = [ptr EXCEPT ![c] = <<s, owner>>]
        /\ UNCHANGED <<held, mu>>

\* Mutant: TryLock reads and writes the flag without the mutex.
TryWithoutMutex(c) ==
    /\ \/ Goto(c, "try_lock", "try_test")
       \/ Goto(c, "unlock_lock", "unlock_clear") /\ mu[ptr[c]] = NoCaller
    /\ mu' = [mu EXCEPT ![ptr[c]] = c]
    /\ UNCHANGED <<entry, held, target, ptr>>

\* l.mu.Lock() in TryLock and in Unlock.
LockMutex(c) ==
    /\ \/ Goto(c, "try_lock", "try_test")
       \/ Goto(c, "unlock_lock", "unlock_clear")
    /\ mu[ptr[c]] = NoCaller
    /\ mu' = [mu EXCEPT ![ptr[c]] = c]
    /\ UNCHANGED <<entry, held, target, ptr>>

\* if l.held { return false }
TestHeld(c) ==
    /\ IF held[ptr[c]] THEN Goto(c, "try_test", "try_refuse")
                       ELSE Goto(c, "try_test", "try_set")
    /\ UNCHANGED <<entry, held, mu, target, ptr>>

\* l.held = true
SetHeld(c) ==
    /\ Goto(c, "try_set", "try_grant")
    /\ held' = [held EXCEPT ![ptr[c]] = TRUE]
    /\ UNCHANGED <<entry, mu, target, ptr>>

(***************************************************************************)
(* Unlock                                                                  *)
(***************************************************************************)

\* Mutant: Unlock also deletes the map entry, to keep the map small.
LoadAndDeleteEntry(c) ==
    /\ Goto(c, "critical", "unlock_lock")
    /\ entry' = [entry EXCEPT ![target[c]] = NoCaller]
    /\ UNCHANGED <<held, mu, target, ptr>>

\* The operation is over: its deferred Unlock loads the object, and returns
\* at once when the name has none.
LoadEntry(c) ==
    /\ IF entry[target[c]] = NoCaller
         THEN Goto(c, "critical", "idle") /\ UNCHANGED ptr
         ELSE /\ Goto(c, "critical", "unlock_lock")
              /\ ptr' = [ptr EXCEPT ![c] = <<target[c], entry[target[c]]>>]
    /\ UNCHANGED <<entry, held, mu, target>>

\* l.held = false
ClearHeld(c) ==
    /\ Goto(c, "unlock_clear", "unlock_return")
    /\ held' = [held EXCEPT ![ptr[c]] = FALSE]
    /\ UNCHANGED <<entry, mu, target, ptr>>

\* Mutant: the early return of a refused TryLock forgets the mutex.
KeepMutexWhenRefused(c) ==
    /\ \/ Goto(c, "try_refuse", "idle") /\ UNCHANGED mu
       \/ /\ \/ Goto(c, "try_grant", "critical")
             \/ Goto(c, "unlock_return", "idle")
          /\ mu' = [mu EXCEPT ![ptr[c]] = NoCaller]
    /\ UNCHANGED <<entry, held, target, ptr>>

\* The deferred l.mu.Unlock() of TryLock and of Unlock.
UnlockMutex(c) ==
    /\ \/ Goto(c, "try_grant", "critical")
       \/ Goto(c, "try_refuse", "idle")
       \/ Goto(c, "unlock_return", "idle")
    /\ mu' = [mu EXCEPT ![ptr[c]] = NoCaller]
    /\ UNCHANGED <<entry, held, target, ptr>>

Step(c) == \/ LockMutex(c) \/ TestHeld(c) \/ SetHeld(c)
           \/ ClearHeld(c) \/ UnlockMutex(c)

Next == \E c \in Callers : \/ \E s \in Stacks : LoadOrStore(c, s)
                           \/ LoadEntry(c)
                           \/ Step(c)

Spec == Init /\ [][Next]_vars

\* A goroutine inside TryLock or Unlock keeps running, and Go's mutex hands
\* itself to the longest waiter, so nobody starves at l.mu.Lock().  Nothing
\* makes an operation end: LoadEntry has no fairness.
Fairness == \A c \in Callers : /\ WF_vars(TestHeld(c) \/ SetHeld(c))
                               /\ WF_vars(ClearHeld(c) \/ UnlockMutex(c))
                               /\ SF_vars(LockMutex(c))

FairSpec == Spec /\ Fairness

-----------------------------------------------------------------------------
(***************************************************************************)
(* Properties                                                              *)
(***************************************************************************)
Owns(c, s) == pc[c] \in OwnerPcs /\ target[c] = s

\* Two operations never own the same stack, whoever published the lock
\* object and however the two TryLocks interleave (composecli.go:48-61).
MutualExclusion ==
    \A c, d \in Callers : \A s \in Stacks : Owns(c, s) /\ Owns(d, s) => c = d

\* The parts of the inductive invariant behind MutualExclusion.
\* A caller inside an operation works on the one published object.
PtrPublished ==
    \A c \in Callers :
        pc[c] # "idle" => /\ entry[target[c]] # NoCaller
                          /\ ptr[c] = <<target[c], entry[target[c]]>>
\* The mutex of an object belongs to the caller that is inside it.
MutexOwner == \A c \in Callers : pc[c] \in InMutexPcs => mu[ptr[c]] = c
\* The flag of an owned stack is up.
OwnerHeld == \A c \in Callers : pc[c] \in OwnerPcs => held[ptr[c]]
\* Between the test of the flag and its setting nobody raised it.
TestStillTrue == \A c \in Callers : pc[c] = "try_set" => ~held[ptr[c]]
\* The flag is never left up by nobody: a raised flag has an owner.
HeldHasOwner ==
    \A o \in Objects : held[o] =>
        \E c \in Callers : pc[c] \in OwnerPcs /\ ptr[c] = o
\* A refusal was given while somebody owned the stack.
RefusedForOwner ==
    \A c \in Callers : pc[c] = "try_refuse" => held[ptr[c]]

\* What the callers of TryLock and Unlock keep together: the inductive
\* invariant of the proofs.
LockInv == /\ TypeOK /\ PtrPublished /\ MutexOwner /\ OwnerHeld
           /\ TestStillTrue /\ HeldHasOwner /\ RefusedForOwner
           /\ MutualExclusion

\* "TryLock acquires the per-stack lock without blocking" (composecli.go:48):
\* it returns even when the operation that owns the stack never ends, and an
\* Unlock that has begun frees the stack.
CallsReturn ==
    \A c \in Callers :
        /\ pc[c] = "try_lock" ~> pc[c] \in {"critical", "idle"}
        /\ pc[c] = "unlock_lock" ~> pc[c] = "idle"

\* The lock implements the abstract one.
Users == [s \in Stacks |-> {c \in Callers : Owns(c, s)}]
Verdict == [c \in Callers |->
              IF pc[c] \in OwnerPcs THEN "granted"
              ELSE IF pc[c] = "try_refuse" THEN "busy" ELSE "none"]
Mutex == INSTANCE StackMutex
             WITH users <- Users, verdict <- Verdict, MayRestart <- FALSE
MutexSpec == Mutex!Spec
=============================================================================
