-------------------------- MODULE StackLock_proofs --------------------------
(***************************************************************************)
(* The per-stack lock of internal/composecli excludes, and implements the  *)
(* abstract lock of StackMutex, for every set of callers and of stacks.    *)
(***************************************************************************)
EXTENDS StackLock, TLAPS

\* The inductive invariant holds before anybody has called TryLock.
LEMMA InitLockInv == Init => LockInv
<1> SUFFICES ASSUME Init PROVE LockInv
  OBVIOUS
<1>1. PICK t \in [Callers -> Stacks] :
        target = t /\ ptr = [c \in Callers |-> <<t[c], c>>]
  BY DEF Init
<1>2. ptr \in [Callers -> Objects]
  BY <1>1 DEF Objects
<1>3. TypeOK
  BY <1>2 DEF Init, TypeOK, Pcs
<1>4. \A c \in Callers : pc[c] = "idle"
  BY DEF Init
<1>5. \A o \in Objects : ~held[o]
  BY DEF Init
<1>6. PtrPublished /\ MutexOwner /\ OwnerHeld /\ TestStillTrue /\ RefusedForOwner
  BY <1>4 DEF PtrPublished, MutexOwner, OwnerHeld, TestStillTrue,
              RefusedForOwner, InMutexPcs, OwnerPcs
<1>7. HeldHasOwner /\ MutualExclusion
  BY <1>4, <1>5 DEF HeldHasOwner, MutualExclusion, Owns, OwnerPcs
<1> QED
  BY <1>3, <1>6, <1>7 DEF LockInv

\* Publishing an object, or finding one, disturbs no operation in progress.
LEMMA LoadOrStoreInv ==
    ASSUME LockInv, NEW c \in Callers, NEW s \in Stacks, LoadOrStore(c, s)
    PROVE  LockInv'
<1> DEFINE owner == IF entry[s] = NoCaller THEN c ELSE entry[s]
<1>1. /\ pc[c] = "idle"
      /\ pc' = [pc EXCEPT ![c] = "try_lock"]
      /\ target' = [target EXCEPT ![c] = s]
      /\ entry' = [entry EXCEPT ![s] = owner]
      /\ ptr' = [ptr EXCEPT ![c] = <<s, owner>>]
      /\ UNCHANGED <<held, mu>>
  BY DEF LoadOrStore, Goto
<1>2. TypeOK
  BY DEF LockInv
<1>3. owner \in Callers /\ owner # NoCaller
  BY <1>2, NoCallerAssumption DEF TypeOK
<1>4. TypeOK'
  BY <1>1, <1>2, <1>3 DEF TypeOK, Objects, Pcs, TryPcs
<1>5. \A d \in Callers : d # c =>
         /\ pc'[d] = pc[d] /\ target'[d] = target[d] /\ ptr'[d] = ptr[d]
  BY <1>1, <1>2 DEF TypeOK
<1>6. /\ pc'[c] = "try_lock" /\ target'[c] = s
      /\ ptr'[c] = <<s, owner>> /\ entry'[s] = owner
  BY <1>1, <1>2 DEF TypeOK
<1>7. PtrPublished'
  <2> SUFFICES ASSUME NEW d \in Callers, pc'[d] # "idle"
               PROVE  /\ entry'[target'[d]] # NoCaller
                      /\ ptr'[d] = <<target'[d], entry'[target'[d]]>>
    BY DEF PtrPublished
  <2>1. CASE d = c
    BY <2>1, <1>3, <1>6
  <2>2. CASE d # c
    <3>1. /\ entry[target[d]] # NoCaller
          /\ ptr[d] = <<target[d], entry[target[d]]>>
      BY <2>2, <1>5 DEF LockInv, PtrPublished
    <3>2. entry'[target[d]] = entry[target[d]]
      BY <3>1, <1>1, <1>2 DEF TypeOK
    <3> QED
      BY <2>2, <3>1, <3>2, <1>5
  <2> QED
    BY <2>1, <2>2
<1>8. MutexOwner' /\ OwnerHeld' /\ TestStillTrue' /\ RefusedForOwner'
  BY <1>1, <1>5, <1>6 DEF LockInv, MutexOwner, OwnerHeld, TestStillTrue,
     RefusedForOwner, InMutexPcs, OwnerPcs
<1>9. HeldHasOwner'
  BY <1>1, <1>5 DEF LockInv, HeldHasOwner, OwnerPcs
<1>10. MutualExclusion'
  BY <1>5, <1>6 DEF LockInv, MutualExclusion, Owns, OwnerPcs
<1> QED
  BY <1>4, <1>7, <1>8, <1>9, <1>10 DEF LockInv

\* Entering the mutex: only a caller that finds it free becomes its owner.
LEMMA LockMutexInv ==
    ASSUME LockInv, NEW c \in Callers, LockMutex(c)
    PROVE  LockInv'
<1>1. /\ mu[ptr[c]] = NoCaller
      /\ mu' = [mu EXCEPT ![ptr[c]] = c]
      /\ UNCHANGED <<entry, held, target, ptr>>
  BY DEF LockMutex
<1>2. /\ pc[c] \in {"try_lock", "unlock_lock"}
      /\ \E to \in {"try_test", "unlock_clear"} : pc' = [pc EXCEPT ![c] = to]
  BY DEF LockMutex, Goto
<1>3. TypeOK
  BY DEF LockInv
<1>4. TypeOK'
  BY <1>1, <1>2, <1>3 DEF TypeOK, Pcs, TryPcs, UnlockPcs
<1>5. \A d \in Callers : d # c => pc'[d] = pc[d]
  BY <1>2, <1>3 DEF TypeOK
<1>6. \/ pc[c] = "try_lock" /\ pc'[c] = "try_test"
      \/ pc[c] = "unlock_lock" /\ pc'[c] = "unlock_clear"
  BY <1>3 DEF LockMutex, Goto, TypeOK
<1>7. PtrPublished'
  BY <1>1, <1>5, <1>6 DEF LockInv, PtrPublished
<1>8. MutexOwner'
  <2> SUFFICES ASSUME NEW d \in Callers, pc'[d] \in InMutexPcs
               PROVE  mu'[ptr[d]] = d
    BY <1>1 DEF MutexOwner
  <2>1. CASE d = c
    BY <2>1, <1>1, <1>3 DEF TypeOK
  <2>2. CASE d # c
    <3>1. mu[ptr[d]] = d
      BY <2>2, <1>5 DEF LockInv, MutexOwner
    <3>2. ptr[d] # ptr[c]
      BY <3>1, <1>1, NoCallerAssumption
    <3> QED
      BY <3>1, <3>2, <1>1, <1>3 DEF TypeOK
  <2> QED
    BY <2>1, <2>2
<1>9. OwnerHeld' /\ TestStillTrue' /\ RefusedForOwner'
  BY <1>1, <1>5, <1>6 DEF LockInv, OwnerHeld, TestStillTrue,
     RefusedForOwner, OwnerPcs
<1>10. HeldHasOwner'
  BY <1>1, <1>5, <1>6 DEF LockInv, HeldHasOwner, OwnerPcs
<1>11. MutualExclusion'
  BY <1>1, <1>5, <1>6 DEF LockInv, MutualExclusion, Owns, OwnerPcs
<1> QED
  BY <1>4, <1>7, <1>8, <1>9, <1>10, <1>11 DEF LockInv

\* Reading the flag under the mutex settles what TryLock will answer.
LEMMA TestHeldInv ==
    ASSUME LockInv, NEW c \in Callers, TestHeld(c)
    PROVE  LockInv'
<1>1. UNCHANGED <<entry, held, mu, target, ptr>>
  BY DEF TestHeld
<1>2. TypeOK
  BY DEF LockInv
<1>3. /\ pc[c] = "try_test"
      /\ \/ held[ptr[c]] /\ pc' = [pc EXCEPT ![c] = "try_refuse"]
         \/ ~held[ptr[c]] /\ pc' = [pc EXCEPT ![c] = "try_set"]
  BY DEF TestHeld, Goto
<1>4. \A d \in Callers : d # c => pc'[d] = pc[d]
  BY <1>2, <1>3 DEF TypeOK
<1>5. \/ held[ptr[c]] /\ pc'[c] = "try_refuse"
      \/ ~held[ptr[c]] /\ pc'[c] = "try_set"
  BY <1>2, <1>3 DEF TypeOK
<1>6. TypeOK'
  BY <1>1, <1>2, <1>3 DEF TypeOK, Pcs, TryPcs
<1>7. PtrPublished' /\ MutexOwner'
  BY <1>1, <1>3, <1>4 DEF LockInv, PtrPublished, MutexOwner, InMutexPcs
<1>8. OwnerHeld' /\ TestStillTrue' /\ RefusedForOwner'
  BY <1>1, <1>4, <1>5 DEF LockInv, OwnerHeld, TestStillTrue, RefusedForOwner,
     OwnerPcs
<1>9. HeldHasOwner' /\ MutualExclusion'
  BY <1>1, <1>3, <1>4, <1>5 DEF LockInv, HeldHasOwner, MutualExclusion, Owns,
     OwnerPcs
<1> QED
  BY <1>6, <1>7, <1>8, <1>9 DEF LockInv

\* Two callers inside the mutex of one object are the same caller.
LEMMA OneInMutex ==
    ASSUME LockInv, NEW c \in Callers, NEW d \in Callers,
           pc[c] \in InMutexPcs, pc[d] \in InMutexPcs, ptr[c] = ptr[d]
    PROVE  c = d
BY DEF LockInv, MutexOwner

\* Two callers that own the stacks of one object are the same caller.
LEMMA OneOwner ==
    ASSUME LockInv, NEW c \in Callers, NEW d \in Callers,
           pc[c] \in OwnerPcs, pc[d] \in OwnerPcs, ptr[c] = ptr[d]
    PROVE  c = d
<1>1. target[c] = target[d] /\ target[c] \in Stacks
  BY DEF LockInv, PtrPublished, OwnerPcs, TypeOK
<1> QED
  BY <1>1 DEF LockInv, MutualExclusion, Owns

\* Raising the flag makes c the owner: under the mutex the flag is still
\* down, so the stack has no other owner.
LEMMA SetHeldInv ==
    ASSUME LockInv, NEW c \in Callers, SetHeld(c)
    PROVE  LockInv'
<1>1. /\ pc[c] = "try_set"
      /\ pc' = [pc EXCEPT ![c] = "try_grant"]
      /\ held' = [held EXCEPT ![ptr[c]] = TRUE]
      /\ UNCHANGED <<entry, mu, target, ptr>>
  BY DEF SetHeld, Goto
<1>2. TypeOK
  BY DEF LockInv
<1>3. pc'[c] = "try_grant" /\ \A d \in Callers : d # c => pc'[d] = pc[d]
  BY <1>1, <1>2 DEF TypeOK
<1>4. held'[ptr[c]] /\ \A o \in Objects : o # ptr[c] => held'[o] = held[o]
  BY <1>1, <1>2 DEF TypeOK
<1>5. TypeOK'
  BY <1>1, <1>2 DEF TypeOK, Pcs, TryPcs
<1>6. PtrPublished' /\ MutexOwner'
  BY <1>1, <1>3 DEF LockInv, PtrPublished, MutexOwner, InMutexPcs
<1>7. OwnerHeld' /\ RefusedForOwner'
  BY <1>1, <1>2, <1>3, <1>4 DEF LockInv, OwnerHeld, RefusedForOwner, OwnerPcs,
     TypeOK
<1>8. TestStillTrue'
  <2> SUFFICES ASSUME NEW d \in Callers, pc'[d] = "try_set"
               PROVE  ~held'[ptr[d]]
    BY <1>1 DEF TestStillTrue
  <2>1. d # c /\ pc[d] = "try_set"
    BY <1>3
  <2>2. ptr[d] # ptr[c]
    BY <2>1, <1>1, OneInMutex DEF InMutexPcs
  <2> QED
    BY <2>1, <2>2, <1>2, <1>4 DEF LockInv, TestStillTrue, TypeOK
<1>9. HeldHasOwner'
  <2> SUFFICES ASSUME NEW o \in Objects, held'[o]
               PROVE  \E d \in Callers : pc'[d] \in OwnerPcs /\ ptr[d] = o
    BY <1>1 DEF HeldHasOwner
  <2>1. CASE o = ptr[c]
    BY <2>1, <1>3 DEF OwnerPcs
  <2>2. CASE o # ptr[c]
    BY <2>2, <1>1, <1>3, <1>4 DEF LockInv, HeldHasOwner, OwnerPcs
  <2> QED
    BY <2>1, <2>2
<1>10. MutualExclusion'
  <2>1. \A d \in Callers : pc[d] \in OwnerPcs => target[d] # target[c]
    BY <1>1 DEF LockInv, PtrPublished, OwnerHeld, TestStillTrue, OwnerPcs
  <2> QED
    BY <2>1, <1>1, <1>3 DEF LockInv, MutualExclusion, Owns
<1> QED
  BY <1>5, <1>6, <1>7, <1>8, <1>9, <1>10 DEF LockInv

\* Unlock looks its object up again: it is still the published one.
LEMMA LoadEntryInv ==
    ASSUME LockInv, NEW c \in Callers, LoadEntry(c)
    PROVE  LockInv'
<1>1. TypeOK
  BY DEF LockInv
<1>2. /\ pc[c] = "critical"
      /\ entry[target[c]] # NoCaller
      /\ ptr[c] = <<target[c], entry[target[c]]>>
  BY DEF LoadEntry, Goto, LockInv, PtrPublished
<1>3. /\ pc' = [pc EXCEPT ![c] = "unlock_lock"]
      /\ ptr' = [ptr EXCEPT ![c] = ptr[c]]
      /\ UNCHANGED <<entry, held, mu, target>>
  BY <1>2 DEF LoadEntry, Goto
<1>4. UNCHANGED ptr
  BY <1>1, <1>3 DEF TypeOK
<1>5. pc'[c] = "unlock_lock" /\ \A d \in Callers : d # c => pc'[d] = pc[d]
  BY <1>1, <1>3 DEF TypeOK
<1>6. TypeOK'
  BY <1>1, <1>3, <1>4 DEF TypeOK, Pcs, UnlockPcs
<1>7. PtrPublished' /\ MutexOwner' /\ OwnerHeld' /\ TestStillTrue'
      /\ RefusedForOwner'
  BY <1>2, <1>3, <1>4, <1>5 DEF LockInv, PtrPublished, MutexOwner, OwnerHeld,
     TestStillTrue, RefusedForOwner, InMutexPcs, OwnerPcs
<1>8. HeldHasOwner' /\ MutualExclusion'
  BY <1>2, <1>3, <1>4, <1>5 DEF LockInv, HeldHasOwner, MutualExclusion, Owns,
     OwnerPcs
<1> QED
  BY <1>6, <1>7, <1>8 DEF LockInv

\* Lowering the flag: the caller that lowers it was the only owner, and no
\* other caller is between its test of the flag and its answer.
LEMMA ClearHeldInv ==
    ASSUME LockInv, NEW c \in Callers, ClearHeld(c)
    PROVE  LockInv'
<1>1. /\ pc[c] = "unlock_clear"
      /\ pc' = [pc EXCEPT ![c] = "unlock_return"]
      /\ held' = [held EXCEPT ![ptr[c]] = FALSE]
      /\ UNCHANGED <<entry, mu, target, ptr>>
  BY DEF ClearHeld, Goto
<1>2. TypeOK
  BY DEF LockInv
<1>3. pc'[c] = "unlock_return" /\ \A d \in Callers : d # c => pc'[d] = pc[d]
  BY <1>1, <1>2 DEF TypeOK
<1>4. ~held'[ptr[c]] /\ \A o \in Objects : o # ptr[c] => held'[o] = held[o]
  BY <1>1, <1>2 DEF TypeOK
<1>5. TypeOK'
  BY <1>1, <1>2 DEF TypeOK, Pcs, UnlockPcs
<1>6. PtrPublished' /\ MutexOwner'
  BY <1>1, <1>3 DEF LockInv, PtrPublished, MutexOwner, InMutexPcs
<1>7. TestStillTrue'
  BY <1>1, <1>2, <1>3, <1>4 DEF LockInv, TestStillTrue, TypeOK
<1>8. OwnerHeld'
  <2> SUFFICES ASSUME NEW d \in Callers, pc'[d] \in OwnerPcs
               PROVE  held'[ptr[d]]
    BY <1>1 DEF OwnerHeld
  <2>1. d # c /\ pc[d] \in OwnerPcs
    BY <1>3 DEF OwnerPcs
  <2>2. ptr[d] # ptr[c]
    BY <2>1, <1>1, OneOwner DEF OwnerPcs
  <2> QED
    BY <2>1, <2>2, <1>2, <1>4 DEF LockInv, OwnerHeld, TypeOK
<1>9. RefusedForOwner'
  <2> SUFFICES ASSUME NEW d \in Callers, pc'[d] = "try_refuse"
               PROVE  held'[ptr[d]]
    BY <1>1 DEF RefusedForOwner
  <2>1. d # c /\ pc[d] = "try_refuse"
    BY <1>3
  <2>2. ptr[d] # ptr[c]
    BY <2>1, <1>1, OneInMutex DEF InMutexPcs
  <2> QED
    BY <2>1, <2>2, <1>2, <1>4 DEF LockInv, RefusedForOwner, TypeOK
<1>10. HeldHasOwner'
  BY <1>1, <1>3, <1>4 DEF LockInv, HeldHasOwner, OwnerPcs
<1>11. MutualExclusion'
  BY <1>1, <1>3 DEF LockInv, MutualExclusion, Owns, OwnerPcs
<1> QED
  BY <1>5, <1>6, <1>7, <1>8, <1>9, <1>10, <1>11 DEF LockInv

\* Leaving the mutex: nobody else was inside it.
LEMMA UnlockMutexInv ==
    ASSUME LockInv, NEW c \in Callers, UnlockMutex(c)
    PROVE  LockInv'
<1>1. /\ mu' = [mu EXCEPT ![ptr[c]] = NoCaller]
      /\ UNCHANGED <<entry, held, target, ptr>>
  BY DEF UnlockMutex
<1>2. TypeOK
  BY DEF LockInv
<1>3. \/ /\ pc[c] = "try_grant"
         /\ pc' = [pc EXCEPT ![c] = "critical"]
      \/ /\ pc[c] \in {"try_refuse", "unlock_return"}
         /\ pc' = [pc EXCEPT ![c] = "idle"]
  BY DEF UnlockMutex, Goto
<1>4. \A d \in Callers : d # c => pc'[d] = pc[d]
  BY <1>2, <1>3 DEF TypeOK
<1>5. \/ pc[c] = "try_grant" /\ pc'[c] = "critical"
      \/ pc[c] \in {"try_refuse", "unlock_return"} /\ pc'[c] = "idle"
  BY <1>2, <1>3 DEF TypeOK
<1>6. TypeOK'
  BY <1>1, <1>2, <1>3 DEF TypeOK, Pcs
<1>7. PtrPublished' /\ OwnerHeld' /\ TestStillTrue' /\ RefusedForOwner'
  BY <1>1, <1>4, <1>5 DEF LockInv, PtrPublished, OwnerHeld, TestStillTrue,
     RefusedForOwner, OwnerPcs
<1>8. MutexOwner'
  <2> SUFFICES ASSUME NEW d \in Callers, pc'[d] \in InMutexPcs
               PROVE  mu'[ptr[d]] = d
    BY <1>1 DEF MutexOwner
  <2>1. d # c /\ pc[d] \in InMutexPcs
    BY <1>4, <1>5 DEF InMutexPcs
  <2>2. ptr[d] # ptr[c]
    BY <2>1, <1>5, OneInMutex DEF InMutexPcs
  <2> QED
    BY <2>1, <2>2, <1>1, <1>2 DEF LockInv, MutexOwner, TypeOK
<1>9. HeldHasOwner' /\ MutualExclusion'
  BY <1>1, <1>4, <1>5 DEF LockInv, HeldHasOwner, MutualExclusion, Owns, OwnerPcs
<1> QED
  BY <1>6, <1>7, <1>8, <1>9 DEF LockInv

\* Every step keeps the inductive invariant.
LEMMA NextLockInv == LockInv /\ [Next]_vars => LockInv'
<1> SUFFICES ASSUME LockInv, [Next]_vars PROVE LockInv'
  OBVIOUS
<1>1. CASE UNCHANGED vars
  BY <1>1 DEF vars, LockInv, TypeOK, PtrPublished, MutexOwner, OwnerHeld,
     TestStillTrue, HeldHasOwner, RefusedForOwner, MutualExclusion, Owns
<1>2. ASSUME NEW c \in Callers, NEW s \in Stacks, LoadOrStore(c, s)
      PROVE  LockInv'
  BY <1>2, LoadOrStoreInv
<1>3. ASSUME NEW c \in Callers, LoadEntry(c) PROVE LockInv'
  BY <1>3, LoadEntryInv
<1>4. ASSUME NEW c \in Callers, Step(c) PROVE LockInv'
  BY <1>4, LockMutexInv, TestHeldInv, SetHeldInv, ClearHeldInv, UnlockMutexInv
     DEF Step
<1> QED
  BY <1>1, <1>2, <1>3, <1>4 DEF Next

\* The inductive invariant holds in every reachable state: in particular the
\* published object of a name never changes, its flag is up exactly while
\* the stack has an owner, and a refusal is given only while it has one.
THEOREM LockInvariant == Spec => []LockInv
<1>1. Init => LockInv
  BY InitLockInv
<1>2. LockInv /\ [Next]_vars => LockInv'
  BY NextLockInv
<1> QED
  BY <1>1, <1>2, PTL DEF Spec

\* Two operations never own the same stack, for any number of callers and
\* stacks (composecli.go:48-73).
THEOREM Exclusion == Spec => []MutualExclusion
<1>1. LockInv => MutualExclusion
  BY DEF LockInv
<1> QED
  BY <1>1, LockInvariant, PTL

-----------------------------------------------------------------------------
(***************************************************************************)
(* Refinement.                                                             *)
(***************************************************************************)
\* Before any call nobody owns a stack.
LEMMA InitMutex == Init => Mutex!Init
<1> SUFFICES ASSUME Init PROVE Mutex!Init
  OBVIOUS
<1>1. \A c \in Callers : pc[c] = "idle"
  BY DEF Init
<1>2. Users = [s \in Stacks |-> {}]
  BY <1>1 DEF Users, Owns, OwnerPcs
<1>3. Verdict = [c \in Callers |-> "none"]
  BY <1>1 DEF Verdict, OwnerPcs
<1> QED
  BY <1>2, <1>3 DEF Mutex!Init

\* A step of c that neither makes c an owner, nor ends its ownership, nor
\* refuses it, is invisible to the abstract lock.
LEMMA SilentStep ==
    ASSUME LockInv, LockInv', NEW c \in Callers,
           \A d \in Callers : d # c => pc'[d] = pc[d] /\ target'[d] = target[d],
           pc'[c] \in OwnerPcs <=> pc[c] \in OwnerPcs,
           pc'[c] = "try_refuse" <=> pc[c] = "try_refuse",
           pc[c] \in OwnerPcs => target'[c] = target[c]
    PROVE  UNCHANGED <<Users, Verdict>>
<1>1. \A d \in Callers : \A s \in Stacks : Owns(d, s)' <=> Owns(d, s)
  BY DEF Owns
<1>2. Users' = Users
  BY <1>1 DEF Users
<1>3. \A d \in Callers : /\ pc'[d] \in OwnerPcs <=> pc[d] \in OwnerPcs
                         /\ pc'[d] = "try_refuse" <=> pc[d] = "try_refuse"
  OBVIOUS
<1>4. Verdict' = Verdict
  BY <1>3 DEF Verdict
<1> QED
  BY <1>2, <1>4

\* Raising the flag is the moment the stack is granted.
LEMMA SetHeldGrants ==
    ASSUME LockInv, LockInv', NEW c \in Callers, SetHeld(c)
    PROVE  Mutex!Grant(c, target[c])
<1> DEFINE s == target[c]
<1>1. /\ pc[c] = "try_set"
      /\ pc' = [pc EXCEPT ![c] = "try_grant"]
      /\ UNCHANGED target
  BY DEF SetHeld, Goto
<1>2. TypeOK
  BY DEF LockInv
<1>3. s \in Stacks
  BY <1>2 DEF TypeOK
<1>4. pc'[c] = "try_grant" /\ \A d \in Callers : d # c => pc'[d] = pc[d]
  BY <1>1, <1>2 DEF TypeOK
<1>5. \A d \in Callers : ~Owns(d, s)
  BY <1>1 DEF LockInv, PtrPublished, OwnerHeld, TestStillTrue, Owns, OwnerPcs
<1>6. Users[s] = {}
  BY <1>3, <1>5 DEF Users
<1>7. \A d \in Callers : \A t \in Stacks :
        Owns(d, t)' <=> (Owns(d, t) \/ (d = c /\ t = s))
  BY <1>1, <1>4 DEF Owns, OwnerPcs
<1>8. Users' = [Users EXCEPT ![s] = {c}]
  <2>1. Users' = [t \in Stacks |-> {d \in Callers : Owns(d, t)'}]
    BY DEF Users
  <2>2. \A t \in Stacks : {d \in Callers : Owns(d, t)'}
                            = IF t = s THEN {c} ELSE {d \in Callers : Owns(d, t)}
    BY <1>5, <1>7
  <2>3. [Users EXCEPT ![s] = {c}]
          = [t \in Stacks |-> IF t = s THEN {c} ELSE {d \in Callers : Owns(d, t)}]
    BY <1>3 DEF Users
  <2> HIDE DEF s
  <2> QED
    BY <2>1, <2>2, <2>3
<1>9. Verdict[c] = "none"
  BY <1>1 DEF Verdict, OwnerPcs
<1>10. Verdict' = [Verdict EXCEPT ![c] = "granted"]
  BY <1>4 DEF Verdict, OwnerPcs
<1> QED
  BY <1>6, <1>8, <1>9, <1>10 DEF Mutex!Grant

\* A raised flag found by TestHeld is a refusal, and somebody owns the stack.
LEMMA TestHeldRefuses ==
    ASSUME LockInv, LockInv', NEW c \in Callers, TestHeld(c), held[ptr[c]]
    PROVE  Mutex!Refuse(c, target[c])
<1> DEFINE s == target[c]
<1>1. /\ pc[c] = "try_test"
      /\ pc' = [pc EXCEPT ![c] = "try_refuse"]
      /\ UNCHANGED target
  BY DEF TestHeld, Goto
<1>2. TypeOK
  BY DEF LockInv
<1>3. s \in Stacks
  BY <1>2 DEF TypeOK
<1>4. pc'[c] = "try_refuse" /\ \A d \in Callers : d # c => pc'[d] = pc[d]
  BY <1>1, <1>2 DEF TypeOK
<1>5. \E d \in Callers : Owns(d, s)
  <2>1. PICK d \in Callers : pc[d] \in OwnerPcs /\ ptr[d] = ptr[c]
    BY <1>2 DEF LockInv, HeldHasOwner, TypeOK
  <2>2. target[d] = target[c]
    BY <2>1, <1>1 DEF LockInv, PtrPublished, OwnerPcs
  <2> QED
    BY <2>1, <2>2 DEF Owns
<1>6. Users[s] # {}
  BY <1>3, <1>5 DEF Users
<1>7. \A d \in Callers : \A t \in Stacks : Owns(d, t)' <=> Owns(d, t)
  BY <1>1, <1>4 DEF Owns, OwnerPcs
<1>8. Users' = Users
  BY <1>7 DEF Users
<1>9. Verdict[c] = "none"
  BY <1>1 DEF Verdict, OwnerPcs
<1>10. Verdict' = [Verdict EXCEPT ![c] = "busy"]
  BY <1>4 DEF Verdict, OwnerPcs
<1> QED
  BY <1>6, <1>8, <1>9, <1>10 DEF Mutex!Refuse

\* Lowering the flag is the moment the stack is given back.
LEMMA ClearHeldReleases ==
    ASSUME LockInv, LockInv', NEW c \in Callers, ClearHeld(c)
    PROVE  Mutex!Release(c, target[c])
<1> DEFINE s == target[c]
<1>1. /\ pc[c] = "unlock_clear"
      /\ pc' = [pc EXCEPT ![c] = "unlock_return"]
      /\ UNCHANGED target
  BY DEF ClearHeld, Goto
<1>2. TypeOK
  BY DEF LockInv
<1>3. s \in Stacks
  BY <1>2 DEF TypeOK
<1>4. pc'[c] = "unlock_return" /\ \A d \in Callers : d # c => pc'[d] = pc[d]
  BY <1>1, <1>2 DEF TypeOK
<1>5. c \in Users[s]
  BY <1>1, <1>3 DEF Users, Owns, OwnerPcs
<1>6. \A d \in Callers : \A t \in Stacks :
        Owns(d, t)' <=> (Owns(d, t) /\ ~(d = c /\ t = s))
  BY <1>1, <1>4 DEF Owns, OwnerPcs
<1>7. Users' = [Users EXCEPT ![s] = @ \ {c}]
  <2>1. Users' = [t \in Stacks |-> {d \in Callers : Owns(d, t)'}]
    BY DEF Users
  <2>2. \A t \in Stacks :
          {d \in Callers : Owns(d, t)'}
            = IF t = s THEN {d \in Callers : Owns(d, t)} \ {c}
                       ELSE {d \in Callers : Owns(d, t)}
    BY <1>6
  <2>3. [Users EXCEPT ![s] = @ \ {c}]
          = [t \in Stacks |-> IF t = s THEN {d \in Callers : Owns(d, t)} \ {c}
                                       ELSE {d \in Callers : Owns(d, t)}]
    BY <1>3 DEF Users
  <2> HIDE DEF s
  <2> QED
    BY <2>1, <2>2, <2>3
<1>8. Verdict' = [Verdict EXCEPT ![c] = "none"]
  BY <1>4 DEF Verdict, OwnerPcs
<1> QED
  BY <1>5, <1>7, <1>8 DEF Mutex!Release

\* Leaving TryLock with a refusal lets the caller call again.
LEMMA UnlockMutexForgets ==
    ASSUME LockInv, LockInv', NEW c \in Callers, UnlockMutex(c),
           pc[c] = "try_refuse"
    PROVE  Mutex!Forget(c)
<1>1. pc' = [pc EXCEPT ![c] = "idle"] /\ UNCHANGED target
  BY DEF UnlockMutex, Goto
<1>2. pc'[c] = "idle" /\ \A d \in Callers : d # c => pc'[d] = pc[d]
  BY <1>1 DEF LockInv, TypeOK
<1>3. Users' = Users
  <2>1. \A d \in Callers : \A t \in Stacks : Owns(d, t)' <=> Owns(d, t)
    BY <1>1, <1>2 DEF Owns, OwnerPcs
  <2> QED
    BY <2>1 DEF Users
<1>4. Verdict[c] = "busy"
  BY DEF Verdict, OwnerPcs
<1>5. Verdict' = [Verdict EXCEPT ![c] = "none"]
  BY <1>2 DEF Verdict, OwnerPcs
<1> QED
  BY <1>3, <1>4, <1>5 DEF Mutex!Forget

\* Every step is a step of the abstract lock or leaves it alone.
LEMMA NextMutex ==
    ASSUME LockInv, LockInv', [Next]_vars
    PROVE  [Mutex!Next]_(Mutex!vars)
<1>1. CASE UNCHANGED vars
  BY <1>1 DEF vars, Mutex!vars, Users, Verdict, Owns
<1>2. ASSUME NEW c \in Callers, NEW s \in Stacks, LoadOrStore(c, s)
      PROVE  UNCHANGED <<Users, Verdict>>
  <2>1. /\ pc[c] = "idle" /\ pc'[c] = "try_lock"
        /\ \A d \in Callers : d # c => pc'[d] = pc[d] /\ target'[d] = target[d]
    BY <1>2 DEF LoadOrStore, Goto, LockInv, TypeOK
  <2> QED
    BY <2>1, SilentStep DEF OwnerPcs
<1>3. ASSUME NEW c \in Callers, LoadEntry(c) PROVE UNCHANGED <<Users, Verdict>>
  <2>1. /\ pc[c] = "critical" /\ pc'[c] = "unlock_lock" /\ target' = target
        /\ \A d \in Callers : d # c => pc'[d] = pc[d]
    BY <1>3 DEF LoadEntry, Goto, LockInv, PtrPublished, TypeOK
  <2> QED
    BY <2>1, SilentStep DEF OwnerPcs
<1>4. ASSUME NEW c \in Callers, LockMutex(c) PROVE UNCHANGED <<Users, Verdict>>
  <2>1. /\ \/ pc[c] = "try_lock" /\ pc'[c] = "try_test"
           \/ pc[c] = "unlock_lock" /\ pc'[c] = "unlock_clear"
        /\ target' = target
        /\ \A d \in Callers : d # c => pc'[d] = pc[d]
    BY <1>4 DEF LockMutex, Goto, LockInv, TypeOK
  <2> QED
    BY <2>1, SilentStep DEF OwnerPcs
<1>5. ASSUME NEW c \in Callers, TestHeld(c), ~held[ptr[c]]
      PROVE  UNCHANGED <<Users, Verdict>>
  <2>1. /\ pc[c] = "try_test" /\ pc'[c] = "try_set" /\ target' = target
        /\ \A d \in Callers : d # c => pc'[d] = pc[d]
    BY <1>5 DEF TestHeld, Goto, LockInv, TypeOK
  <2> QED
    BY <2>1, SilentStep DEF OwnerPcs
<1>6. ASSUME NEW c \in Callers, UnlockMutex(c), pc[c] # "try_refuse"
      PROVE  UNCHANGED <<Users, Verdict>>
  <2>1. /\ \/ pc[c] = "try_grant" /\ pc'[c] = "critical"
           \/ pc[c] = "unlock_return" /\ pc'[c] = "idle"
        /\ target' = target
        /\ \A d \in Callers : d # c => pc'[d] = pc[d]
    BY <1>6 DEF UnlockMutex, Goto, LockInv, TypeOK
  <2> QED
    BY <2>1, SilentStep DEF OwnerPcs
<1>7. \A c \in Callers : target[c] \in Stacks
  BY DEF LockInv, TypeOK
<1>8. ASSUME NEW c \in Callers, Step(c) PROVE [Mutex!Next]_(Mutex!vars)
  <2>1. CASE LockMutex(c)
    BY <2>1, <1>4 DEF Mutex!vars
  <2>2. CASE TestHeld(c)
    BY <2>2, <1>5, <1>7, TestHeldRefuses DEF Mutex!vars, Mutex!Next
  <2>3. CASE SetHeld(c)
    BY <2>3, <1>7, SetHeldGrants DEF Mutex!Next
  <2>4. CASE ClearHeld(c)
    BY <2>4, <1>7, ClearHeldReleases DEF Mutex!Next
  <2>5. CASE UnlockMutex(c)
    BY <2>5, <1>6, UnlockMutexForgets DEF Mutex!vars, Mutex!Next
  <2> QED
    BY <1>8, <2>1, <2>2, <2>3, <2>4, <2>5 DEF Step
<1> QED
  BY <1>1, <1>2, <1>3, <1>8 DEF Next, Mutex!vars

\* The lock of composecli implements the abstract per-stack lock: it grants
\* a stack only when it is free and refuses it only when it is owned.
THEOREM Refinement == Spec => MutexSpec
<1>1. Init => Mutex!Init
  BY InitMutex
<1>2. LockInv /\ LockInv' /\ [Next]_vars => [Mutex!Next]_(Mutex!vars)
  BY NextMutex
<1> QED
  BY <1>1, <1>2, LockInvariant, PTL DEF Spec, MutexSpec, Mutex!Spec
=============================================================================
