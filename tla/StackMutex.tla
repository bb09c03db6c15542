----------------------------- MODULE StackMutex -----------------------------
(***************************************************************************)
(* What internal/composecli promises about the per-stack operation lock:   *)
(* an operation is granted the stack when nobody uses it and is refused,   *)
(* never made to wait, when somebody does.  The module knows nothing of    *)
(* the map of lock objects or of their mutexes (StackLock), nor of what an *)
(* operation does while it owns the stack (StackStore); both implement it. *)
(***************************************************************************)
CONSTANTS Callers,     \* goroutines that run stack operations
          Stacks,      \* stack names
          MayRestart   \* whether the agent may restart

VARIABLES users,    \* users[s]: the callers that own stack s
          verdict   \* verdict[c]: what c's last TryLock answered

vars == <<users, verdict>>

Verdicts == {"none", "granted", "busy"}

TypeOK == /\ users \in [Stacks -> SUBSET Callers]
          /\ verdict \in [Callers -> Verdicts]

Init == /\ users = [s \in Stacks |-> {}]
        /\ verdict = [c \in Callers |-> "none"]

\* TryLock answers true: the stack was free and now belongs to c.
Grant(c, s) == /\ verdict[c] = "none"
               /\ users[s] = {}
               /\ users' = [users EXCEPT ![s] = {c}]
               /\ verdict' = [verdict EXCEPT ![c] = "granted"]

\* TryLock answers false: somebody else owns the stack at that moment.
Refuse(c, s) == /\ verdict[c] = "none"
                /\ users[s] # {}
                /\ verdict' = [verdict EXCEPT ![c] = "busy"]
                /\ UNCHANGED users

\* The owner gives the stack back.
Release(c, s) == /\ c \in users[s]
                 /\ users' = [users EXCEPT ![s] = @ \ {c}]
                 /\ verdict' = [verdict EXCEPT ![c] = "none"]

\* A refused caller has reported the refusal and may call again.
Forget(c) == /\ verdict[c] = "busy"
             /\ verdict' = [verdict EXCEPT ![c] = "none"]
             /\ UNCHANGED users

\* The agent restarts: the owners are gone, and the table of locks with them.
Restart == /\ MayRestart
           /\ users' = [s \in Stacks |-> {}]
           /\ verdict' = [c \in Callers |->
                            IF verdict[c] = "granted" THEN "none" ELSE verdict[c]]

Next == \/ Restart
        \/ \E c \in Callers :
              \/ Forget(c)
              \/ \E s \in Stacks : Grant(c, s) \/ Refuse(c, s) \/ Release(c, s)

Spec == Init /\ [][Next]_vars
=============================================================================
