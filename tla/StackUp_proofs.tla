---------------------------- MODULE StackUp_proofs ----------------------------
(***************************************************************************)
(* StreamInv and UpInv are inductive: of every step of a deploy            *)
(* session, for every number of viewers and capacity of the channel; and   *)
(* of a whole stack operation, for every length and timing of its command. *)
(* An operation implements the session it streams into, and what a viewer  *)
(* is told is true follows.                                                *)
(***************************************************************************)
EXTENDS StackUp, SequenceTheorems, WellFoundedInduction, TLAPS

USE BoundsAssumption DEF Readers

-----------------------------------------------------------------------------
(* Sequences of events. *)

LEMMA EmptyMembers == Members(<<>>) = {} /\ InOrder(<<>>)
BY DEF Members, InOrder

LEMMA MembersType == ASSUME NEW S, NEW s \in Seq(S) PROVE Members(s) \subseteq S
BY ElementOfSeq DEF Members

\* An event that is newer than all of a sequence goes to its end.
LEMMA AppendNewest ==
    ASSUME NEW s \in Seq(Nat), NEW e \in Nat, InOrder(s), \A i \in Members(s) : i < e
    PROVE  /\ Members(Append(s, e)) = Members(s) \cup {e}
           /\ InOrder(Append(s, e))
<1> DEFINE t == Append(s, e)
<1>1. /\ Len(s) \in Nat /\ Len(t) = Len(s) + 1 /\ t[Len(s) + 1] = e
      /\ \A i \in 1..Len(s) : t[i] = s[i]
  BY AppendProperties, LenProperties
<1> HIDE DEF t
<1>2. Members(t) = Members(s) \cup {e}
  <2>1. 1..Len(t) = 1..Len(s) \cup {Len(s) + 1} BY <1>1
  <2>2. QED BY <1>1, <2>1 DEF Members
<1>3. InOrder(t)
  <2> SUFFICES ASSUME NEW i \in 1..Len(t), NEW j \in 1..Len(t), i < j PROVE t[i] < t[j]
    BY DEF InOrder
  <2>1. i \in 1..Len(s) /\ t[i] = s[i] /\ s[i] \in Members(s) BY <1>1 DEF Members
  <2>2. CASE j \in 1..Len(s) BY <1>1, <2>1, <2>2 DEF InOrder
  <2>3. CASE j = Len(s) + 1 BY <1>1, <2>1, <2>3
  <2>4. QED BY <1>1, <2>2, <2>3
<1>4. QED BY <1>2, <1>3 DEF t

\* The oldest event of a sequence is taken from its head, and is not in it again.
LEMMA TakeOldest ==
    ASSUME NEW s \in Seq(Nat), s # <<>>, InOrder(s)
    PROVE  /\ Head(s) \in Members(s) /\ Members(Tail(s)) = Members(s) \ {Head(s)}
           /\ InOrder(Tail(s))
           /\ \A i \in Members(Tail(s)) : Head(s) < i
<1> DEFINE t == Tail(s)
<1>1. /\ Len(s) \in Nat \ {0} /\ Len(t) = Len(s) - 1 /\ Head(s) = s[1]
      /\ \A i \in 1..Len(t) : t[i] = s[i + 1]
      /\ \A i \in 1..Len(s) : s[i] \in Nat
  BY HeadTailProperties, EmptySeq, LenProperties, ElementOfSeq
<1> HIDE DEF t
<1>2. Head(s) \in Members(s) BY <1>1 DEF Members
<1>3. \A i \in Members(t) : i \in Members(s) /\ Head(s) < i
  <2> SUFFICES ASSUME NEW k \in 1..Len(t) PROVE t[k] \in Members(s) /\ Head(s) < t[k]
    BY DEF Members
  <2>1. k + 1 \in 1..Len(s) /\ 1 \in 1..Len(s) /\ 1 < k + 1 BY <1>1
  <2>2. s[k + 1] \in Members(s) BY <2>1 DEF Members
  <2>3. s[1] < s[k + 1] BY <2>1 DEF InOrder
  <2>4. QED BY <1>1, <2>2, <2>3
<1>4. \A i \in Members(s) : i = Head(s) \/ i \in Members(t)
  <2> SUFFICES ASSUME NEW k \in 1..Len(s), k # 1 PROVE s[k] \in Members(t)
    BY <1>1 DEF Members
  <2>1. k - 1 \in 1..Len(t) /\ t[k - 1] = s[k] BY <1>1
  <2>2. QED BY <2>1 DEF Members
<1>5. InOrder(t)
  <2> SUFFICES ASSUME NEW i \in 1..Len(t), NEW j \in 1..Len(t), i < j PROVE t[i] < t[j]
    BY DEF InOrder
  <2>1. i + 1 \in 1..Len(s) /\ j + 1 \in 1..Len(s) /\ i + 1 < j + 1 BY <1>1
  <2>2. QED BY <1>1, <2>1 DEF InOrder
<1>6. \A i \in Members(s) : i \in Nat BY MembersType
<1>7. Members(t) = Members(s) \ {Head(s)} BY <1>2, <1>3, <1>4, <1>6
<1>8. QED BY <1>2, <1>3, <1>5, <1>7 DEF t

-----------------------------------------------------------------------------
(* Where the events are. *)

Relayed == UNION {Members(delivered[r]) : r \in Readers}

\* The parts of EachEventOnce.
Ordered  == InOrder(events) /\ \A r \in Readers : InOrder(delivered[r])
Apart    == \A r, q \in Readers : r # q => Members(delivered[r]) \cap Members(delivered[q]) = {}
OnePlace == /\ Members(events) \cup dropped \cup lost \cup Relayed = 1..count
            /\ Members(events) \cap Relayed = {}
            /\ (dropped \cup lost) \cap (Members(events) \cup Relayed) = {}

LEMMA Parts == EachEventOnce <=> Ordered /\ Apart /\ OnePlace
BY DEF EachEventOnce, Ordered, Apart, OnePlace, Relayed

\* What readers have relayed, and what is in the channel, are numbers.
LEMMA EventsAreNumbers ==
    ASSUME TypeOK
    PROVE  /\ events \in Seq(Nat) /\ Members(events) \subseteq Numbers /\ Numbers \subseteq Nat
           /\ \A r \in Readers : delivered[r] \in Seq(Nat) /\ Members(delivered[r]) \subseteq Numbers
<1>1. Numbers \subseteq Nat BY DEF Numbers
<1>2. QED BY <1>1, MembersType, SeqMonotonic DEF TypeOK

-----------------------------------------------------------------------------
(* The deploy. *)

LEMMA EmitStep == ASSUME StreamInv, Emit PROVE StreamInv'
<1> USE DEF StreamInv, Emit, producer, relay
<1> DEFINE e == count + 1
<1>0. /\ count' = e /\ e \in Nat /\ e \in Numbers /\ 1..e = 1..count \cup {e} /\ count \in Nat
      /\ \A i \in 1..count : i < e
  BY DEF TypeOK, Numbers
<1>1. \A i \in Members(events) \cup dropped \cup lost \cup Relayed : i \in 1..count
  BY Parts DEF OnePlace
<1>2. CASE Len(events) < ChanCap
  <2>1. events' = Append(events, e) /\ UNCHANGED <<dropped, delivered, lost>>
    BY <1>0, <1>2
  <2>2. Members(events') = Members(events) \cup {e} /\ InOrder(events')
    BY <1>0, <1>1, <2>1, EventsAreNumbers, AppendNewest DEF EachEventOnce
  <2>3. TypeOK'
    <3>1. events' \in Seq(Numbers) /\ Len(events') = Len(events) + 1
      BY <1>0, <2>1, AppendProperties DEF TypeOK
    <3>2. Len(events') <= ChanCap BY <1>2, <3>1, LenProperties DEF TypeOK
    <3>3. QED BY <1>0, <2>1, <3>1, <3>2 DEF TypeOK
  <2>4. EachEventOnce'
    <3>1. Relayed' = Relayed BY <2>1 DEF Relayed
    <3>2. (Ordered /\ Apart)' BY <2>1, <2>2, Parts DEF Ordered, Apart
    <3>3. OnePlace' BY <1>0, <1>1, <2>1, <2>2, <3>1, Parts DEF OnePlace
    <3>4. QED BY <3>2, <3>3, Parts DEF EachEventOnce, Ordered, Apart, OnePlace, Relayed
  <2>5. InFront'
    <3>1. \A r \in Readers : \A i \in Members(delivered[r]) : i < e
      BY <1>0, <1>1 DEF Relayed
    <3>2. QED BY <2>1, <2>2, <3>1 DEF InFront
  <2>6. Phases' /\ FoundWhileRunning' BY DEF Phases, FoundWhileRunning
  <2>7. QED BY <2>3, <2>4, <2>5, <2>6
<1>3. CASE ~(Len(events) < ChanCap)
  <2>1. dropped' = dropped \cup {e} /\ UNCHANGED <<events, delivered, lost>>
    BY <1>0, <1>3
  <2>2. TypeOK' BY <1>0, <2>1 DEF TypeOK
  <2>3. EachEventOnce'
    <3>1. Relayed' = Relayed BY <2>1 DEF Relayed
    <3>2. (Ordered /\ Apart)' BY <2>1, Parts DEF Ordered, Apart
    <3>3. OnePlace' BY <1>0, <1>1, <2>1, <3>1, Parts DEF OnePlace
    <3>4. QED BY <3>2, <3>3 DEF EachEventOnce, Ordered, Apart, OnePlace, Relayed
  <2>4. InFront' BY <2>1 DEF InFront
  <2>5. Phases' /\ FoundWhileRunning' BY DEF Phases, FoundWhileRunning
  <2>6. QED BY <2>2, <2>3, <2>4, <2>5
<1>4. QED BY <1>2, <1>3

\* A step that touches no event.
LEMMA EventsStay ==
    ASSUME StreamInv, UNCHANGED <<count, events, dropped, delivered, lost>>
    PROVE  EachEventOnce' /\ InFront'
BY DEF StreamInv, EachEventOnce, InFront

LEMMA FinishStep == ASSUME StreamInv, Finish PROVE StreamInv'
<1> USE DEF StreamInv, Finish, relay
<1>1. TypeOK' BY DEF TypeOK
<1>2. Phases' /\ FoundWhileRunning' BY DEF Phases, FoundWhileRunning
<1>3. QED BY <1>1, <1>2, EventsStay

LEMMA RemoveSessionStep == ASSUME StreamInv, RemoveSession PROVE StreamInv'
<1> USE DEF StreamInv, RemoveSession, producer, relay
<1>1. TypeOK' BY DEF TypeOK
<1>2. Phases' /\ FoundWhileRunning' BY DEF Phases, FoundWhileRunning
<1>3. QED BY <1>1, <1>2, EventsStay

-----------------------------------------------------------------------------
(* The readers. *)

\* The oldest event goes from the channel to who has relayed or lost it.
LEMMA TakeStep ==
    ASSUME NEW r \in Readers, StreamInv, Take(r), UNCHANGED <<count, dropped>>
    PROVE  /\ EachEventOnce' /\ InFront'
           /\ events' \in Seq(Numbers) /\ Len(events') <= ChanCap
           /\ delivered' \in [Readers -> Seq(Numbers)] /\ lost' \subseteq Numbers
<1> USE DEF StreamInv
<1> DEFINE e == Head(events)
<1>0. events # <<>> /\ events' = Tail(events) /\ events \in Seq(Numbers)
  BY DEF Take, TypeOK
<1>1. /\ e \in Members(events) /\ Members(events') = Members(events) \ {e}
      /\ InOrder(events') /\ \A i \in Members(events') : e < i
  BY <1>0, EventsAreNumbers, TakeOldest DEF EachEventOnce
<1>2. e \in Numbers /\ e \in Nat BY <1>1, EventsAreNumbers
<1>3. events' \in Seq(Numbers) /\ Len(events') <= ChanCap
  BY <1>0, HeadTailProperties, LenProperties DEF TypeOK
<1> HIDE DEF e
<1>4. CASE r \in connected
  <2>1. /\ delivered' = [delivered EXCEPT ![r] = Append(delivered[r], e)] /\ lost' = lost
        /\ delivered \in [Readers -> Seq(Numbers)]
    BY <1>4 DEF Take, TypeOK, e
  <2>2. \A i \in Members(delivered[r]) : i < e
    BY <1>1 DEF InFront
  <2>3. /\ delivered'[r] \in Seq(Numbers) /\ InOrder(delivered'[r])
        /\ Members(delivered'[r]) = Members(delivered[r]) \cup {e}
    BY <1>2, <2>1, <2>2, EventsAreNumbers, AppendNewest, AppendProperties DEF EachEventOnce
  <2>4. \A q \in Readers \ {r} : delivered'[q] = delivered[q] BY <2>1
  <2>5. delivered' \in [Readers -> Seq(Numbers)] /\ lost' \subseteq Numbers
    BY <2>1, <2>3, <2>4 DEF TypeOK
  <2>6. Relayed' = Relayed \cup {e} BY <2>3, <2>4 DEF Relayed
  <2>7. EachEventOnce'
    <3>1. Ordered' BY <1>1, <2>3, <2>4, Parts DEF Ordered
    <3>2. Apart'
      <4>1. \A q \in Readers : e \notin Members(delivered[q])
        BY <1>1, Parts DEF OnePlace, Relayed
      <4>2. SUFFICES ASSUME NEW p \in Readers, NEW q \in Readers, p # q
                     PROVE  Members(delivered'[p]) \cap Members(delivered'[q]) = {}
        BY DEF Apart
      <4>3. Members(delivered[p]) \cap Members(delivered[q]) = {}
        BY <4>2, Parts DEF Apart
      <4>4. CASE p = r BY <2>3, <2>4, <4>1, <4>2, <4>3, <4>4
      <4>5. CASE q = r BY <2>3, <2>4, <4>1, <4>2, <4>3, <4>5
      <4>6. CASE p # r /\ q # r BY <2>4, <4>2, <4>3, <4>6
      <4>7. QED BY <4>4, <4>5, <4>6
    <3>3. OnePlace' BY <1>1, <2>1, <2>6, Parts DEF OnePlace
    <3>4. QED BY <3>1, <3>2, <3>3 DEF EachEventOnce, Ordered, Apart, OnePlace, Relayed
  <2>8. InFront' BY <1>1, <2>3, <2>4 DEF InFront
  <2>9. QED BY <1>3, <2>5, <2>7, <2>8
<1>5. CASE r \notin connected
  <2>1. delivered' = delivered /\ lost' = lost \cup {e} BY <1>5 DEF Take, e
  <2>2. lost' \subseteq Numbers BY <1>2, <2>1 DEF TypeOK
  <2>3. EachEventOnce'
    <3>1. Relayed' = Relayed BY <2>1 DEF Relayed
    <3>2. (Ordered /\ Apart)' BY <1>1, <2>1, Parts DEF Ordered, Apart
    <3>3. OnePlace' BY <1>1, <2>1, <3>1, Parts DEF OnePlace
    <3>4. QED BY <3>2, <3>3 DEF EachEventOnce, Ordered, Apart, OnePlace, Relayed
  <2>4. InFront' BY <1>1, <2>1 DEF InFront
  <2>5. QED BY <1>3, <2>1, <2>2, <2>3, <2>4 DEF TypeOK
<1>6. QED BY <1>4, <1>5

LEMMA RelayStep ==
    ASSUME NEW v \in Viewers, StreamInv, Relay(v) PROVE StreamInv'
<1> USE DEF StreamInv, Relay, producer, Goto
<1>1. TypeOK' BY TakeStep DEF TypeOK, ReaderPcs
<1>2. Phases' /\ FoundWhileRunning' BY DEF TypeOK, Phases, FoundWhileRunning
<1>3. QED BY <1>1, <1>2, TakeStep

LEMMA DrainStep ==
    ASSUME NEW r \in Readers, StreamInv, Drain(r) PROVE StreamInv'
<1> USE DEF StreamInv, Drain, producer
<1>1. TypeOK' BY TakeStep DEF TypeOK
<1>2. Phases' /\ FoundWhileRunning' BY DEF Phases, FoundWhileRunning
<1>3. QED BY <1>1, <1>2, TakeStep

LEMMA EdgeRelayStep == ASSUME StreamInv, EdgeRelay PROVE StreamInv'
<1> USE DEF StreamInv, EdgeRelay, producer
<1>1. TypeOK' BY TakeStep DEF TypeOK
<1>2. Phases' /\ FoundWhileRunning' BY DEF Phases, FoundWhileRunning
<1>3. QED BY <1>1, <1>2, TakeStep

\* A viewer that is refused comes too late.
LEMMA AttachStep ==
    ASSUME NEW v \in Viewers, StreamInv, Attach(v) PROVE StreamInv'
<1> USE DEF StreamInv, Attach, Goto, producer
<1>1. TypeOK' BY DEF TypeOK, ReaderPcs
<1>2. Phases' /\ FoundWhileRunning' BY DEF TypeOK, Phases, FoundWhileRunning
<1>3. QED BY <1>1, <1>2, EventsStay

LEMMA SeeDoneStep ==
    ASSUME NEW r \in Readers, StreamInv, SeeDone(r) PROVE StreamInv'
<1> USE DEF StreamInv, SeeDone, Goto, producer
<1>1. TypeOK' BY DEF TypeOK, ReaderPcs
<1>2. Phases' /\ FoundWhileRunning' BY DEF TypeOK, Phases, FoundWhileRunning
<1>3. QED BY <1>1, <1>2, EventsStay

LEMMA DrainEndsStep ==
    ASSUME NEW v \in Viewers, StreamInv, DrainEnds(v) PROVE StreamInv'
<1> USE DEF StreamInv, DrainEnds, Goto, producer
<1>1. TypeOK' BY DEF TypeOK, ReaderPcs
<1>2. Phases' /\ FoundWhileRunning' BY DEF TypeOK, Phases, FoundWhileRunning
<1>3. QED BY <1>1, <1>2, EventsStay

LEMMA EdgeCancelledStep == ASSUME StreamInv, EdgeCancelled PROVE StreamInv'
<1> USE DEF StreamInv, EdgeCancelled, Goto, producer
<1>1. TypeOK' BY DEF TypeOK, ReaderPcs
<1>2. Phases' /\ FoundWhileRunning' BY DEF TypeOK, Phases, FoundWhileRunning
<1>3. QED BY <1>1, <1>2, EventsStay

LEMMA DisconnectStep ==
    ASSUME NEW r \in Readers, StreamInv, Disconnect(r) PROVE StreamInv'
<1> USE DEF StreamInv, Disconnect, producer
<1>1. TypeOK' BY DEF TypeOK
<1>2. Phases' /\ FoundWhileRunning' BY DEF Phases, FoundWhileRunning
<1>3. QED BY <1>1, <1>2, EventsStay

-----------------------------------------------------------------------------
(* The theorems. *)

LEMMA InitInv == Init => StreamInv
<1> SUFFICES ASSUME Init PROVE StreamInv
  OBVIOUS
<1> USE DEF Init
<1>1. TypeOK
  <2>1. <<>> \in Seq(Numbers) /\ Len(<<>>) = 0 BY EmptySeq
  <2>2. pc \in [Readers -> ReaderPcs] BY DEF ReaderPcs
  <2>3. delivered \in [Readers -> Seq(Numbers)] BY <2>1
  <2>4. events \in Seq(Numbers) /\ Len(events) <= ChanCap BY <2>1
  <2>5. count \in 0..MaxEvents
    OBVIOUS
  <2>6. /\ endpoint \in Endpoints /\ deploy \in {"running", "finished"}
        /\ done \in BOOLEAN /\ registered \in BOOLEAN
        /\ dropped \subseteq Numbers /\ lost \subseteq Numbers /\ connected \subseteq Readers
    OBVIOUS
  <2>7. QED BY <2>2, <2>3, <2>4, <2>5, <2>6 DEF TypeOK
<1>2. EachEventOnce
  <2>1. Relayed = {} BY EmptyMembers DEF Relayed
  <2>2. QED BY <2>1, EmptyMembers, Parts DEF Ordered, Apart, OnePlace
<1>3. InFront BY EmptyMembers DEF InFront
<1>4. Phases /\ FoundWhileRunning BY DEF Phases, FoundWhileRunning
<1>5. QED BY <1>1, <1>2, <1>3, <1>4 DEF StreamInv

LEMMA NextInv == StreamInv /\ [Next]_vars => StreamInv'
<1> SUFFICES ASSUME StreamInv, [Next]_vars PROVE StreamInv'
  OBVIOUS
<1>1. CASE UNCHANGED vars
  <2> USE <1>1 DEF vars, producer, relay, StreamInv
  <2>1. TypeOK' BY DEF TypeOK
  <2>2. Phases' /\ FoundWhileRunning' BY DEF Phases, FoundWhileRunning
  <2>3. QED BY <2>1, <2>2, EventsStay
<1>2. CASE Deploy \/ RemoveSession
  BY <1>2, EmitStep, FinishStep, RemoveSessionStep DEF Deploy
<1>3. CASE EdgeView
  BY <1>3, EdgeRelayStep, SeeDoneStep, DrainStep, EdgeCancelledStep DEF EdgeView
<1>4. ASSUME NEW v \in Viewers, Attach(v) \/ View(v) PROVE StreamInv'
  BY <1>4, AttachStep, RelayStep, SeeDoneStep, DrainStep, DrainEndsStep DEF View
<1>5. ASSUME NEW r \in Readers, Disconnect(r) PROVE StreamInv'
  BY <1>5, DisconnectStep
<1>6. QED BY <1>1, <1>2, <1>3, <1>4, <1>5 DEF Next

\* Every event is emitted, and then relayed, lost or dropped, once and in order,
\* whoever reads; a viewer that asks during the deploy finds it
\* (deploy_stream.go:69-81, routes.go:323-327).
THEOREM StreamInvariant == Spec => []StreamInv
BY InitInv, NextInv, PTL DEF Spec

\* The stream of a viewer that stays connected ends only when the deploy is over
\* and its events are gone (routes.go:369-381).
LEMMA EndedStep ==
    ASSUME StreamInv, EndedIsComplete, [Next]_vars PROVE EndedIsComplete'
<1> USE DEF StreamInv, TypeOK, EndedIsComplete, Goto, producer, relay
<1>1. CASE UNCHANGED vars
  BY <1>1 DEF vars
<1>2. CASE Deploy \/ RemoveSession
  BY <1>2 DEF Deploy, Emit, Finish, RemoveSession
<1>3. CASE EdgeView
  BY <1>3 DEF EdgeView, EdgeRelay, SeeDone, Drain, EdgeCancelled, Take
<1>4. ASSUME NEW v \in Viewers, Attach(v) \/ View(v) PROVE EndedIsComplete'
  BY <1>4 DEF View, Attach, Relay, SeeDone, Drain, DrainEnds, Take, Phases
<1>5. ASSUME NEW r \in Readers, Disconnect(r) PROVE EndedIsComplete'
  BY <1>5 DEF Disconnect
<1>6. QED BY <1>1, <1>2, <1>3, <1>4, <1>5 DEF Next

\* A viewer whose stream the agent ended has missed nothing (routes.go:369-381).
THEOREM EndedComplete == Spec => []EndedIsComplete
<1>1. Init => EndedIsComplete
  BY DEF Init, EndedIsComplete, Readers
<1>2. QED BY StreamInvariant, <1>1, EndedStep, PTL DEF Spec
-----------------------------------------------------------------------------
(* The process and its chunks. *)

USE RunAssumption, EventsAssumption

\* The least of a set of numbers.
LEMMA LeastIndex ==
    ASSUME NEW S \in SUBSET Nat, S # {}
    PROVE  \E i \in S : \A j \in S : ~(j < i)
<1>1. PICK i \in S : \A j \in S : ~(<<j, i>> \in OpToRel(<, Nat))
  BY WFMin, NatLessThanWellFounded
<1>2. QED BY <1>1 DEF OpToRel

LEMMA ChunkTypes ==
    ASSUME RunTypeOK
    PROVE  /\ Len(written) \in Nat /\ Len(pipe) \in Nat /\ Len(buffer) \in Nat
           /\ \A i \in 1..Len(written) : /\ written[i] \in Chunks /\ written[i].line \in Nat
                                         /\ written[i].kind \in Kinds
           /\ \A i \in 1..Len(pipe) : pipe[i] \in Chunks
           /\ \A i \in 1..Len(buffer) : buffer[i] \in Chunks
           /\ emitted \in Seq(Nat)
           /\ (written = <<>> <=> Len(written) = 0) /\ (buffer = <<>> <=> Len(buffer) = 0)
<1>1. written \in Seq(Chunks) /\ pipe \in Seq(Chunks) /\ buffer \in Seq(Chunks)
  BY DEF RunTypeOK
<1>2. \A i \in 1..Len(written) : written[i] \in Chunks BY <1>1, ElementOfSeq
<1>3. \A i \in 1..Len(pipe) : pipe[i] \in Chunks BY <1>1, ElementOfSeq
<1>4. \A i \in 1..Len(buffer) : buffer[i] \in Chunks BY <1>1, ElementOfSeq
<1>5. \A c \in Chunks : c.line \in Nat /\ c.kind \in Kinds BY DEF Chunks
<1>6. emitted \in Seq(Nat)
  <2>1. emitted \in Seq(1..MaxChunks) /\ 1..MaxChunks \subseteq Nat BY DEF RunTypeOK
  <2>2. QED BY <2>1, SeqMonotonic
<1>7. /\ Len(written) \in Nat /\ Len(pipe) \in Nat /\ Len(buffer) \in Nat
      /\ (written = <<>> <=> Len(written) = 0) /\ (buffer = <<>> <=> Len(buffer) = 0)
  BY <1>1, LenProperties, EmptySeq
<1>8. QED BY <1>2, <1>3, <1>4, <1>5, <1>6, <1>7

LEMMA Positions ==
    ASSUME RunTypeOK, InTransit
    PROVE  Taken \in Nat /\ Len(written) = Taken + Len(buffer) + Len(pipe)
BY ChunkTypes DEF InTransit, Taken

\* The next chunk continues the line of the parts before it, or begins one.
LEMMA LineFollows ==
    ASSUME RunTypeOK, Numbered
    PROVE  /\ Line \in 1..(Len(written) + 1)
           /\ \A i \in 1..Len(written) :
                IF \A k \in i..Len(written) : written[k].kind = "part"
                  THEN written[i].line = Line /\ MidLine
                  ELSE written[i].line < Line
<1> USE ChunkTypes DEF Line, MidLine, Last
<1> PICK n \in Nat : n = Len(written) OBVIOUS
<1>1. CASE n = 0 BY <1>1
<1>2. CASE n > 0
  <2>1. /\ n \in 1..n /\ written[n].line \in Nat /\ written[n].line <= n
        /\ written[n].line >= 1
    BY <1>2 DEF Numbered, Chunks
  <2>2. Line \in 1..(n + 1) BY <1>2, <2>1
  <2>3. ASSUME NEW i \in 1..n
        PROVE  IF \A k \in i..n : written[k].kind = "part"
                 THEN written[i].line = Line /\ MidLine
                 ELSE written[i].line < Line
    <3>1. CASE i = n
      <4>1. i..n = {n} BY <3>1
      <4>2. QED BY <1>2, <2>1, <3>1, <4>1
    <3>2. CASE i < n
      <4>1. i..n = i..(n - 1) \cup {n} BY <3>2
      <4>2. IF \A k \in i..(n - 1) : written[k].kind = "part"
              THEN written[i].line = written[n].line
              ELSE written[i].line < written[n].line
        BY <3>2, <2>1 DEF Numbered
      <4>3. written[i].line \in Nat /\ written[n].line \in Nat OBVIOUS
      <4>4. CASE written[n].kind = "part" BY <1>2, <2>1, <4>1, <4>2, <4>3, <4>4
      <4>5. CASE written[n].kind # "part" BY <1>2, <2>1, <4>1, <4>2, <4>3, <4>5
      <4>6. QED BY <4>4, <4>5
    <3>3. QED BY <3>1, <3>2
  <2>4. QED BY <2>2, <2>3
<1>3. QED BY <1>1, <1>2

LEMMA WriteStep == ASSUME RunInv, NEW k \in Kinds, Write(k) PROVE RunInv' /\ Shown' = Shown
<1>0. /\ RunTypeOK /\ Numbered /\ InTransit /\ Scanned /\ (phase # "wait" => ~alive)
      /\ alive /\ left > 0 /\ Len(pipe) < PipeCap /\ (k = "blank" => ~MidLine)
      /\ left' = left - 1 /\ UNCHANGED <<session, alive, open, reader, buffer, emitted, phase>>
  BY DEF RunInv, Write, scan
<1>1. PICK c : /\ c = [line |-> Line, kind |-> k]
               /\ written' = Append(written, c) /\ pipe' = Append(pipe, c)
  BY DEF Write
<1>2. PICK n \in Nat, p \in Nat, b \in Nat, t \in Nat :
        n = Len(written) /\ p = Len(pipe) /\ b = Len(buffer) /\ t = Taken /\ n = t + b + p
  BY <1>0, ChunkTypes, Positions
<1>3. left \in Nat /\ n + left <= MaxChunks
  BY <1>0, <1>2 DEF RunTypeOK, Numbered
<1>4. c.line = Line /\ c.kind = k /\ Line \in 1..(n + 1) /\ c \in Chunks
  <2>1. Line \in 1..(n + 1) BY <1>0, <1>2, LineFollows
  <2>2. QED BY <1>0, <1>1, <1>3, <2>1 DEF Chunks
<1>5. /\ written' \in Seq(Chunks) /\ Len(written') = n + 1 /\ written'[n + 1] = c
      /\ \A i \in 1..n : written'[i] = written[i]
  <2>1. written \in Seq(Chunks) BY <1>0 DEF RunTypeOK
  <2>2. written' = Append(written, c) /\ c \in Chunks /\ n = Len(written) BY <1>1, <1>2, <1>4
  <2>3. QED BY <2>1, <2>2, AppendProperties
<1>6. /\ pipe' \in Seq(Chunks) /\ Len(pipe') = p + 1 /\ pipe'[p + 1] = c
      /\ \A i \in 1..p : pipe'[i] = pipe[i]
  BY <1>0, <1>1, <1>2, <1>4, AppendProperties DEF RunTypeOK
<1>7. RunTypeOK'
  <2>1. Len(pipe') <= PipeCap /\ left' \in 0..MaxChunks BY <1>0, <1>2, <1>3, <1>6 DEF RunTypeOK
  <2>2. QED BY <1>0, <1>5, <1>6, <2>1 DEF RunTypeOK
<1>8. Numbered'
  <2>1. ASSUME NEW i \in 1..(n + 1) PROVE written'[i].line <= i
    <3>1. CASE i \in 1..n BY <1>0, <1>2, <1>5, <3>1 DEF Numbered
    <3>2. CASE i = n + 1 BY <1>4, <1>5, <3>2
    <3>3. QED BY <3>1, <3>2
  <2>2. ASSUME NEW i \in 1..(n + 1), NEW j \in 1..(n + 1), i < j
        PROVE  IF \A m \in i..(j - 1) : written'[m].kind = "part"
                 THEN written'[i].line = written'[j].line /\ written'[j].kind # "blank"
                 ELSE written'[i].line < written'[j].line
    <3>1. i \in 1..n /\ \A m \in i..(j - 1) : m \in 1..n /\ written'[m] = written[m]
      BY <1>5, <2>2
    <3>2. CASE j \in 1..n
      <4>1. IF \A m \in i..(j - 1) : written[m].kind = "part"
              THEN written[i].line = written[j].line /\ written[j].kind # "blank"
              ELSE written[i].line < written[j].line
        BY <1>0, <1>2, <2>2, <3>1, <3>2 DEF Numbered
      <4>2. written'[i] = written[i] /\ written'[j] = written[j] BY <1>5, <3>1, <3>2
      <4>3. QED BY <3>1, <4>1, <4>2
    <3>3. CASE j = n + 1
      <4>1. i..(j - 1) = i..n BY <3>3
      <4>2. IF \A m \in i..n : written[m].kind = "part"
              THEN written[i].line = Line /\ MidLine ELSE written[i].line < Line
        BY <1>0, <1>2, <3>1, LineFollows
      <4>3. MidLine => k # "blank" BY <1>0
      <4>4. QED BY <1>4, <1>5, <3>1, <3>3, <4>1, <4>2, <4>3
    <3>4. QED BY <1>5, <2>2, <3>2, <3>3
  <2>3. Len(written') + left' <= MaxChunks BY <1>0, <1>3, <1>5
  <2>4. QED BY <1>5, <2>1, <2>2, <2>3 DEF Numbered
<1>9. Taken' = t /\ Taken = t BY <1>0, <1>2, <1>5, <1>6 DEF Taken
<1>10. InTransit'
  <2>1. \A i \in 1..b : buffer[i] = written'[t + i]
    <3>1. \A i \in 1..b : buffer[i] = written[t + i] BY <1>0, <1>2 DEF InTransit
    <3>2. \A i \in 1..b : t + i \in 1..n BY <1>2
    <3>3. QED BY <1>5, <3>1, <3>2
  <2>2. \A i \in 1..(p + 1) : pipe'[i] = written'[t + b + i]
    <3>1. \A i \in 1..p : pipe[i] = written[t + b + i] BY <1>0, <1>2 DEF InTransit
    <3>2. \A i \in 1..p : t + b + i \in 1..n BY <1>2
    <3>3. t + b + (p + 1) = n + 1 BY <1>2
    <3>4. \A i \in 1..(p + 1) : i \in 1..p \/ i = p + 1 OBVIOUS
    <3>5. QED BY <1>5, <1>6, <3>1, <3>2, <3>3, <3>4
  <2>3. (p + 1) + b <= n + 1 BY <1>2
  <2>4. ~session => buffer = <<>> /\ emitted = <<>> BY <1>0 DEF InTransit
  <2>5. Len(buffer') = b BY <1>0, <1>2
  <2>6. QED BY <1>0, <1>5, <1>6, <1>9, <2>1, <2>2, <2>3, <2>4, <2>5 DEF InTransit
<1>11. Scanned' /\ Shown' = Shown
  <2>1. \A i \in 1..t : written'[i] = written[i] BY <1>2, <1>5
  <2>2. LinesIn(t)' = LinesIn(t) BY <2>1 DEF LinesIn
  <2>3. Shown' = Shown BY <1>0 DEF Shown
  <2>4. session => /\ reader = "scan" /\ t > 0 => written[t].kind # "part"
                   /\ Shown = LinesIn(t)
                   /\ \A i, j \in 1..Len(emitted) : i < j => emitted[i] < emitted[j]
    BY <1>0, <1>2 DEF Scanned
  <2>5. t > 0 => written'[t] = written[t] BY <1>2, <2>1
  <2>6. LinesIn(Taken)' = LinesIn(t) BY <1>9, <2>2 DEF LinesIn
  <2>7. QED BY <1>0, <1>9, <2>3, <2>4, <2>5, <2>6 DEF Scanned
<1>12. QED BY <1>0, <1>7, <1>8, <1>10, <1>11 DEF RunInv

\* A read moves chunks from the pipe to the buffer, or throws them away.
LEMMA ReadStep == ASSUME RunInv, NEW m \in Nat, Read(m) PROVE RunInv' /\ Shown' = Shown
<1>0. /\ RunTypeOK /\ Numbered /\ InTransit /\ Scanned /\ (phase # "wait" => ~alive)
      /\ m \in 1..Len(pipe)
      /\ pipe' = SubSeq(pipe, m + 1, Len(pipe))
      /\ buffer' = IF session THEN buffer \o SubSeq(pipe, 1, m) ELSE <<>>
      /\ UNCHANGED <<session, left, written, alive, open, reader, emitted, phase>>
  BY DEF RunInv, Read, process
<1>1. PICK n \in Nat, p \in Nat, b \in Nat, t \in Nat :
        n = Len(written) /\ p = Len(pipe) /\ b = Len(buffer) /\ t = Taken /\ n = t + b + p
  BY <1>0, ChunkTypes, Positions
<1>2. pipe \in Seq(Chunks) /\ buffer \in Seq(Chunks) /\ m \in 1..p BY <1>0, <1>1 DEF RunTypeOK
<1>3. /\ pipe' \in Seq(Chunks) /\ Len(pipe') = p - m
      /\ \A i \in 1..(p - m) : pipe'[i] = pipe[m + i]
  <2>1. pipe' = SubSeq(pipe, m + 1, p) /\ m + 1 \in 1..(p + 1) /\ p = Len(pipe) BY <1>0, <1>1
  <2>2. QED BY <1>2, <2>1, SubSeqProperties
<1>4. Numbered' BY <1>0 DEF Numbered
<1>5. Shown' = Shown /\ \A i : LinesIn(i)' = LinesIn(i) BY <1>0 DEF Shown, LinesIn
<1>6. \A i \in 1..p : pipe[i] = written[t + b + i] BY <1>0, <1>1 DEF InTransit
<1>7. CASE session
  <2> DEFINE taken == SubSeq(pipe, 1, m)
  <2>1. taken \in Seq(Chunks) /\ Len(taken) = m /\ \A i \in 1..m : taken[i] = pipe[i]
    BY <1>1, <1>2, SubSeqProperties
  <2>2. buffer' = buffer \o taken BY <1>0, <1>7
  <2> HIDE DEF taken
  <2>3. /\ buffer' \in Seq(Chunks) /\ Len(buffer') = b + m
        /\ \A i \in 1..b : buffer'[i] = buffer[i]
        /\ \A i \in (b + 1)..(b + m) : buffer'[i] = taken[i - b]
    <3>1. Len(buffer') = b + m /\ buffer' \in Seq(Chunks) BY <1>1, <1>2, <2>1, <2>2, ConcatProperties
    <3>2. \A i \in 1..(b + m) : buffer'[i] = IF i <= b THEN buffer[i] ELSE taken[i - b]
      BY <1>1, <1>2, <2>1, <2>2, ConcatProperties
    <3>3. QED BY <1>1, <3>1, <3>2
  <2>4. Len(written') = n /\ Len(pipe') = p - m /\ Len(buffer') = b + m /\ Taken' = t
    <3>1. Len(written') = n /\ Len(pipe') = p - m /\ Len(buffer') = b + m
      BY <1>0, <1>1, <1>3, <2>3
    <3>2. n - ((p - m) + (b + m)) = t BY <1>1, <1>2
    <3>3. QED BY <3>1, <3>2 DEF Taken
  <2>5. InTransit'
    <3>1. \A i \in 1..b : buffer[i] = written[t + i] BY <1>0, <1>1 DEF InTransit
    <3>2. \A i \in (b + 1)..(b + m) :
             i - b \in 1..m /\ i - b \in 1..p /\ t + b + (i - b) = t + i
      BY <1>1, <1>2
    <3>3. \A i \in (b + 1)..(b + m) : buffer'[i] = written[t + i]
      <4> SUFFICES ASSUME NEW i \in (b + 1)..(b + m) PROVE buffer'[i] = written[t + i]
        OBVIOUS
      <4>1. buffer'[i] = pipe[i - b] BY <2>1, <2>3, <3>2
      <4>2. pipe[i - b] = written[t + b + (i - b)] BY <1>6, <3>2
      <4>3. QED BY <3>2, <4>1, <4>2
    <3>4. \A i \in 1..(b + m) : i \in 1..b \/ i \in (b + 1)..(b + m) BY <1>1, <1>2
    <3>5. \A i \in 1..(b + m) : buffer'[i] = written[t + i] BY <2>3, <3>1, <3>3, <3>4
    <3>6. \A i \in 1..(p - m) : m + i \in 1..p /\ t + b + (m + i) = t + (b + m) + i BY <1>1, <1>2
    <3>7. \A i \in 1..(p - m) : pipe'[i] = written[t + (b + m) + i] BY <1>3, <1>6, <3>6
    <3>8. (p - m) + (b + m) <= n BY <1>1, <1>2
    <3>9. QED BY <1>0, <1>7, <2>4, <3>5, <3>7, <3>8 DEF InTransit
  <2>6. Scanned' BY <1>0, <1>1, <1>5, <2>4 DEF Scanned
  <2>7. RunTypeOK'
    <3>1. Len(pipe') <= PipeCap BY <1>0, <1>1, <1>2, <1>3 DEF RunTypeOK
    <3>2. QED BY <1>0, <1>3, <2>3, <3>1 DEF RunTypeOK
  <2>8. QED BY <1>0, <1>4, <1>5, <2>5, <2>6, <2>7 DEF RunInv
<1>8. CASE ~session
  <2>1. buffer' = <<>> /\ buffer = <<>> /\ emitted = <<>> /\ b = 0
    BY <1>0, <1>1, <1>8, EmptySeq DEF InTransit
  <2>2. Taken' = t + m
    <3>1. Len(written') = n /\ Len(pipe') = p - m /\ Len(buffer') = 0 BY <1>0, <1>1, <1>3, <2>1
    <3>2. n - ((p - m) + 0) = t + m BY <1>1, <1>2, <2>1
    <3>3. QED BY <3>1, <3>2 DEF Taken
  <2>3. InTransit'
    <3>1. \A i \in 1..(p - m) : m + i \in 1..p /\ t + b + (m + i) = (t + m) + 0 + i
      BY <1>1, <1>2, <2>1
    <3>2. \A i \in 1..(p - m) : pipe'[i] = written[(t + m) + 0 + i] BY <1>3, <1>6, <3>1
    <3>3. (p - m) + 0 <= n BY <1>1, <1>2
    <3>4. Len(buffer') = 0 /\ \A i \in 1..0 : FALSE BY <2>1
    <3>5. QED BY <1>0, <1>1, <1>3, <2>1, <2>2, <3>2, <3>3, <3>4 DEF InTransit
  <2>4. Scanned' BY <1>0, <1>8 DEF Scanned
  <2>5. RunTypeOK'
    <3>1. Len(pipe') <= PipeCap BY <1>0, <1>1, <1>2, <1>3 DEF RunTypeOK
    <3>2. <<>> \in Seq(Chunks) BY EmptySeq
    <3>3. QED BY <1>0, <1>3, <2>1, <3>1, <3>2 DEF RunTypeOK
  <2>6. QED BY <1>0, <1>4, <1>5, <2>3, <2>4, <2>5 DEF RunInv
<1>9. QED BY <1>0, <1>7, <1>8 DEF RunTypeOK

\* The parts of one line follow whole lines, and are newer than these.
LEMMA WholeLine ==
    ASSUME RunTypeOK, Numbered, InTransit, Scanned, session, reader = "scan",
           NEW i \in 1..Len(buffer), \A j \in 1..(i - 1) : buffer[j].kind = "part",
           buffer[i].kind # "blank"
    PROVE  /\ LinesIn(Taken + i) = LinesIn(Taken) \cup {buffer[i].line}
           /\ buffer[i].line = buffer[1].line /\ buffer[i].line \in 1..MaxChunks
           /\ \A m \in LinesIn(Taken) : m < buffer[i].line
<1>1. PICK n \in Nat, p \in Nat, b \in Nat, t \in Nat :
        n = Len(written) /\ p = Len(pipe) /\ b = Len(buffer) /\ t = Taken /\ n = t + b + p
  BY ChunkTypes, Positions
<1> DEFINE l == buffer[i].line
<1>2. /\ i \in 1..b /\ 1 \in 1..i /\ t + i \in 1..n
      /\ \A j \in 1..i : j \in 1..b /\ t + j \in 1..n
  BY <1>1
<1>3. \A j \in 1..b : written[t + j] = buffer[j] BY <1>1 DEF InTransit
<1>4. ASSUME NEW j \in 1..i PROVE buffer[j].line = l /\ buffer[j].kind # "blank"
  <2>1. CASE j = i BY <2>1
  <2>2. CASE j < i
    <3>1. t + j \in 1..n /\ t + i \in 1..n /\ t + j < t + i BY <1>1, <1>2, <2>2
    <3>2. ASSUME NEW k \in (t + j)..((t + i) - 1) PROVE written[k].kind = "part"
      <4>1. k - t \in 1..(i - 1) /\ k - t \in 1..b /\ t + (k - t) = k BY <1>1, <1>2, <2>2
      <4>2. QED BY <1>3, <4>1
    <3>3. written[t + j].line = written[t + i].line
      BY <1>1, <3>1, <3>2 DEF Numbered
    <3>4. buffer[j].kind = "part" BY <1>1, <2>2
    <3>5. QED BY <1>2, <1>3, <3>3, <3>4
  <2>3. QED BY <1>1, <2>1, <2>2
<1>5. ASSUME NEW q \in 1..t PROVE written[q].line < l
  <2>1. written[t].kind # "part" BY <1>1 DEF Scanned
  <2>2. q \in 1..n /\ t + i \in 1..n /\ q < t + i /\ t \in q..((t + i) - 1) BY <1>1, <1>2
  <2>3. ~ \A k \in q..((t + i) - 1) : written[k].kind = "part" BY <2>1, <2>2
  <2>4. written[q].line < written[t + i].line BY <1>1, <2>2, <2>3 DEF Numbered
  <2>5. QED BY <1>2, <1>3, <2>4
<1>6. LinesIn(t + i) = LinesIn(t) \cup {l}
  <2>1. \A q \in 1..(t + i) : q \in 1..t \/ (q - t \in 1..i /\ q = t + (q - t)) BY <1>1, <1>2
  <2>2. \A q \in 1..t : q \in 1..(t + i) BY <1>1, <1>2
  <2>3. \A q \in 1..(t + i) : q \in 1..t \/ (written[q].line = l /\ written[q].kind # "blank")
    <3> SUFFICES ASSUME NEW q \in 1..(t + i), q \notin 1..t
                 PROVE  written[q].line = l /\ written[q].kind # "blank"
      OBVIOUS
    <3>1. PICK j \in 1..i : q = t + j BY <2>1
    <3>2. written[q] = buffer[j] BY <1>2, <1>3, <3>1
    <3>3. QED BY <1>4, <3>2
  <2>4. t + i \in 1..(t + i) /\ written[t + i].line = l /\ written[t + i].kind # "blank"
    BY <1>1, <1>2, <1>3, <1>4
  <2>5. QED BY <2>2, <2>3, <2>4 DEF LinesIn
<1>7. l \in 1..MaxChunks BY <1>1, <1>2, ChunkTypes DEF Chunks
<1>8. \A m \in LinesIn(t) : m < l BY <1>5 DEF LinesIn
<1>9. QED BY <1>1, <1>2, <1>4, <1>6, <1>7, <1>8

\* A line is out, and is the newest that is.
LineOut == /\ Last(emitted') \in 1..MaxChunks
           /\ Shown' = Shown \cup {Last(emitted')}
           /\ \A m \in Shown : m < Last(emitted')

\* The scan leaves the parts of one line behind and emits its number.
LEMMA EmitsLine ==
    ASSUME RunTypeOK, Numbered, InTransit, Scanned, session, reader = "scan",
           NEW i \in 1..Len(buffer), \A j \in 1..(i - 1) : buffer[j].kind = "part",
           buffer[i].kind # "blank",
           emitted' = Append(emitted, buffer[i].line),
           UNCHANGED written, Taken' = Taken + i
    PROVE  /\ LineOut /\ emitted' \in Seq(1..MaxChunks) /\ emitted' # emitted
           /\ Shown' = LinesIn(Taken)'
           /\ (\A k, j \in 1..Len(emitted) : k < j => emitted[k] < emitted[j])'
<1>1. PICK e : e = buffer[i].line OBVIOUS
<1>2. /\ LinesIn(Taken + i) = LinesIn(Taken) \cup {e} /\ e \in 1..MaxChunks /\ e \in Nat
      /\ \A m \in LinesIn(Taken) : m < e
  BY <1>1, WholeLine
<1>3. Shown = LinesIn(Taken) /\ \A k, j \in 1..Len(emitted) : k < j => emitted[k] < emitted[j]
  BY DEF Scanned
<1>4. emitted \in Seq(Nat) /\ emitted \in Seq(1..MaxChunks) BY ChunkTypes DEF RunTypeOK
<1>5. /\ emitted' \in Seq(1..MaxChunks) /\ Len(emitted') = Len(emitted) + 1
      /\ Last(emitted') = e /\ Len(emitted) \in Nat
  BY <1>1, <1>2, <1>4, AppendProperties, LenProperties DEF Last
<1>6. Members(emitted) = Shown /\ InOrder(emitted)
  BY <1>3 DEF Members, InOrder, Shown
<1>7. Members(Append(emitted, e)) = Shown \cup {e} /\ InOrder(Append(emitted, e))
  BY <1>2, <1>3, <1>4, <1>6, AppendNewest
<1>8. emitted' = Append(emitted, e) BY <1>1
<1>9. Shown' = Shown \cup {e} BY <1>7, <1>8 DEF Members, Shown
<1>10. (\A k, j \in 1..Len(emitted) : k < j => emitted[k] < emitted[j])'
  BY <1>7, <1>8 DEF InOrder
<1>11. LinesIn(Taken)' = LinesIn(Taken + i)
  <2>1. \A q : LinesIn(q)' = LinesIn(q) BY DEF LinesIn
  <2>2. LinesIn(Taken)' = {written'[k].line : k \in {k \in 1..Taken' : written'[k].kind # "blank"}}
    BY DEF LinesIn
  <2>3. QED BY <2>2 DEF LinesIn
<1>12. emitted' # emitted BY <1>5
<1>13. QED BY <1>2, <1>3, <1>5, <1>9, <1>10, <1>11, <1>12 DEF LineOut

\* What a step of the scan does to the history of lines.
Emits == \/ emitted' = emitted /\ Shown' = Shown
         \/ emitted' # emitted /\ LineOut

LEMMA ScanLineStep == ASSUME RunInv, ScanLine PROVE RunInv' /\ Emits
<1>0. /\ RunTypeOK /\ Numbered /\ InTransit /\ Scanned /\ (phase # "wait" => ~alive)
      /\ reader = "scan" /\ HasLine
      /\ UNCHANGED <<session, left, written, alive, pipe, open, reader, phase>>
  BY DEF RunInv, ScanLine, process
<1>1. PICK n \in Nat, p \in Nat, b \in Nat, t \in Nat :
        n = Len(written) /\ p = Len(pipe) /\ b = Len(buffer) /\ t = Taken /\ n = t + b + p
  BY <1>0, ChunkTypes, Positions
<1>2. \E i \in 1..b : buffer[i].kind # "part" /\ \A j \in 1..(i - 1) : buffer[j].kind = "part"
  <2> DEFINE ends == {i \in 1..b : buffer[i].kind # "part"}
  <2>1. ends \in SUBSET Nat /\ ends # {} BY <1>0, <1>1 DEF HasLine
  <2>2. PICK i \in ends : \A j \in ends : ~(j < i) BY <2>1, LeastIndex
  <2>3. \A j \in 1..(i - 1) : j \in 1..b /\ j < i BY <1>1, <2>2
  <2>4. QED BY <2>2, <2>3
<1>3. PICK i \in 1..b :
        /\ buffer[i].kind # "part" /\ \A j \in 1..(i - 1) : buffer[j].kind = "part"
        /\ buffer' = SubSeq(buffer, i + 1, b)
        /\ emitted' = IF buffer[i].kind = "blank" THEN emitted
                      ELSE Append(emitted, buffer[i].line)
  <2> DEFINE I == CHOOSE i \in 1..Len(buffer) :
                    buffer[i].kind # "part" /\ \A j \in 1..(i - 1) : buffer[j].kind = "part"
  <2>1. I \in 1..b /\ buffer[I].kind # "part" /\ \A j \in 1..(I - 1) : buffer[j].kind = "part"
    BY <1>1, <1>2
  <2>2. /\ buffer' = SubSeq(buffer, I + 1, Len(buffer))
        /\ emitted' = IF buffer[I].kind = "blank" THEN emitted
                      ELSE Append(emitted, buffer[I].line)
    BY DEF ScanLine
  <2> HIDE DEF I
  <2>3. QED BY <1>1, <2>1, <2>2
<1>4. session
  <2>1. b # 0 BY <1>3
  <2>2. QED BY <1>0, <1>1, <2>1, EmptySeq DEF InTransit
<1>5. /\ buffer' \in Seq(Chunks) /\ Len(buffer') = b - i
      /\ \A j \in 1..(b - i) : buffer'[j] = buffer[i + j]
  <2>1. buffer \in Seq(Chunks) /\ i + 1 \in 1..(b + 1) /\ b = Len(buffer) BY <1>0, <1>1 DEF RunTypeOK
  <2>2. QED BY <1>3, <2>1, SubSeqProperties
<1>6. Taken' = t + i /\ n = (t + i) + (b - i) + p
  <2>1. n - (p + (b - i)) = t + i /\ n = (t + i) + (b - i) + p BY <1>1
  <2>2. QED BY <1>0, <1>1, <1>5, <2>1 DEF Taken
<1>7. Numbered' BY <1>0 DEF Numbered
<1>8. \A j \in 1..b : buffer[j] = written[t + j] BY <1>0, <1>1 DEF InTransit
<1>9. InTransit'
  <2>1. \A j \in 1..(b - i) : i + j \in 1..b /\ t + (i + j) = (t + i) + j BY <1>1
  <2>2. \A j \in 1..(b - i) : buffer'[j] = written[(t + i) + j] BY <1>5, <1>8, <2>1
  <2>3. \A j \in 1..p : pipe[j] = written[t + b + j] BY <1>0, <1>1 DEF InTransit
  <2>4. (t + i) + (b - i) = t + b /\ p + (b - i) <= n BY <1>1
  <2>5. QED BY <1>0, <1>1, <1>4, <1>5, <1>6, <2>2, <2>3, <2>4 DEF InTransit
<1>10. t + i \in 1..n /\ written[t + i] = buffer[i] BY <1>1, <1>8
<1>11. CASE buffer[i].kind = "blank"
  <2>1. emitted' = emitted /\ Shown' = Shown BY <1>3, <1>11 DEF Shown
  <2>2. i = 1
    <3> SUFFICES ASSUME i # 1 PROVE FALSE OBVIOUS
    <3>1. /\ i - 1 \in 1..b /\ i - 1 \in 1..(i - 1) /\ t + (i - 1) \in 1..n /\ t + (i - 1) < t + i
          /\ (t + (i - 1))..((t + i) - 1) = {t + (i - 1)}
      BY <1>1
    <3>2. written[t + (i - 1)].kind = "part" BY <1>3, <1>8, <3>1
    <3>3. written[t + i].kind # "blank" BY <1>0, <1>1, <1>10, <3>1, <3>2 DEF Numbered
    <3>4. QED BY <1>10, <1>11, <3>3
  <2>3. LinesIn(t + i) = LinesIn(t)
    <3>1. 1..(t + i) = 1..t \cup {t + i} BY <1>1, <2>2
    <3>2. written[t + i].kind = "blank" BY <1>10, <1>11
    <3>3. QED BY <3>1, <3>2 DEF LinesIn
  <2>4. LinesIn(Taken)' = LinesIn(t + i) BY <1>0, <1>6 DEF LinesIn
  <2>5. /\ Shown = LinesIn(t)
        /\ \A k, j \in 1..Len(emitted) : k < j => emitted[k] < emitted[j]
    BY <1>0, <1>1, <1>4 DEF Scanned
  <2>6. Scanned' BY <1>0, <1>3, <1>6, <1>10, <2>1, <2>3, <2>4, <2>5 DEF Scanned
  <2>7. RunTypeOK' BY <1>0, <1>5, <2>1 DEF RunTypeOK
  <2>8. QED BY <1>0, <1>7, <1>9, <2>1, <2>6, <2>7 DEF RunInv, Emits
<1>12. CASE buffer[i].kind # "blank"
  <2>1. emitted' = Append(emitted, buffer[i].line) BY <1>3, <1>12
  <2>2. /\ LineOut /\ emitted' \in Seq(1..MaxChunks) /\ emitted' # emitted
        /\ Shown' = LinesIn(Taken)'
        /\ (\A k, j \in 1..Len(emitted) : k < j => emitted[k] < emitted[j])'
    BY <1>0, <1>1, <1>3, <1>4, <1>6, <1>12, <2>1, EmitsLine
  <2>3. Scanned' BY <1>0, <1>3, <1>6, <1>10, <2>2 DEF Scanned
  <2>4. RunTypeOK' BY <1>0, <1>5, <2>2 DEF RunTypeOK
  <2>5. QED BY <1>0, <1>7, <1>9, <2>2, <2>3, <2>4 DEF RunInv, Emits
<1>13. QED BY <1>11, <1>12

\* The end of the output: what is left of a line is a line.
LEMMA EndOfOutputStep == ASSUME RunInv, EndOfOutput PROVE RunInv' /\ Emits
<1>0. /\ RunTypeOK /\ Numbered /\ InTransit /\ Scanned /\ (phase # "wait" => ~alive)
      /\ reader = "scan" /\ ~HasLine /\ reader' = "stopped" /\ buffer' = <<>>
      /\ emitted' = IF buffer = <<>> THEN emitted ELSE Append(emitted, buffer[1].line)
      /\ UNCHANGED <<session, left, written, alive, pipe, open, phase>>
  BY DEF RunInv, EndOfOutput, process
<1>1. PICK n \in Nat, p \in Nat, b \in Nat, t \in Nat :
        n = Len(written) /\ p = Len(pipe) /\ b = Len(buffer) /\ t = Taken /\ n = t + b + p
  BY <1>0, ChunkTypes, Positions
<1>2. Len(buffer') = 0 /\ buffer' \in Seq(Chunks) BY <1>0, EmptySeq
<1>3. Taken' = t + b
  <2>1. n - (p + 0) = t + b BY <1>1
  <2>2. QED BY <1>0, <1>1, <1>2, <2>1 DEF Taken
<1>4. Numbered' BY <1>0 DEF Numbered
<1>5. (~session => b = 0) /\ (b = 0 <=> buffer = <<>>)
  BY <1>0, <1>1, ChunkTypes DEF InTransit
<1>6. InTransit'
  <2>1. \A j \in 1..p : pipe[j] = written[(t + b) + 0 + j]
    BY <1>0, <1>1 DEF InTransit
  <2>2. p + 0 <= n BY <1>1
  <2>3. \A j \in 1..0 : FALSE OBVIOUS
  <2>4. ~session => emitted' = <<>> BY <1>0, <1>5 DEF InTransit
  <2>5. QED BY <1>0, <1>1, <1>2, <1>3, <2>1, <2>2, <2>3, <2>4 DEF InTransit
<1>7. CASE b = 0
  <2>1. emitted' = emitted /\ Shown' = Shown BY <1>0, <1>5, <1>7 DEF Shown
  <2>2. LinesIn(Taken)' = LinesIn(t) BY <1>0, <1>1, <1>3, <1>7 DEF LinesIn
  <2>3. session => /\ Shown = LinesIn(t)
                   /\ \A k, j \in 1..Len(emitted) : k < j => emitted[k] < emitted[j]
    BY <1>0, <1>1 DEF Scanned
  <2>4. Scanned' BY <1>0, <2>1, <2>2, <2>3 DEF Scanned
  <2>5. RunTypeOK' BY <1>0, <1>2, <2>1 DEF RunTypeOK
  <2>6. QED BY <1>0, <1>4, <1>6, <2>1, <2>4, <2>5 DEF RunInv, Emits
<1>8. CASE b # 0
  <2>1. session /\ b \in 1..b BY <1>0, <1>1, <1>5, <1>8 DEF RunTypeOK
  <2>2. \A j \in 1..b : buffer[j].kind = "part" BY <1>0, <1>1 DEF HasLine
  <2>3. \A j \in 1..(b - 1) : j \in 1..b BY <1>1
  <2>4. buffer[b].kind # "blank" /\ \A j \in 1..(b - 1) : buffer[j].kind = "part"
    BY <2>1, <2>2, <2>3
  <2>5. buffer[b].line = buffer[1].line BY <1>0, <1>1, <2>1, <2>4, WholeLine
  <2>6. emitted' = Append(emitted, buffer[b].line) BY <1>0, <1>5, <1>8, <2>5
  <2>7. /\ LineOut /\ emitted' \in Seq(1..MaxChunks) /\ emitted' # emitted
        /\ Shown' = LinesIn(Taken)'
        /\ (\A k, j \in 1..Len(emitted) : k < j => emitted[k] < emitted[j])'
    BY <1>0, <1>1, <1>3, <2>1, <2>4, <2>6, EmitsLine
  <2>8. Scanned' BY <1>0, <2>7 DEF Scanned
  <2>9. RunTypeOK' BY <1>0, <1>2, <2>7 DEF RunTypeOK
  <2>10. QED BY <1>0, <1>4, <1>6, <2>7, <2>8, <2>9 DEF RunInv, Emits
<1>9. QED BY <1>7, <1>8

\* The other steps move no chunk.
LEMMA ChunksStay ==
    ASSUME RunInv, RunTypeOK', (phase # "wait" => ~alive)', (reader' = "scan" => reader = "scan"),
           UNCHANGED <<session, left, written, pipe, buffer, emitted>>
    PROVE  RunInv' /\ Shown' = Shown
<1>1. Numbered' BY DEF RunInv, Numbered
<1>2. InTransit' BY DEF RunInv, InTransit, Taken
<1>3. Shown' = Shown BY DEF Shown
<1>4. Scanned'
  <2>1. Taken' = Taken BY DEF Taken
  <2>2. LinesIn(Taken)' = LinesIn(Taken) BY <2>1 DEF LinesIn
  <2>3. QED BY <1>3, <2>1, <2>2 DEF RunInv, Scanned
<1>5. QED BY <1>1, <1>2, <1>3, <1>4 DEF RunInv

LEMMA EndStep ==
    ASSUME RunInv, Exit \/ Kill \/ LineTooLong \/ Wait \/ Join \/ UNCHANGED run
    PROVE  RunInv' /\ Shown' = Shown
<1>1. UNCHANGED <<session, left, written, pipe, buffer, emitted>>
  BY DEF Exit, Kill, LineTooLong, Wait, Join, run, runVars, process, scan
<1>2. /\ reader' = reader \/ reader' = "stopped"
      /\ phase' = phase \/ phase' \in {"join", "returned"}
      /\ (phase # "wait" => ~alive)'
      /\ alive' \in {alive, FALSE} /\ open' \in {open, FALSE}
  <2>1. CASE Exit \/ Kill BY <2>1 DEF Exit, Kill, scan, RunInv
  <2>2. CASE LineTooLong BY <2>2 DEF LineTooLong, process, RunInv
  <2>3. CASE Wait BY <2>3 DEF Wait, process, scan, RunInv
  <2>4. CASE Join BY <2>4 DEF Join, process, scan, RunInv
  <2>5. CASE UNCHANGED run BY <2>5 DEF run, runVars, process, scan, RunInv
  <2>6. QED BY <2>1, <2>2, <2>3, <2>4, <2>5
<1>3. RunTypeOK' BY <1>1, <1>2 DEF RunInv, RunTypeOK
<1>4. reader' = "scan" => reader = "scan" BY <1>2
<1>5. QED BY <1>1, <1>2, <1>3, <1>4, ChunksStay

\* A session misses lines only at the end.
LEMMA LossAtEnd == RunInv => LossOnlyAtEnd
<1> SUFFICES ASSUME RunTypeOK, Numbered, InTransit, Scanned PROVE LossOnlyAtEnd
  BY DEF RunInv
<1>1. PICK n \in Nat, p \in Nat, b \in Nat, t \in Nat :
        n = Len(written) /\ p = Len(pipe) /\ b = Len(buffer) /\ t = Taken /\ n = t + b + p
  BY ChunkTypes, Positions
<1>2. CASE ~session
  <2>1. emitted = <<>> /\ Len(emitted) = 0 BY <1>2, EmptySeq DEF InTransit
  <2>2. QED BY <2>1 DEF LossOnlyAtEnd, Shown
<1>3. CASE session
  <2>1. Shown = LinesIn(t) /\ \A k, j \in 1..Len(emitted) : k < j => emitted[k] < emitted[j]
    BY <1>1, <1>3 DEF Scanned
  <2>2. LinesIn(t) \subseteq Lines BY <1>1 DEF Lines, LinesIn
  <2>3. ASSUME NEW m \in LinesIn(t), NEW l \in Lines, l < m PROVE l \in LinesIn(t)
    <3>1. PICK i \in 1..t : written[i].line = m BY DEF LinesIn
    <3>2. PICK j \in 1..n : written[j].line = l /\ written[j].kind # "blank"
      BY <1>1 DEF Lines, LinesIn
    <3>3. i \in 1..n /\ written[i].line \in Nat /\ written[j].line \in Nat
      BY <1>1, ChunkTypes
    <3>4. ~(i < j)
      <4>1. i < j => IF \A k \in i..(j - 1) : written[k].kind = "part"
                       THEN written[i].line = written[j].line
                       ELSE written[i].line < written[j].line
        BY <1>1, <3>3 DEF Numbered
      <4>2. ~(written[i].line = written[j].line) /\ ~(written[i].line < written[j].line)
        BY <2>3, <3>1, <3>2, <3>3
      <4>3. QED BY <4>1, <4>2
    <3>5. j \in 1..t BY <1>1, <3>4
    <3>6. QED BY <3>2, <3>5 DEF LinesIn
  <2>4. QED BY <2>1, <2>2, <2>3 DEF LossOnlyAtEnd
<1>4. QED BY <1>2, <1>3

-----------------------------------------------------------------------------
(* The operation: its session, and what it says. *)

LEMMA StreamStays == ASSUME StreamInv, UNCHANGED stream PROVE StreamInv'
BY NextInv DEF stream, vars, producer, relay

LEMMA SayStep ==
    ASSUME UpTypeOK, StreamInv, NEW w, NEW l, [what |-> w, line |-> l] \in Says, Say(w, l)
    PROVE  /\ StreamInv' /\ said' \in Seq(Says) /\ Len(said') = count'
           /\ Len(said) \in Nat /\ Len(said') = Len(said) + 1
           /\ said'[Len(said) + 1] = [what |-> w, line |-> l]
           /\ \A i \in 1..Len(said) : said'[i] = said[i]
<1>1. Emit /\ said' = Append(said, [what |-> w, line |-> l]) BY DEF Say
<1>2. StreamInv' BY <1>1, EmitStep
<1>3. said \in Seq(Says) /\ Len(said) = count BY DEF UpTypeOK
<1>4. count' = count + 1 BY <1>1 DEF Emit
<1>5. QED BY <1>1, <1>2, <1>3, <1>4, AppendProperties, LenProperties

Quiet == \A i \in 1..Len(said) : said[i].what \in {"running", "line"}

\* What was said stays true, unless the outcome changes after it was told.
LEMMA SaidStays ==
    ASSUME SaidTrue, UNCHANGED said, Shown \subseteq Shown',
           status' = status \/ Quiet, owner' = owner \/ owner' # "this" \/ Quiet
    PROVE  SaidTrue'
BY DEF SaidTrue, Quiet

\* What is new is true of the command, and older news that come before it.
LEMMA SaidGrows ==
    ASSUME UpTypeOK, SaidTrue, UNCHANGED <<status, owner>>, Shown \subseteq Shown',
           NEW w, NEW l,
           Len(said') = Len(said) + 1, said'[Len(said) + 1] = [what |-> w, line |-> l],
           \A i \in 1..Len(said) : said'[i] = said[i],
           w = "line" => /\ Quiet /\ l \in Shown'
                         /\ \A m \in Shown \cup {0} : m < l,
           w # "line" => l = 0,
           w = "error" => status = "failed",
           w \in {"up", "done"} => status = "ok",
           w = "done" => owner # "this"
    PROVE  SaidTrue'
<1>1. PICK n \in Nat : n = Len(said) BY LenProperties DEF UpTypeOK
<1>2. ASSUME NEW i \in 1..n
      PROVE  /\ said[i].what = "line" =>
                  /\ said[i].line \in Shown'
                  /\ \A j \in 1..(i - 1) : /\ said'[j].what \in {"running", "line"}
                                           /\ said'[j].line < said[i].line
             /\ said[i].what # "line" => said[i].line = 0
             /\ said[i].what = "error" => status' = "failed"
             /\ said[i].what \in {"up", "done"} => status' = "ok"
             /\ said[i].what = "done" => owner' # "this"
  <2>1. \A j \in 1..(i - 1) : said'[j] = said[j] BY <1>1
  <2>2. QED BY <1>1, <2>1 DEF SaidTrue
<1>3. \A j \in 1..n : said[j].line \in Shown \cup {0} BY <1>1 DEF SaidTrue
<1>4. w = "line" => \A j \in 1..n : /\ said'[j].what \in {"running", "line"}
                                    /\ said'[j].line < l
  BY <1>1, <1>3 DEF Quiet
<1>5. PICK e : e = [what |-> w, line |-> l] /\ e.what = w /\ e.line = l OBVIOUS
<1>6. ASSUME NEW i \in 1..(n + 1)
      PROVE  /\ said'[i].what = "line" =>
                  /\ said'[i].line \in Shown'
                  /\ \A j \in 1..(i - 1) : /\ said'[j].what \in {"running", "line"}
                                           /\ said'[j].line < said'[i].line
             /\ said'[i].what # "line" => said'[i].line = 0
             /\ said'[i].what = "error" => status' = "failed"
             /\ said'[i].what \in {"up", "done"} => status' = "ok"
             /\ said'[i].what = "done" => owner' # "this"
  <2>1. CASE i \in 1..n BY <1>1, <1>2, <2>1
  <2>2. CASE i = n + 1
    <3>1. said'[i] = e /\ i - 1 = n BY <1>1, <1>5, <2>2
    <3>2. QED BY <1>4, <1>5, <3>1
  <2>3. QED BY <2>1, <2>2
<1>7. QED BY <1>1, <1>6 DEF SaidTrue

\* A step of the command that says nothing.
LEMMA SilentStep ==
    ASSUME UpIInv, RunInv', Shown' = Shown, UNCHANGED stream, UNCHANGED said,
           up' \in Places, owner' \in {"nobody", "this", "other"},
           status' \in {"none", "ok", "failed"},
           status' = status \/ Quiet, owner' = owner \/ owner' # "this" \/ Quiet, UpPhases'
    PROVE  UpIInv'
<1>1. StreamInv' BY StreamStays DEF UpIInv
<1>2. SaidTrue' BY SaidStays DEF UpIInv
<1>3. UpTypeOK' BY <1>1 DEF UpIInv, UpTypeOK, stream, RunInv, StreamInv
<1>4. QED BY <1>1, <1>2, <1>3 DEF UpIInv

LEMMA TryLockStep == ASSUME UpIInv, TryLock PROVE UpIInv'
<1>1. RunInv' /\ Shown' = Shown BY EndStep DEF UpIInv, TryLock
<1>2. Quiet BY DEF UpIInv, UpPhases, Quiet, TryLock, Step
<1>3. UpPhases' BY DEF UpIInv, UpTypeOK, UpPhases, TryLock, Step, run, runVars, process, scan
<1>4. up' \in Places /\ owner' \in {"nobody", "this", "other"}
  BY DEF UpIInv, UpTypeOK, Places, TryLock, Step
<1>5. QED BY <1>1, <1>2, <1>3, <1>4, SilentStep DEF TryLock, UpIInv, UpTypeOK

LEMMA StartCommandStep == ASSUME UpIInv, StartCommand PROVE UpIInv'
<1>1. RunInv' /\ Shown' = Shown BY EndStep DEF UpIInv, StartCommand
<1>2. Quiet BY DEF UpIInv, UpPhases, Quiet, StartCommand, Step
<1>3. UpPhases' BY DEF UpIInv, UpTypeOK, UpPhases, StartCommand, Step, run, runVars, process, scan
<1>4. up' \in Places /\ status' \in {"none", "ok", "failed"}
  BY DEF UpIInv, UpTypeOK, Places, StartCommand, Step
<1>5. QED BY <1>1, <1>2, <1>3, <1>4, SilentStep DEF StartCommand, UpIInv, UpTypeOK

LEMMA CommandStep == ASSUME UpIInv, Command \/ Cancel PROVE UpIInv'
<1>1. RunInv' /\ Shown' = Shown BY WriteStep, EndStep DEF UpIInv, Command, Cancel
<1>2. Quiet BY DEF UpIInv, UpPhases, Quiet, Command, Cancel
<1>3. UpPhases' BY DEF UpIInv, UpTypeOK, UpPhases, Command, Cancel, Write, Exit, Kill, scan
<1>4. up' \in Places /\ status' \in {"none", "ok", "failed"}
  BY DEF UpIInv, UpTypeOK, Command, Cancel
<1>5. QED BY <1>1, <1>2, <1>3, <1>4, SilentStep DEF Command, Cancel, UpIInv, UpTypeOK

LEMMA ReadPipeStep == ASSUME UpIInv, ReadPipe PROVE UpIInv'
<1>1. RunInv' /\ Shown' = Shown
  <2>1. \A n \in 1..PipeCap : n \in Nat OBVIOUS
  <2>2. QED BY <2>1, ReadStep, EndStep DEF UpIInv, ReadPipe
<1>2. UpPhases' BY DEF UpIInv, UpTypeOK, UpPhases, ReadPipe, Read, LineTooLong, op, process
<1>3. QED BY <1>1, <1>2, SilentStep DEF ReadPipe, op, UpIInv, UpTypeOK

LEMMA WaitStep == ASSUME UpIInv, WaitForCommand PROVE UpIInv'
<1>1. RunInv' /\ Shown' = Shown BY EndStep DEF UpIInv, WaitForCommand
<1>2. UpPhases' BY DEF UpIInv, UpTypeOK, UpPhases, WaitForCommand, Wait, op, process, scan
<1>3. QED BY <1>1, <1>2, SilentStep DEF WaitForCommand, op, UpIInv, UpTypeOK

LEMMA ReturnStep == ASSUME UpIInv, Return PROVE UpIInv'
<1>1. RunInv' /\ Shown' = Shown BY EndStep DEF UpIInv, Return
<1>2. UpPhases' BY DEF UpIInv, UpTypeOK, RunInv, UpPhases, Return, Step, Join, process, scan
<1>3. up' \in Places BY DEF Return, Step, Places
<1>4. QED BY <1>1, <1>2, <1>3, SilentStep DEF Return, UpIInv, UpTypeOK

LEMMA UnlockStep == ASSUME UpIInv, Unlock PROVE UpIInv'
<1>1. RunInv' /\ Shown' = Shown BY EndStep DEF UpIInv, Unlock
<1>2. UpPhases' BY DEF UpIInv, UpTypeOK, UpPhases, Unlock, Step, run, runVars, process, scan
<1>3. up' \in Places BY DEF Unlock, Step, Places
<1>4. QED BY <1>1, <1>2, <1>3, SilentStep DEF Unlock, UpIInv, UpTypeOK

\* A step that says something other than a line.
LEMMA TellingStep ==
    ASSUME UpIInv, NEW w \in {"running", "error", "up", "done"}, Say(w, 0),
           UNCHANGED <<run, owner, status>>, up' \in Places, UpPhases',
           w = "error" => status = "failed",
           w \in {"up", "done"} => status = "ok",
           w = "done" => owner # "this"
    PROVE  UpIInv'
<1>1. RunInv' /\ Shown' = Shown BY EndStep DEF UpIInv
<1>2. [what |-> w, line |-> 0] \in Says BY DEF Says
<1>3. /\ StreamInv' /\ said' \in Seq(Says) /\ Len(said') = count'
      /\ Len(said') = Len(said) + 1 /\ said'[Len(said) + 1] = [what |-> w, line |-> 0]
      /\ \A i \in 1..Len(said) : said'[i] = said[i]
  BY <1>2, SayStep DEF UpIInv
<1>4. SaidTrue' BY <1>1, <1>3, SaidGrows DEF UpIInv
<1>5. UpTypeOK' BY <1>1, <1>3 DEF UpIInv, UpTypeOK, RunInv, StreamInv
<1>6. QED BY <1>1, <1>3, <1>4, <1>5 DEF UpIInv

\* The phases of the operation when it says something.
LEMMA PhasesAfter ==
    ASSUME UpIInv, NEW w, [what |-> w, line |-> 0] \in Says, Say(w, 0), UNCHANGED run,
           UNCHANGED <<owner, status>>,
           \/ up = "announce" /\ up' = "start" /\ w = "running"
           \/ up = "tell" /\ up' = "unlock"
           \/ up = "done" /\ up' = "leave"
    PROVE  UpPhases'
<1>1. /\ Len(said) \in Nat /\ Len(said') = Len(said) + 1
      /\ said'[Len(said) + 1] = [what |-> w, line |-> 0]
      /\ \A i \in 1..Len(said) : said'[i] = said[i]
  BY SayStep DEF UpIInv
<1>2. up = "announce" => (Quiet)'
  <2> SUFFICES ASSUME up = "announce", NEW i \in 1..(Len(said) + 1)
               PROVE  said'[i].what \in {"running", "line"}
    BY <1>1 DEF Quiet
  <2>1. CASE i \in 1..Len(said) BY <1>1, <2>1 DEF UpIInv, UpPhases
  <2>2. CASE i = Len(said) + 1 BY <1>1, <2>2
  <2>3. QED BY <1>1, <2>1, <2>2
<1>3. QED BY <1>2 DEF UpIInv, UpPhases, Quiet, run, runVars, process, scan

LEMMA AnnounceStep == ASSUME UpIInv, Announce PROVE UpIInv'
<1>0. [what |-> "running", line |-> 0] \in Says BY DEF Says
<1>1. UpPhases' BY <1>0, PhasesAfter DEF Announce, Step
<1>2. QED BY <1>1, TellingStep DEF Announce, Step, Places

LEMMA TellStep == ASSUME UpIInv, Tell PROVE UpIInv'
<1>1. PICK w \in {"up", "error"} : /\ (w = "up" <=> status = "ok")
                                   /\ Say(w, 0) /\ up = "tell" /\ up' = "unlock"
                                   /\ UNCHANGED <<run, owner, status>>
  BY DEF Tell, Step
<1>2. status \in {"ok", "failed"} BY <1>1 DEF UpIInv, UpTypeOK, UpPhases
<1>3. UpPhases'
  <2>1. [what |-> w, line |-> 0] \in Says BY DEF Says
  <2>2. QED BY <1>1, <2>1, PhasesAfter
<1>4. QED BY <1>1, <1>2, <1>3, TellingStep DEF Places

LEMMA SayDoneStep == ASSUME UpIInv, SayDone PROVE UpIInv'
<1>1. UpPhases' BY PhasesAfter DEF SayDone, Step, Says
<1>2. status = "ok" /\ owner # "this" BY DEF SayDone, Step, UpIInv, UpPhases
<1>3. QED BY <1>1, <1>2, TellingStep DEF SayDone, Step, Places

\* A line is scanned while the command runs, before anything is said of how it
\* ended, and is newer than the lines said.
LEMMA EmitLineStep == ASSUME UpIInv, EmitLine PROVE UpIInv'
<1>1. RunInv' /\ Emits BY ScanLineStep, EndOfOutputStep DEF UpIInv, EmitLine
<1>2. reader = "scan" BY DEF EmitLine, ScanLine, EndOfOutput
<1>3. up = "run" /\ Quiet BY <1>2 DEF UpIInv, UpPhases, Quiet, EmitLine, Started
<1>4. /\ UNCHANGED <<up, owner, status, session, alive, phase>>
      /\ IF emitted' = emitted THEN UNCHANGED <<stream, said>> ELSE Say("line", Last(emitted'))
  BY DEF EmitLine, ScanLine, EndOfOutput, op, process
<1>5. CASE emitted' = emitted
  <2>1. Shown' = Shown BY <1>1, <1>5 DEF Emits
  <2>2. UpPhases' BY <1>3, <1>4, <1>5 DEF UpIInv, UpPhases
  <2>3. QED BY <1>1, <1>4, <1>5, <2>1, <2>2, SilentStep DEF UpIInv, UpTypeOK
<1>6. CASE emitted' # emitted
  <2> DEFINE l == Last(emitted')
  <2>1. /\ l \in 1..MaxChunks /\ Shown' = Shown \cup {l} /\ \A m \in Shown : m < l
    BY <1>1, <1>6 DEF Emits, LineOut
  <2>2. Say("line", l) BY <1>4, <1>6
  <2> HIDE DEF l
  <2>3. [what |-> "line", line |-> l] \in Says BY <2>1 DEF Says
  <2>4. /\ StreamInv' /\ said' \in Seq(Says) /\ Len(said') = count' /\ Len(said) \in Nat
        /\ Len(said') = Len(said) + 1 /\ said'[Len(said) + 1] = [what |-> "line", line |-> l]
        /\ \A i \in 1..Len(said) : said'[i] = said[i]
    BY <2>2, <2>3, SayStep DEF UpIInv
  <2>5. SaidTrue'
    <3>1. \A m \in Shown \cup {0} : m < l BY <2>1
    <3>2. l \in Shown' /\ Shown \subseteq Shown' BY <2>1
    <3>3. QED BY <1>3, <1>4, <2>4, <3>1, <3>2, SaidGrows DEF UpIInv
  <2>6. Quiet'
    <3> SUFFICES ASSUME NEW i \in 1..(Len(said) + 1) PROVE said'[i].what \in {"running", "line"}
      BY <2>4 DEF Quiet
    <3>1. CASE i \in 1..Len(said) BY <1>3, <2>4, <3>1 DEF Quiet
    <3>2. CASE i = Len(said) + 1 BY <2>4, <3>2
    <3>3. QED BY <2>4, <3>1, <3>2
  <2>7. UpPhases' BY <1>3, <1>4, <2>6 DEF UpIInv, UpPhases, Quiet
  <2>8. UpTypeOK' BY <1>1, <1>4, <2>4 DEF UpIInv, UpTypeOK, RunInv, StreamInv
  <2>9. QED BY <1>1, <2>4, <2>5, <2>7, <2>8 DEF UpIInv
<1>7. QED BY <1>5, <1>6

\* Steps of the session that emit nothing.
LEMMA SessionStep ==
    ASSUME UpIInv, StreamInv', UNCHANGED <<run, said, owner, status, count>>,
           up' \in Places, UpPhases'
    PROVE  UpIInv'
<1>1. RunInv' /\ Shown' = Shown BY EndStep DEF UpIInv
<1>2. SaidTrue' BY <1>1, SaidStays DEF UpIInv
<1>3. UpTypeOK' BY <1>1 DEF UpIInv, UpTypeOK, RunInv, StreamInv
<1>4. QED BY <1>1, <1>2, <1>3 DEF UpIInv

LEMMA LeaveStep == ASSUME UpIInv, Leave PROVE UpIInv'
<1>1. StreamInv' /\ count' = count
  BY FinishStep DEF UpIInv, Leave, Finish
<1>2. UpPhases' BY DEF UpIInv, UpPhases, Leave, Step, run, runVars, process, scan
<1>3. QED BY <1>1, <1>2, SessionStep DEF Leave, Step, Places

LEMMA ViewStep ==
    ASSUME UpIInv, Forget \/ \E v \in Viewers : Look(v) \/ ComeOrGo(v) PROVE UpIInv'
<1>1. StreamInv' /\ count' = count
  <2>1. CASE Forget
    BY <2>1, RemoveSessionStep DEF UpIInv, Forget, RemoveSession, producer
  <2>2. ASSUME NEW v \in Viewers, Look(v) PROVE StreamInv' /\ count' = count
    BY <2>2, RelayStep DEF UpIInv, Look, Relay, producer
  <2>3. ASSUME NEW v \in Viewers, ComeOrGo(v) PROVE StreamInv' /\ count' = count
    <3>1. CASE Attach(v)
      BY <3>1, AttachStep DEF UpIInv, Attach, producer
    <3>2. CASE Disconnect(v)
      BY <3>2, DisconnectStep DEF UpIInv, Disconnect, producer
    <3>3. QED BY <2>3, <3>1, <3>2 DEF ComeOrGo
  <2>4. QED BY <2>1, <2>2, <2>3
<1>2. UNCHANGED <<run, op, said>> BY DEF Forget, Look, ComeOrGo
<1>3. UpPhases' BY <1>2 DEF UpIInv, UpPhases, run, runVars, process, scan, op
<1>4. QED BY <1>1, <1>2, <1>3, SessionStep DEF op, UpIInv, UpTypeOK

LEMMA UpInitInv == UpInit => UpIInv
<1> SUFFICES ASSUME UpInit PROVE UpIInv OBVIOUS
<1>1. StreamInv BY InitInv DEF UpInit
<1>2. RunInit /\ up = "lock" /\ owner \in {"nobody", "other"} /\ status = "none" /\ said = <<>>
  BY DEF UpInit
<1>3. written = <<>> /\ pipe = <<>> /\ buffer = <<>> /\ emitted = <<>> /\ Len(<<>>) = 0
  BY <1>2, EmptySeq DEF RunInit
<1>4. \A S : <<>> \in Seq(S) BY EmptySeq
<1>5. RunTypeOK
  <2>1. written \in Seq(Chunks) /\ pipe \in Seq(Chunks) /\ buffer \in Seq(Chunks)
        /\ emitted \in Seq(1..MaxChunks) /\ Len(pipe) <= PipeCap
    BY <1>3, <1>4
  <2>2. QED BY <1>2, <2>1 DEF RunInit, RunTypeOK
<1>6. Taken = 0
  <2>1. Len(written) = 0 /\ Len(pipe) = 0 /\ Len(buffer) = 0 BY <1>3
  <2>2. QED BY <2>1 DEF Taken
<1>7. Numbered
  <2>1. left \in 0..MaxChunks /\ Len(written) = 0 BY <1>2, <1>3 DEF RunInit
  <2>2. \A i \in 1..0 : FALSE OBVIOUS
  <2>3. QED BY <2>1, <2>2 DEF Numbered
<1>8. InTransit
  <2>1. \A i \in 1..0 : FALSE OBVIOUS
  <2>2. QED BY <1>3, <2>1 DEF InTransit
<1>9. Scanned
  <2>1. \A i \in 1..0 : FALSE OBVIOUS
  <2>2. Shown = {} /\ LinesIn(Taken) = {} BY <1>3, <1>6, <2>1 DEF Shown, LinesIn
  <2>3. QED BY <1>3, <1>6, <2>1, <2>2 DEF Scanned
<1>10. phase = "wait" BY <1>2 DEF RunInit
<1>11. RunInv BY <1>5, <1>7, <1>8, <1>9, <1>10 DEF RunInv
<1>12. UpTypeOK
  <2>1. Len(said) = count /\ said \in Seq(Says)
    BY <1>2, <1>4, EmptySeq DEF UpInit, Init
  <2>2. QED BY <1>1, <1>2, <1>5, <2>1 DEF UpTypeOK, Places, StreamInv
<1>13. UpPhases /\ SaidTrue
  <2>1. alive BY <1>2 DEF RunInit
  <2>2. \A i \in 1..Len(said) : FALSE BY <1>2, EmptySeq
  <2>3. QED BY <1>2, <2>1, <2>2 DEF UpPhases, SaidTrue
<1>14. QED BY <1>1, <1>11, <1>12, <1>13 DEF UpIInv

LEMMA UpNextInv == UpIInv /\ [UpNext]_upVars => UpIInv'
<1> SUFFICES ASSUME UpIInv, [UpNext]_upVars PROVE UpIInv' OBVIOUS
<1>1. CASE UNCHANGED upVars
  <2>1. UNCHANGED <<run, stream, said, owner, status, up>> BY <1>1 DEF upVars, op
  <2>2. StreamInv' /\ count' = count BY <2>1, StreamStays DEF UpIInv, stream
  <2>3. UpPhases' BY <2>1 DEF UpIInv, UpPhases, run, runVars, process, scan
  <2>4. QED BY <2>1, <2>2, <2>3, SessionStep DEF UpIInv, UpTypeOK
<1>2. CASE Operation
  BY <1>2, TryLockStep, AnnounceStep, StartCommandStep, WaitStep, ReturnStep, TellStep,
     UnlockStep, SayDoneStep, LeaveStep
  DEF Operation
<1>3. CASE Command \/ Cancel BY <1>3, CommandStep
<1>4. CASE Scanner BY <1>4, ReadPipeStep, EmitLineStep DEF Scanner
<1>5. CASE Forget \/ \E v \in Viewers : Look(v) \/ ComeOrGo(v) BY <1>5, ViewStep
<1>6. QED BY <1>1, <1>2, <1>3, <1>4, <1>5 DEF UpNext

-----------------------------------------------------------------------------
(* The theorems about an operation. *)

\* Whatever the timing of the pipe, its closing, a kill, the channel and the
\* viewers: the command runs under the lock of the stack, its session gets its
\* lines in order, each once, and misses them only at the end, and each event
\* is in one place (bridge.go:45-51, composecli.go:115-129).
THEOREM UpInvariant == UpSpec => []UpInv
<1>1. UpIInv => UpInv BY LossAtEnd DEF UpIInv, UpInv, RunsUnderLock, UpPhases
<1>2. QED BY UpInitInv, UpNextInv, <1>1, PTL DEF UpSpec

\* What a viewer is shown is true and in order, whatever it misses
\* (composecli.go:106-107, bridge.go:51-55, server/stacks.go:228).
THEOREM ToldTruth == UpSpec => []TruthInOrder
<1>1. UpInv => TruthInOrder
  <2> SUFFICES ASSUME UpInv, NEW v \in Viewers PROVE
        \A i \in 1..Len(delivered[v]) :
          LET told == Told(v)
              e    == told[i]
          IN  /\ e.what = "line" =>
                   /\ e.line \in Lines
                   /\ \A j \in 1..(i - 1) : /\ told[j].what \in {"running", "line"}
                                            /\ told[j].line < e.line
              /\ e.what = "error" => status = "failed"
              /\ e.what \in {"up", "done"} => status = "ok"
              /\ e.what = "done" => owner # "this"
    BY DEF TruthInOrder
  <2>1. PICK d \in Seq(Nat) : d = delivered[v]
    BY EventsAreNumbers DEF UpInv, UpIInv, StreamInv
  <2>2. Len(d) \in Nat /\ Len(said) = count BY <2>1, LenProperties DEF UpInv, UpIInv, UpTypeOK
  <2>3. \A i \in 1..Len(d) : Told(v)[i] = said[d[i]] BY <2>1 DEF Told
  <2>4. \A i \in 1..Len(d) : d[i] \in 1..count
    <3>1. Members(delivered[v]) \subseteq 1..count
      BY Parts DEF UpInv, UpIInv, StreamInv, OnePlace, Relayed
    <3>2. QED BY <2>1, <3>1 DEF Members
  <2>5. \A i, j \in 1..Len(d) : j < i => d[j] < d[i]
    BY <2>1, Parts DEF UpInv, UpIInv, StreamInv, Ordered, InOrder
  <2>6. Shown \subseteq Lines BY DEF UpInv, LossOnlyAtEnd
  <2>7. ASSUME NEW i \in 1..Len(d)
        PROVE  /\ Told(v)[i].what = "line" =>
                    /\ Told(v)[i].line \in Lines
                    /\ \A j \in 1..(i - 1) : /\ Told(v)[j].what \in {"running", "line"}
                                             /\ Told(v)[j].line < Told(v)[i].line
               /\ Told(v)[i].what = "error" => status = "failed"
               /\ Told(v)[i].what \in {"up", "done"} => status = "ok"
               /\ Told(v)[i].what = "done" => owner # "this"
    <3>1. PICK k \in 1..count : k = d[i] BY <2>4
    <3>2. \A j \in 1..(i - 1) : j \in 1..Len(d) /\ d[j] \in 1..(k - 1)
      <4> SUFFICES ASSUME NEW j \in 1..(i - 1) PROVE j \in 1..Len(d) /\ d[j] \in 1..(k - 1)
        OBVIOUS
      <4>1. j \in 1..Len(d) /\ j < i BY <2>2
      <4>2. d[j] \in 1..count /\ d[j] < k BY <2>4, <2>5, <3>1, <4>1
      <4>3. QED BY <3>1, <4>1, <4>2
    <3>3. /\ said[k].what = "line" =>
               /\ said[k].line \in Shown
               /\ \A j \in 1..(k - 1) : /\ said[j].what \in {"running", "line"}
                                        /\ said[j].line < said[k].line
          /\ said[k].what = "error" => status = "failed"
          /\ said[k].what \in {"up", "done"} => status = "ok"
          /\ said[k].what = "done" => owner # "this"
      BY <2>2 DEF UpInv, UpIInv, SaidTrue
    <3>4. QED BY <2>3, <2>6, <3>1, <3>2, <3>3
  <2>8. QED BY <2>1, <2>7
<1>2. QED BY UpInvariant, <1>1, PTL

\* The steps of an operation are, to its session, the steps of a session: an
\* operation on a stack implements DeployStream, endpoint "stack".
THEOREM UpImplementsStream == UpSpec => Spec
<1>1. UpInit => Init BY DEF UpInit
<1>2. [UpNext]_upVars => [Next]_vars
  <2> SUFFICES ASSUME [UpNext]_upVars PROVE [Next]_vars OBVIOUS
  <2> USE DEF Next
  <2>1. UNCHANGED stream => UNCHANGED vars
    BY DEF stream, vars, producer, relay
  <2>2. ASSUME NEW w, NEW l, Say(w, l) PROVE Next
    BY <2>2 DEF Say, Deploy
  <2>3. CASE UNCHANGED upVars BY <2>1, <2>3 DEF upVars
  <2>4. CASE Operation
    BY <2>1, <2>2, <2>4
    DEF Operation, TryLock, Announce, StartCommand, WaitForCommand, Return, Tell, Unlock,
        SayDone, Leave, Deploy
  <2>5. CASE Command \/ Cancel BY <2>1, <2>5 DEF Command, Cancel
  <2>6. CASE Scanner BY <2>1, <2>2, <2>6 DEF Scanner, ReadPipe, EmitLine
  <2>7. CASE Forget BY <2>7 DEF Forget
  <2>8. ASSUME NEW v \in Viewers, Look(v) \/ ComeOrGo(v) PROVE Next
    BY <2>8 DEF Look, ComeOrGo, View
  <2>9. QED BY <2>3, <2>4, <2>5, <2>6, <2>7, <2>8 DEF UpNext
<1>3. QED BY <1>1, <1>2, PTL DEF UpSpec, Spec

=============================================================================
