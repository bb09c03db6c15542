------------------------- MODULE DirectServer_proofs -------------------------
(***************************************************************************)
(* DirectInv is an inductive invariant of DirectServer, for any number of  *)
(* starts, requests and viewers: a certificate that was presented is kept. *)
(* A stop is graceful because there are requests only once Serve runs, and *)
(* Shutdown cannot miss the server then.                                   *)
(***************************************************************************)
EXTENDS DirectServer, TLAPS

USE StartsAssumption DEF Pairs, Files, RunPcs, RequestStates, Handlers, Returns,
                         certVars, process, streams, others, Same

LEMMA CertSteps ==
  ASSUME DirectInv, Certs
  PROVE  DirectInv'
<1> USE DEF DirectInv, TypeOK, CertsTypeOK, CertKept, MadeOnce, CertFirst, HoldsPair
<1>1. CASE Stat     BY <1>1 DEF Certs, Stat, RunGoto, FailAt
<1>2. CASE OpenCert BY <1>2 DEF Certs, OpenCert, RunGoto
<1>3. CASE FillCert BY <1>3 DEF Certs, FillCert, RunGoto
<1>4. CASE OpenKey  BY <1>4 DEF Certs, OpenKey, RunGoto
<1>5. CASE FillKey  BY <1>5 DEF Certs, FillKey, RunGoto
<1>6. ASSUME NEW p \in {"mkdir", "fill_cert", "open_key", "fill_key"}, FailAt(p)
      PROVE  DirectInv'
  BY <1>6 DEF Certs, FailAt, RunGoto
<1>7. QED BY <1>1, <1>2, <1>3, <1>4, <1>5, <1>6 DEF Certs, EnsureCerts

LEMMA RunSteps ==
  ASSUME DirectInv, Run
  PROVE  DirectInv'
<1> USE DEF DirectInv, TypeOK, CertsTypeOK, CertKept, MadeOnce, CertFirst, HoldsPair
<1>1. CASE Certs   BY <1>1, CertSteps
<1>2. CASE Listen  BY <1>2 DEF Listen, RunGoto, FailAt
<1>3. CASE Publish BY <1>3 DEF Publish, RunGoto
<1>4. CASE Serve
  <2>1. /\ UNCHANGED <<starts, certFile, keyFile, cert, others, httpSrv>>
        /\ runPc = "accept" /\ runPc' \in {"serve", "failed"}
        /\ \/ served' = served
           \/ tls /\ served' = served \cup {cert}
    BY <1>4 DEF Serve, RunGoto
  <2>2. served' \subseteq Pairs
    <3>1. served \subseteq Pairs OBVIOUS
    <3>2. tls => cert \in Pairs BY <2>1
    <3>3. CASE served' = served BY <3>1, <3>3
    <3>4. CASE tls /\ served' = served \cup {cert}
      <4>1. \A p \in served' : p \in served \/ p = cert BY <3>4
      <4>2. QED BY <3>1, <3>2, <3>4, <4>1
    <3>5. QED BY <2>1, <3>3, <3>4
  <2>3. TypeOK' BY <2>1, <2>2
  <2>4. CertKept'
    <3>1. SUFFICES ASSUME NEW p \in served' PROVE certFile = p /\ keyFile = p
      BY <2>1
    <3>2. CASE p \in served BY <3>2
    <3>3. CASE tls /\ p = cert BY <3>3, <2>1
    <3>4. QED BY <2>1, <3>2, <3>3
  <2>5. MadeOnce' /\ CertFirst' /\ HoldsPair' BY <2>1
  <2>6. QED BY <2>3, <2>4, <2>5
<1>5. QED BY <1>1, <1>2, <1>3, <1>4 DEF Run

LEMMA EndStep ==
  ASSUME DirectInv, NEW how \in {"fatal", "crash"} \cup Returns, End(how)
  PROVE  DirectInv'
  BY DEF DirectInv, TypeOK, CertsTypeOK, CertKept, MadeOnce, CertFirst, HoldsPair, End

LEMMA MainSteps ==
  ASSUME DirectInv, Boot \/ Crash \/ Signal \/ Main
  PROVE  DirectInv'
<1> USE DEF DirectInv, TypeOK, CertsTypeOK, CertKept, MadeOnce, CertFirst, HoldsPair
<1>1. CASE Boot
  <2>1. stopping' \in BOOLEAN /\ httpSrv' \in BOOLEAN BY <1>1, Zenon DEF Boot
  <2>2. starts' \in 0..MaxStarts BY <1>1 DEF Boot
  <2>3. TypeOK' BY <1>1, <2>1, <2>2 DEF Boot
  <2>4. CertKept' /\ MadeOnce' /\ CertFirst' /\ HoldsPair' BY <1>1 DEF Boot
  <2>5. QED BY <2>3, <2>4
<1>2. CASE Crash           BY <1>2, EndStep DEF Crash
<1>3. CASE Signal          BY <1>3 DEF Signal
<1>4. CASE SeeStop         BY <1>4 DEF SeeStop, MainGoto
<1>5. CASE SeeError        BY <1>5, EndStep DEF SeeError
<1>6. CASE Shutdown
  <2>1. CASE MainGoto("shutdown", "early")   BY <2>1 DEF MainGoto
  <2>2. CASE MainGoto("shutdown", "waiting") BY <2>2 DEF MainGoto
  <2>3. QED BY <1>6, <2>1, <2>2 DEF Shutdown
<1>7. CASE ShutdownReturns
  <2>1. CASE MainGoto("waiting", "graceful") BY <2>1 DEF MainGoto
  <2>2. CASE MainGoto("waiting", "timeout")  BY <2>2 DEF MainGoto
  <2>3. QED BY <1>7, <2>1, <2>2 DEF ShutdownReturns
<1>8. CASE Exit            BY <1>8, EndStep DEF Exit
<1>9. QED BY <1>1, <1>2, <1>3, <1>4, <1>5, <1>6, <1>7, <1>8 DEF Main

LEMMA RequestSteps ==
  ASSUME DirectInv, NEW r \in Requests, Arrive(r) \/ Answer(r) \/ Deployed(r)
  PROVE  DirectInv'
<1> USE DEF DirectInv, TypeOK, CertsTypeOK
<1>1. UNCHANGED <<process, streams, running>> BY DEF Arrive, Answer, Deployed
<1>2. request' \in [Requests -> RequestStates] BY DEF Arrive, Answer, Deployed
<1>3. QED BY <1>1, <1>2 DEF CertKept, MadeOnce, CertFirst, HoldsPair

\* What a step of a stream touches.
LEMMA StreamSteps ==
  ASSUME DirectInv, NEW v \in Viewers, Open(v) \/ Stream(v) \/ Leave(v)
  PROVE  DirectInv'
<1> USE DEF DirectInv, TypeOK, CertsTypeOK, CertKept, MadeOnce, CertFirst, HoldsPair,
            At, Goes, Return
<1>1. CASE Open(v)      BY <1>1 DEF Open
<1>2. CASE Inspect(v)   BY <1>2 DEF Inspect
<1>3. CASE Sample(v)    BY <1>3 DEF Sample
<1>4. CASE Tick(v)      BY <1>4 DEF Tick
<1>5. CASE OpenLogs(v)  BY <1>5 DEF OpenLogs
<1>6. CASE ReadLogs(v)  BY <1>6 DEF ReadLogs
<1>7. CASE ReadFails(v) BY <1>7 DEF ReadFails
<1>8. CASE Leave(v)     BY <1>8 DEF Leave
<1>9. CASE Write(v)
  <2>1. CASE WriteStats(v) BY <2>1 DEF WriteStats
  <2>2. CASE WriteLogs(v)  BY <2>2 DEF WriteLogs
  <2>3. QED BY <1>9, <2>1, <2>2 DEF Write
<1>10. QED
  BY <1>1, <1>2, <1>3, <1>4, <1>5, <1>6, <1>7, <1>8, <1>9 DEF Stream, Stats, Logs

LEMMA DirectStep == DirectInv /\ [Next]_vars => DirectInv'
<1> SUFFICES ASSUME DirectInv, [Next]_vars PROVE DirectInv' OBVIOUS
<1> USE DEF DirectInv, TypeOK, CertsTypeOK, CertKept, MadeOnce, CertFirst, HoldsPair
<1>1. CASE Boot \/ Crash \/ Signal \/ Main BY <1>1, MainSteps
<1>2. CASE Run BY <1>2, RunSteps
<1>3. CASE ContainerStops
  <2>1. running' \in BOOLEAN /\ UNCHANGED <<process, request, streams>>
    BY <1>3 DEF ContainerStops
  <2>2. TypeOK' BY <2>1
  <2>3. CertKept' /\ MadeOnce' /\ CertFirst' /\ HoldsPair' BY <2>1
  <2>4. QED BY <2>2, <2>3
<1>4. ASSUME NEW r \in Requests, Arrive(r) \/ Answer(r) \/ Deployed(r)
      PROVE  DirectInv'
  BY <1>4, RequestSteps
<1>5. ASSUME NEW v \in Viewers, Open(v) \/ Stream(v) \/ Leave(v)
      PROVE  DirectInv'
  BY <1>5, StreamSteps
<1>6. CASE UNCHANGED vars BY <1>6 DEF vars
<1>7. QED BY <1>1, <1>2, <1>3, <1>4, <1>5, <1>6 DEF Next

LEMMA InitDirect == Init => DirectInv
<1> SUFFICES ASSUME Init PROVE DirectInv OBVIOUS
<1> USE DEF Init, CertsInit
<1>1. CertsTypeOK BY DEF CertsTypeOK
<1>2. /\ stopping \in BOOLEAN /\ httpSrv \in BOOLEAN /\ running \in BOOLEAN
      /\ tls \in BOOLEAN
  OBVIOUS
<1>3. TypeOK BY <1>1, <1>2 DEF TypeOK
<1>4. CertKept /\ MadeOnce /\ CertFirst /\ HoldsPair
  BY DEF CertKept, MadeOnce, CertFirst, HoldsPair
<1>5. QED BY <1>3, <1>4 DEF DirectInv

\* A pair that was presented to clients is kept on disk: through any number of
\* starts, failed writes and crashes at any point (server.go:96-161).
THEOREM DirectInvariant == Spec => []DirectInv
  BY InitDirect, DirectStep, PTL DEF Spec

-----------------------------------------------------------------------------
StopInv == DirectInv /\ NoneCut /\ ServerKnown /\ NoneLeft /\ StopIsGraceful

\* A process that ends of itself, or by its timeout, says so; one that ends
\* after Shutdown returned has no active request.
LEMMA EndKeepsStop ==
  ASSUME StopInv, NEW how \in {"fatal", "crash"} \cup Returns, End(how),
         main # "down",
         how \in {"early", "graceful"} => Active = {}
  PROVE  (NoneCut /\ ServerKnown /\ NoneLeft /\ StopIsGraceful)'
<1> USE DEF StopInv, DirectInv, TypeOK, End
<1>1. main' = "down" /\ runPc' = "off" /\ ended' = how OBVIOUS
<1>2. (NoneCut /\ ServerKnown /\ NoneLeft)'
  BY <1>1 DEF NoneCut, ServerKnown, NoneLeft
<1>3. ASSUME NEW r \in Requests, how \in {"early", "graceful"}
      PROVE  request'[r] # "cut"
  <2>1. request[r] # "active" /\ request[r] # "cut" BY <1>3 DEF Active, NoneCut
  <2>2. request'[r] = CASE request[r] = "active"    -> "cut"
                        [] request[r] = "late"      -> "missed"
                        [] request[r] = "deploying" -> "interrupted"
                        [] OTHER                    -> request[r]
    OBVIOUS
  <2>3. QED BY <2>1, <2>2
<1>4. StopIsGraceful' BY <1>1, <1>3 DEF StopIsGraceful
<1>5. QED BY <1>2, <1>4

\* Shutdown misses the server only before Serve runs, when nothing was asked.
LEMMA ShutdownKeepsStop ==
  ASSUME StopInv, Shutdown \/ ShutdownReturns
  PROVE  (NoneCut /\ ServerKnown /\ NoneLeft /\ StopIsGraceful)'
<1> USE DEF StopInv, DirectInv, TypeOK, NoneCut, ServerKnown, NoneLeft, StopIsGraceful,
            Active, MainGoto
<1>1. CASE Shutdown /\ main' = "early"
  <2>1. main = "shutdown" /\ runPc # "serve" BY <1>1 DEF Shutdown
  <2>2. Active = {} BY <2>1
  <2>3. QED BY <1>1, <2>1, <2>2 DEF Shutdown
<1>2. CASE Shutdown /\ main' = "waiting" BY <1>2 DEF Shutdown
<1>3. CASE ShutdownReturns BY <1>3 DEF ShutdownReturns
<1>4. QED BY <1>1, <1>2, <1>3 DEF Shutdown

LEMMA StopStep == StopInv /\ [Next]_vars => StopInv'
<1> SUFFICES ASSUME StopInv, [Next]_vars
             PROVE  (NoneCut /\ ServerKnown /\ NoneLeft /\ StopIsGraceful)'
  BY DirectStep DEF StopInv
<1> USE DEF StopInv, NoneCut, ServerKnown, NoneLeft, StopIsGraceful, Active,
            DirectInv, TypeOK, CertsTypeOK
<1>1. CASE Boot BY <1>1 DEF Boot
<1>2. CASE Crash BY <1>2, EndKeepsStop DEF Crash
<1>3. CASE Signal BY <1>3 DEF Signal
<1>4. CASE SeeStop BY <1>4 DEF SeeStop, MainGoto
<1>5. CASE SeeError BY <1>5, EndKeepsStop DEF SeeError
<1>6. CASE Shutdown BY <1>6, ShutdownKeepsStop
<1>7. CASE ShutdownReturns BY <1>7, ShutdownKeepsStop
<1>8. CASE Exit BY <1>8, EndKeepsStop DEF Exit
<1>9. CASE Certs
  BY <1>9 DEF Certs, EnsureCerts, Stat, OpenCert, FillCert, OpenKey, FillKey, FailAt, RunGoto
<1>10. CASE Listen BY <1>10 DEF Listen, FailAt, RunGoto
<1>11. CASE Publish BY <1>11 DEF Publish, RunGoto
<1>12. CASE Serve BY <1>12 DEF Serve, RunGoto, Closed
<1>13. ASSUME NEW r \in Requests, Arrive(r) \/ Answer(r) \/ Deployed(r)
       PROVE  (NoneCut /\ ServerKnown /\ NoneLeft /\ StopIsGraceful)'
  <2>1. CASE Arrive(r) BY <1>13, <2>1 DEF Arrive, Serving, Closed
  <2>2. CASE Answer(r) BY <1>13, <2>2 DEF Answer
  <2>3. CASE Deployed(r) BY <1>13, <2>3 DEF Deployed
  <2>4. QED BY <1>13, <2>1, <2>2, <2>3
<1>14. CASE UNCHANGED <<process, request>> BY <1>14
<1>15. ASSUME NEW v \in Viewers, Open(v) \/ Stream(v) \/ Leave(v)
       PROVE  UNCHANGED <<process, request>>
  BY <1>15 DEF Open, Stream, Stats, Logs, Write, Inspect, Sample, Tick, OpenLogs,
               ReadLogs, WriteStats, WriteLogs, ReadFails, Leave
<1>16. QED
  BY <1>1, <1>2, <1>3, <1>4, <1>5, <1>6, <1>7, <1>8, <1>9, <1>10, <1>11, <1>12,
     <1>13, <1>14, <1>15 DEF Next, Main, Run, ContainerStops, vars

\* A stop cuts no request that was there when Shutdown looked for the server
\* and was answered before the timeout, for any number of requests and starts
\* (main.go:97-100, server.go:76-93).
THEOREM GracefulStop == Spec => []StopIsGraceful
<1>1. Init => StopInv
  <2>1. Init => NoneCut /\ ServerKnown /\ NoneLeft /\ StopIsGraceful
    BY DEF Init, CertsInit, NoneCut, ServerKnown, NoneLeft, StopIsGraceful
  <2>2. QED BY <2>1, InitDirect DEF StopInv
<1>2. StopInv => StopIsGraceful BY DEF StopInv
<1>3. QED BY <1>1, <1>2, StopStep, PTL DEF Spec
=============================================================================
