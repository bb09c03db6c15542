------------------------------ MODULE TLSCerts ------------------------------
(***************************************************************************)
(* ensureCerts: the certificate and the key that the agent makes on its    *)
(* first start and loads on every later one.  The process may end between  *)
(* any two steps; DirectServer says when.                                  *)
(*                                                                         *)
(* A file holds the half of a pair, known by the start that made it; pair  *)
(* 0 is one the operator has put there.  os.WriteFile creates the file and *)
(* fills it, so that for a moment it is torn.  A stat that fails although  *)
(* the file exists, a clock and a certificate's expiry are left out.       *)
(***************************************************************************)
EXTENDS Naturals

CONSTANTS MaxStarts,      \* bound on the starts of the agent
          Absent, Torn    \* no file; one that was not filled

ASSUME StartsAssumption == /\ MaxStarts \in Nat
                           /\ Absent \notin 0..MaxStarts
                           /\ Torn \notin 0..MaxStarts

VARIABLES starts,    \* how often the agent was started
          certFile, keyFile,
          cert,      \* the pair that Run holds
          runPc      \* where Run is

certVars == <<starts, certFile, keyFile, cert, runPc>>

Pairs == 0..MaxStarts
Files == Pairs \cup {Absent, Torn}
RunPcs == {"off", "stat", "mkdir", "fill_cert", "open_key", "fill_key",
           "listen", "publish", "accept", "serve", "failed"}

CertsTypeOK == /\ starts \in 0..MaxStarts
               /\ certFile \in Files /\ keyFile \in Files
               /\ cert \in Pairs \cup {Absent}
               /\ runPc \in RunPcs

CertsInit == /\ starts = 0
             /\ certFile \in {Absent, 0} /\ keyFile = certFile
             /\ cert = Absent
             /\ runPc = "off"

RunGoto(p, q) == runPc = p /\ runPc' = q

\* Any error is returned, whatever the disk holds by then.
FailAt(p) == RunGoto(p, "failed") /\ UNCHANGED <<starts, certFile, keyFile, cert>>

\* A certificate's file is loaded with its key, if they are a pair.
Stat == \/ /\ certFile # Absent
           /\ certFile \in Pairs /\ keyFile = certFile
           /\ RunGoto("stat", "listen")
           /\ cert' = certFile
           /\ UNCHANGED <<starts, certFile, keyFile>>
        \/ /\ certFile # Absent
           /\ ~(certFile \in Pairs /\ keyFile = certFile)
           /\ FailAt("stat")
        \/ /\ certFile = Absent
           /\ RunGoto("stat", "mkdir")
           /\ UNCHANGED <<starts, certFile, keyFile, cert>>

\* The directory and a new pair are made; os.WriteFile creates a file, then
\* fills it.
OpenCert == /\ RunGoto("mkdir", "fill_cert")
            /\ certFile' = Torn
            /\ UNCHANGED <<starts, keyFile, cert>>
FillCert == /\ RunGoto("fill_cert", "open_key")
            /\ certFile' = starts
            /\ UNCHANGED <<starts, keyFile, cert>>
OpenKey  == /\ RunGoto("open_key", "fill_key")
            /\ keyFile' = Torn
            /\ UNCHANGED <<starts, certFile, cert>>

\* Mutant: a key that could not be written is served all the same.
FillKeyOrNot == /\ RunGoto("fill_key", "listen")
                /\ keyFile' \in {starts, Torn}
                /\ cert' = starts
                /\ UNCHANGED <<starts, certFile>>

\* The pair that is served is the one in memory.
FillKey  == /\ RunGoto("fill_key", "listen")
            /\ keyFile' = starts
            /\ cert' = starts
            /\ UNCHANGED <<starts, certFile>>

EnsureCerts == \/ Stat \/ OpenCert \/ FillCert \/ OpenKey \/ FillKey
               \/ \E p \in {"mkdir", "fill_cert", "open_key", "fill_key"} : FailAt(p)
=============================================================================
