----------------------------- MODULE TeamProofs -----------------------------
(***************************************************************************)
(* Team implements StoreSpec, for any number of downloads, attempts and    *)
(* scans, so what ScanStoreProofs says of the store holds for the database *)
(* of the server; and a reporter that was answered can rely on it.         *)
(***************************************************************************)
EXTENDS Team, ScanStoreProofs

(* A scan that some pipeline finished in the past.                         *)
Finished(s) ==
  /\ s \in Result /\ s.scannedAt <= now
  /\ \E m \in Mode : s.verdict = ComputeVerdict(m, s.findings)

(* The inductive invariant.  StoreSpec asks that results with one id be    *)
(* one scan; here that holds because a reporter only ever posts the scan   *)
(* it was handed, and every scan has an id of its own.                     *)
TeamInv ==
  /\ TeamTypeOK
  /\ \A s \in scans : Finished(s)
  /\ \A s, t \in scans : s.id = t.id => s = t
  /\ saved \subseteq scans
  /\ \A j \in Jobs : reporter[j] # "idle" => report[j] \in scans
  /\ \A j \in Jobs : reporter[j] = "idle" => attempt[j] = 0
  /\ \A j \in Jobs : reporter[j] = "backoff" => attempt[j] < MaxAttempts
  /\ \A q \in wire : reporter[q[1]] # "idle"
  /\ \A j \in Jobs : acked[j] \/ reporter[j] = "reported" => report[j] \in saved

-----------------------------------------------------------------------------
(* The initial state satisfies the invariant.                              *)
LEMMA TeamInvInit == TeamInit => TeamInv
<1> SUFFICES ASSUME TeamInit PROVE TeamInv
  OBVIOUS
<1>1. StoreTypeOK /\ saved = {}
  BY StoreInvInit DEF TeamInit, StoreInv, StoreInit
<1>2. TeamTypeOK
  BY <1>1, MaxAttemptsAssumption DEF TeamInit, TeamTypeOK, Request
<1> QED BY <1>1, <1>2 DEF TeamInit, TeamInv

(* A fresh scan is a finished scan with a new id.                          *)
LEMMA FreshIsFinished ==
  ASSUME StoreTypeOK, NEW r \in FreshScans
  PROVE  Finished(r) /\ \A s \in scans : s.id # r.id
<1>1. PICK id \in {i \in ScanIds : \A s \in scans : s.id # i}, p \in Packages,
           fs \in SUBSET Findings, m \in ProxyModes :
        r = [id |-> id, pkg |-> p, verdict |-> ComputeVerdict(m, fs),
             findings |-> fs, scannedAt |-> now]
  BY DEF FreshScans
<1>2. now \in Nat
  BY DEF StoreTypeOK
<1>3. r \in Result
  BY <1>1, <1>2, VerdictType DEF Result
<1>4. r.scannedAt <= now
  BY <1>1, <1>2
<1>5. r.verdict = ComputeVerdict(m, r.findings) /\ m \in Mode
  BY <1>1, ProxyModesAssumption
<1> QED BY <1>1, <1>3, <1>4, <1>5 DEF Finished

(* Finished scans stay finished as time goes on.                           *)
LEMMA FinishedStays ==
  ASSUME NEW s, Finished(s), now \in Nat, now' \in Nat, now' >= now
  PROVE  Finished(s)'
<1>1. s.scannedAt \in Nat
  BY DEF Finished, Result
<1> QED BY <1>1 DEF Finished, ComputeVerdict, HasCriticalOrBlock, Result

(* The start of a job.                                                     *)
LEMMA HandStep == ASSUME TeamInv, NEW j \in Jobs, Hand(j) PROVE TeamInv'
<1> USE DEF TeamInv, TeamTypeOK, Hand, Post, storeVars
<1>1. PICK r \in scans \cup FreshScans :
        scans' = scans \cup {r} /\ report' = [report EXCEPT ![j] = r]
  OBVIOUS
<1>2. Finished(r) /\ (r \in scans \/ \A s \in scans : s.id # r.id)
  BY <1>1, FreshIsFinished
<1>3. StoreTypeOK'
  BY DEF StoreTypeOK
<1>4. 1 \in 1..MaxAttempts /\ 0 + 1 = 1 /\ attempt[j] = 0
  BY MaxAttemptsAssumption
<1>5. <<j, attempt[j] + 1>> \in Request
  BY <1>4 DEF Request
<1>6. TeamTypeOK'
  <2>1. r \in Result
    BY <1>2 DEF Finished
  <2>2. attempt' \in [Jobs -> 0..MaxAttempts]
    BY <1>4, MaxAttemptsAssumption
  <2> QED BY <1>1, <1>3, <1>5, <2>1, <2>2
<1>7. \A s \in scans' : Finished(s)'
  BY <1>1, <1>2, FinishedStays DEF StoreTypeOK
<1>8. \A s, t \in scans' : s.id = t.id => s = t
  BY <1>1, <1>2
<1>9. \A i \in Jobs : reporter'[i] # "idle" => report'[i] \in scans'
  BY <1>1
<1>10. \A q \in wire' : reporter'[q[1]] # "idle"
  BY DEF Request
<1>11. \A i \in Jobs : acked'[i] \/ reporter'[i] = "reported" => report'[i] \in saved'
  BY <1>1
<1> QED BY <1>1, <1>6, <1>7, <1>8, <1>9, <1>10, <1>11

(* A request is served, its job's scan saved.                              *)
LEMMA ServeStep ==
  ASSUME TeamInv, NEW j \in Jobs, NEW n \in 1..MaxAttempts, ServeReport(j, n)
  PROVE  TeamInv' /\ Report
<1> USE DEF TeamInv, TeamTypeOK, ServeReport
<1> DEFINE r == report[j]
<1>1. reporter[j] # "idle"
  <2>1. <<j, n>>[1] = j
    OBVIOUS
  <2> QED BY <2>1
<1>2. r \in scans /\ Finished(r)
  BY <1>1
<1>3. r \in Result /\ StoreTypeOK'
  BY <1>2, SaveResultType DEF Finished
<1>4. saved' = saved \cup {r} /\ now' = now
  BY DEF SaveResult
<1>5. \A s \in scans : Finished(s)'
  BY <1>4, FinishedStays DEF StoreTypeOK
<1>6. TeamInv'
  BY <1>2, <1>3, <1>4, <1>5
<1>7. Report
  <2>1. PICK m \in Mode : r.verdict = ComputeVerdict(m, r.findings)
    BY <1>2 DEF Finished
  <2>2. r.scannedAt \in 0..now
    <3>1. r.scannedAt \in Nat /\ now \in Nat
      BY <1>3 DEF Result, StoreTypeOK
    <3> QED BY <1>2, <3>1 DEF Finished
  <2>3. r = [id |-> r.id, pkg |-> r.pkg, verdict |-> ComputeVerdict(m, r.findings),
             findings |-> r.findings, scannedAt |-> r.scannedAt]
    BY <1>3, <2>1 DEF Result
  <2>4. r.id \in ScanIds /\ r.pkg \in Packages /\ r.findings \in SUBSET Findings
    BY <1>3 DEF Result
  <2>5. \A s \in saved : s.id = r.id => s = r
    BY <1>2
  <2> QED BY <2>1, <2>2, <2>3, <2>4, <2>5 DEF Report
<1> QED BY <1>6, <1>7

(* The steps of a reporter that leave its scan and the store alone.        *)
LEMMA ReporterStep ==
  ASSUME TeamInv, NEW j \in Jobs,
         \/ Answered(j) \/ AttemptFails(j) \/ Retry(j)
         \/ ServeDownload(j) \/ ProxyDies(j)
  PROVE  TeamInv'
<1> USE DEF TeamInv, TeamTypeOK, storeVars
<1>1. StoreTypeOK' /\ \A s \in scans : Finished(s)'
  <2>1. UNCHANGED storeVars
    BY DEF Answered, AttemptFails, Retry, ServeDownload, ProxyDies
  <2> QED BY <2>1, FinishedStays DEF StoreTypeOK
<1>2. CASE Answered(j)
  BY <1>1, <1>2 DEF Answered
<1>3. CASE AttemptFails(j)
  <2>1. reporter'[j] = "backoff" => attempt[j] < MaxAttempts
    BY <1>3, MaxAttemptsAssumption DEF AttemptFails
  <2>2. \A i \in Jobs : reporter'[i] = "backoff" => attempt'[i] < MaxAttempts
    BY <1>3, <2>1 DEF AttemptFails
  <2>3. TeamTypeOK'
    BY <1>1, <1>3 DEF AttemptFails
  <2>4. \A q \in wire' : reporter'[q[1]] # "idle"
    BY <1>3 DEF AttemptFails, Request
  <2> QED BY <1>1, <1>3, <2>2, <2>3, <2>4 DEF AttemptFails
<1>4. CASE Retry(j)
  <2>1. attempt[j] + 1 \in 1..MaxAttempts
    BY <1>4, MaxAttemptsAssumption DEF Retry
  <2>2. attempt' \in [Jobs -> 0..MaxAttempts] /\ wire' \subseteq Request
    BY <1>4, <2>1, MaxAttemptsAssumption DEF Retry, Post, Request
  <2>3. \A q \in wire' : reporter'[q[1]] # "idle"
    BY <1>4 DEF Retry, Post, Request
  <2> QED BY <1>1, <1>4, <2>2, <2>3 DEF Retry, Post
<1>5. CASE ServeDownload(j)
  BY <1>1, <1>5 DEF ServeDownload
<1>6. CASE ProxyDies(j)
  BY <1>1, <1>6 DEF ProxyDies
<1> QED BY <1>2, <1>3, <1>4, <1>5, <1>6

(* The server's own steps.                                                 *)
LEMMA ServerSideStep == ASSUME TeamInv, ServerSide PROVE TeamInv'
<1> USE DEF TeamInv, TeamTypeOK, ServerSide, teamVars
<1>1. /\ StoreTypeOK' /\ saved' = saved
      /\ now' >= now
  <2>1. CASE Triage
    BY <2>1 DEF Triage, DismissResult, OpenViolations, StoreTypeOK, Result
  <2>2. CASE PruneHistory
    BY <2>2, PruneHistoryType DEF PruneHistory, StoreTypeOK
  <2>3. CASE Tick
    BY <2>3, TickType DEF Tick, StoreTypeOK
  <2> QED BY <2>1, <2>2, <2>3
<1>2. \A s \in scans : Finished(s)'
  BY <1>1, FinishedStays DEF StoreTypeOK
<1> QED BY <1>1, <1>2

(* Every step keeps the invariant and is a step of the store.              *)
LEMMA TeamInvStep ==
  TeamInv /\ [TeamNext]_teamAllVars => TeamInv' /\ [StoreNext]_storeVars
<1> SUFFICES ASSUME TeamInv, [TeamNext]_teamAllVars
             PROVE  TeamInv' /\ [StoreNext]_storeVars
  OBVIOUS
<1>1. CASE \E j \in Jobs : Hand(j)
  BY <1>1, HandStep DEF Hand
<1>2. CASE \E j \in Jobs : \/ Answered(j) \/ AttemptFails(j) \/ Retry(j)
                           \/ ServeDownload(j) \/ ProxyDies(j)
  BY <1>2, ReporterStep DEF Answered, AttemptFails, Retry, ServeDownload, ProxyDies
<1>3. CASE \E j \in Jobs, n \in 1..MaxAttempts : ServeReport(j, n)
  BY <1>3, ServeStep DEF StoreNext
<1>4. CASE ServerSide
  BY <1>4, ServerSideStep DEF ServerSide, StoreNext
<1>5. CASE UNCHANGED teamAllVars
  <2>1. \A s \in scans : Finished(s)'
    BY <1>5, FinishedStays DEF teamAllVars, storeVars, TeamInv, TeamTypeOK, StoreTypeOK
  <2> QED BY <1>5, <2>1
    DEF teamAllVars, teamVars, storeVars, TeamInv, TeamTypeOK, StoreTypeOK
<1> QED BY <1>1, <1>2, <1>3, <1>4, <1>5 DEF TeamNext

(* The inductive invariant holds in every reachable state.                 *)
THEOREM TeamInvariant == TeamSpec => []TeamInv
BY TeamInvInit, TeamInvStep, PTL DEF TeamSpec

(* The variables of any number of reporters keep their types; no reporter  *)
(* posts more often than MaxAttempts.                                      *)
THEOREM TeamTypeCorrect == TeamSpec => []TeamTypeOK
<1>1. TeamInv => TeamTypeOK
  BY DEF TeamInv
<1> QED BY <1>1, TeamInvariant, PTL

(* A reporter that was told "ok" finds its result in the database.         *)
THEOREM ReportsAreStored == TeamSpec => []ReportedIsStored
<1>1. TeamInv => ReportedIsStored
  BY DEF TeamInv, ReportedIsStored
<1> QED BY <1>1, TeamInvariant, PTL

(* Retries, late requests and repeated reports do to the server's database *)
(* nothing that StoreSpec does not allow.                                  *)
THEOREM TeamImplementsStore == TeamSpec => ImplementsStore
<1>1. TeamInit => StoreInit
  BY DEF TeamInit
<1> QED BY <1>1, TeamInvStep, TeamInvariant, PTL DEF TeamSpec, StoreSpec, ImplementsStore

(* So the server's history holds the newest scans its developers reported. *)
THEOREM TeamHistoryIsNewest == TeamSpec => []HistoryKeepsNewest
BY TeamImplementsStore, HistoryIsNewest, PTL DEF ImplementsStore

(* And no report, however late or often, extends the life of a verdict.    *)
THEOREM TeamCacheLife == TeamSpec => []CacheLifeFromScan
BY TeamImplementsStore, CacheLife, PTL DEF ImplementsStore

(* And a dismissed scan stays dismissed, whoever reports it again.         *)
THEOREM TeamDismissalsHold == TeamSpec => DismissedStaysDismissed
BY TeamImplementsStore, DismissalsHold, PTL DEF ImplementsStore
=============================================================================
