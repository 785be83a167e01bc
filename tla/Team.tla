-------------------------------- MODULE Team --------------------------------
(***************************************************************************)
(* A central server fed by the reporters of developer proxies:             *)
(* internal/reporter/reporter.go against handleReport and handleDownload   *)
(* of internal/api/handlers_proxy.go.                                      *)
(*                                                                         *)
(* Every analysed download starts two goroutines on the developer's        *)
(* machine: one posts the result, up to three times; one posts the         *)
(* download event, once.  A request and its reporter part ways when the    *)
(* client times out: the server may still serve the request afterwards,    *)
(* while its reporter sends the next.  A job stands for the two goroutines *)
(* of one download and is named by the id of its event.                    *)
(*                                                                         *)
(* The module EXTENDS ScanStore, the database of the server, and           *)
(* implements the specification StoreSpec stated there.                    *)
(***************************************************************************)
EXTENDS ScanStore

CONSTANTS
  Jobs,         \* downloads, named by their event ids
  ProxyModes,   \* modes of the developers' proxies
  MaxAttempts,  \* 3 in the code
  NoScan        \* a job that has not started
ASSUME MaxAttemptsAssumption == MaxAttempts \in Nat \ {0}
ASSUME ProxyModesAssumption == ProxyModes \subseteq Mode
ASSUME NoScanAssumption == NoScan \notin Result

VARIABLES
  scans,      \* the results the developers' pipelines have produced
  report,     \* per job: the result handed to Report
  attempt,    \* per job: posts of the result begun
  reporter,   \* per job: where the reporting goroutine is
  wire,       \* report requests the server may still serve: job and attempt
  acked,      \* per job: a good answer to its latest attempt is under way
  downloads   \* table download_events: event ids

teamVars == <<scans, report, attempt, reporter, wire, acked, downloads>>
teamAllVars == <<storeVars, teamVars>>

Request == Jobs \X (1..MaxAttempts)

TeamTypeOK ==
  /\ StoreTypeOK
  /\ scans \subseteq Result
  /\ report \in [Jobs -> Result \cup {NoScan}]
  /\ attempt \in [Jobs -> 0..MaxAttempts]
  /\ reporter \in [Jobs -> {"idle", "waiting", "backoff", "reported", "ended"}]
  /\ wire \subseteq Request
  /\ acked \in [Jobs -> BOOLEAN]
  /\ downloads \subseteq Jobs

TeamInit ==
  /\ StoreInit
  /\ scans = {}
  /\ report = [j \in Jobs |-> NoScan]
  /\ attempt = [j \in Jobs |-> 0]
  /\ reporter = [j \in Jobs |-> "idle"]
  /\ wire = {}
  /\ acked = [j \in Jobs |-> FALSE]
  /\ downloads = {}

-----------------------------------------------------------------------------
(* What a pipeline can produce next, under an id of its own.               *)
FreshScans ==
  {[id |-> id, pkg |-> p, verdict |-> ComputeVerdict(m, fs), findings |-> fs,
    scannedAt |-> now] :
     id \in {i \in ScanIds : \A s \in scans : s.id # i}, p \in Packages,
     fs \in SUBSET Findings, m \in ProxyModes}

(* Mutant: the counter of the loop does not advance.                       *)
Post_NoCount(j) ==
  /\ reporter' = [reporter EXCEPT ![j] = "waiting"]
  /\ attempt' = [attempt EXCEPT ![j] = 1]
  /\ acked' = [acked EXCEPT ![j] = FALSE]
  /\ wire' = wire \cup {<<j, 1>>}

Post(j) ==
  /\ reporter' = [reporter EXCEPT ![j] = "waiting"]
  /\ attempt' = [attempt EXCEPT ![j] = @ + 1]
  /\ acked' = [acked EXCEPT ![j] = FALSE]
  /\ wire' = wire \cup {<<j, attempt[j] + 1>>}

(* Report and ReportDownload, on a fresh result or on a cached one that    *)
(* other jobs reported before.                                             *)
Hand(j) ==
  /\ reporter[j] = "idle"
  /\ \E r \in scans \cup FreshScans :
       /\ scans' = scans \cup {r}
       /\ report' = [report EXCEPT ![j] = r]
  /\ Post(j)
  /\ UNCHANGED <<storeVars, downloads>>

(* Mutant: the error of SaveResult is answered with 200.                   *)
ServeReport_IgnoresError(j, n) ==
  /\ <<j, n>> \in wire
  /\ wire' = wire \ {<<j, n>>}
  /\ acked' = [acked EXCEPT ![j] =
       @ \/ (reporter[j] = "waiting" /\ attempt[j] = n)]
  /\ SaveResult(report[j]) \/ UNCHANGED storeVars
  /\ UNCHANGED <<scans, report, attempt, reporter, downloads>>

(* Mutant: the cache row is committed without the history row.             *)
ServeReport_CacheOnly(j, n) ==
  /\ <<j, n>> \in wire
  /\ wire' = wire \ {<<j, n>>}
  /\ acked' = [acked EXCEPT ![j] =
       @ \/ (reporter[j] = "waiting" /\ attempt[j] = n)]
  /\ cache' = [cache EXCEPT ![report[j].pkg] =
                 [result |-> report[j], expiresAt |-> Expiry(report[j])]]
  /\ UNCHANGED <<history, dismissals, exceptions, now, saved>>
  /\ UNCHANGED <<scans, report, attempt, reporter, downloads>>

(* handleReport: the row is committed before the answer is written.  The   *)
(* answer finds its reporter only if that still waits for it.  A request   *)
(* that is lost, cancelled or answered 500 is one that is never served.    *)
ServeReport(j, n) ==
  /\ <<j, n>> \in wire
  /\ wire' = wire \ {<<j, n>>}
  /\ acked' = [acked EXCEPT ![j] =
       @ \/ (reporter[j] = "waiting" /\ attempt[j] = n)]
  /\ SaveResult(report[j])
  /\ UNCHANGED <<scans, report, attempt, reporter, downloads>>

(* post returned nil.                                                      *)
Answered(j) ==
  /\ reporter[j] = "waiting" /\ acked[j]
  /\ reporter' = [reporter EXCEPT ![j] = "reported"]
  /\ acked' = [acked EXCEPT ![j] = FALSE]
  /\ UNCHANGED <<storeVars, scans, report, attempt, wire, downloads>>

(* post returned an error: a bad status, a broken connection, or the five  *)
(* seconds of the client, at which nobody knows what the server did or     *)
(* will do.                                                                *)
AttemptFails(j) ==
  /\ reporter[j] = "waiting"
  /\ reporter' = [reporter EXCEPT ![j] =
       IF attempt[j] = MaxAttempts THEN "ended" ELSE "backoff"]
  /\ acked' = [acked EXCEPT ![j] = FALSE]
  /\ UNCHANGED <<storeVars, scans, report, attempt, wire, downloads>>

Retry(j) ==
  /\ reporter[j] = "backoff"
  /\ Post(j)
  /\ UNCHANGED <<storeVars, scans, report, downloads>>

(* handleDownload, then SaveDownload (ON CONFLICT DO NOTHING).  The event  *)
(* is posted once; one that is lost is never served.                       *)
ServeDownload(j) ==
  /\ reporter[j] # "idle" /\ j \notin downloads
  /\ downloads' = downloads \cup {j}
  /\ UNCHANGED <<storeVars, scans, report, attempt, reporter, wire, acked>>

(* The developer's proxy stops: its goroutines end, what is on the wire    *)
(* stays there.                                                            *)
ProxyDies(j) ==
  /\ reporter[j] \in {"waiting", "backoff"}
  /\ reporter' = [reporter EXCEPT ![j] = "ended"]
  /\ acked' = [acked EXCEPT ![j] = FALSE]
  /\ UNCHANGED <<storeVars, scans, report, attempt, wire, downloads>>

(* The dashboard and the clock of the server.                              *)
ServerSide ==
  /\ Triage \/ PruneHistory \/ Tick
  /\ UNCHANGED teamVars

TeamNext ==
  \/ \E j \in Jobs :
       \/ Hand(j) \/ Answered(j) \/ AttemptFails(j) \/ Retry(j)
       \/ ServeDownload(j) \/ ProxyDies(j)
  \/ \E j \in Jobs, n \in 1..MaxAttempts : ServeReport(j, n)
  \/ ServerSide

TeamSpec == TeamInit /\ [][TeamNext]_teamAllVars

(* The client's timeout ends every wait, and time.Sleep every pause.       *)
FairTeamSpec ==
  /\ TeamSpec
  /\ \A j \in Jobs : WF_teamAllVars(Answered(j) \/ AttemptFails(j) \/ Retry(j))

-----------------------------------------------------------------------------
(* Properties.                                                             *)

(* A reporter that was told "ok" may rely on it: its result is in the      *)
(* database, although answers come late, requests are served after their   *)
(* client gave up, and other reporters send the same scan (post and        *)
(* handleReport).                                                          *)
ReportedIsStored ==
  \A j \in Jobs : reporter[j] = "reported" => report[j] \in saved

(* Whatever the reporters and the network do, the server's database sees   *)
(* nothing but what StoreSpec allows: one scan per id, saved any number of *)
(* times, late and in any order (Report retries, handleReport).            *)
ImplementsStore == StoreSpec

(* No reporting goroutine lives forever: it is answered, gives up after    *)
(* its last attempt, or dies with its process (the loop of Report).        *)
EveryReportSettles ==
  \A j \in Jobs :
    reporter[j] = "waiting" ~> reporter[j] \in {"reported", "ended"}
=============================================================================
