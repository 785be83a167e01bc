----------------------------- MODULE ScanStore -----------------------------
(***************************************************************************)
(* The persistent store of internal/db/sql_store.go: the scan cache, the   *)
(* scan history with its dismissals, and the exception list.  Every action *)
(* is one SQL transaction (or one auto-committed statement), so it is      *)
(* atomic; a crash loses or keeps it whole.                                *)
(*                                                                         *)
(* This module is both a library for the modules that EXTEND it (their     *)
(* actions call SaveResult and the rest) and a component of its own: its   *)
(* StoreNext lets an environment of reporting proxies save any scan at any *)
(* time, again and in any order, as POST /api/v1/report allows.            *)
(*                                                                         *)
(* Ecosystem and name always travel together and are compared together;    *)
(* a member of Names stands for the pair.                                  *)
(***************************************************************************)
EXTENDS Naturals, FiniteSets, Verdicts

CONSTANTS
  Names,          \* ecosystem-and-name pairs
  Versions,       \* package versions
  NoVersion,      \* the empty version: a name-level check, or "any version"
  Packages,       \* the package references of the instance
  Findings,       \* the findings of the instance
  ScanIds,        \* scan ids (UUIDs drawn by newScanID)
  ExceptionIds,   \* exception ids
  NoRow,          \* no cache row
  Never,          \* exceptions.expires_at IS NULL
  TTLAllow,       \* cacheTTLAllow, four hours in the code
  TTLFlag,        \* cacheTTLFlag, one hour in the code
  HistoryLimit,   \* rows kept by SaveResult, 1000 in the code
  Retention,      \* historyDays of PruneHistory
  MaxTime         \* bound of the clock

ASSUME PackagesAssumption ==
  /\ NoVersion \notin Versions
  /\ Packages \subseteq [name : Names, version : Versions \cup {NoVersion}]
ASSUME FindingsAssumption == Findings \subseteq Finding
ASSUME NoRowAssumption ==
  NoRow \notin [result : [id : ScanIds, pkg : Packages, verdict : Verdict,
                          findings : SUBSET Findings, scannedAt : Nat],
                expiresAt : Nat]
ASSUME NeverAssumption == Never \notin Nat
ASSUME TimesAssumption ==
  /\ TTLAllow \in Nat /\ TTLFlag \in Nat \ {0} /\ TTLFlag < TTLAllow
  /\ Retention \in Nat /\ MaxTime \in Nat
ASSUME HistoryLimitAssumption == HistoryLimit \in Nat \ {0}

VARIABLES
  cache,       \* table scan_cache, one row per package at most
  history,     \* table scan_history
  dismissals,  \* scan ids in table dismissals
  exceptions,  \* table exceptions
  now,         \* the clock
  saved        \* auxiliary: every result SaveResult ever committed

storeVars == <<cache, history, dismissals, exceptions, now, saved>>

-----------------------------------------------------------------------------
(* A ScanResult; CachedAt, ClaudeUsed and DurationMs are display data.     *)
Result == [id : ScanIds, pkg : Packages, verdict : Verdict,
           findings : SUBSET Findings, scannedAt : Nat]

CacheRow == [result : Result, expiresAt : Nat]

Exception == [id : ExceptionIds, name : Names,
              version : Versions \cup {NoVersion}, expiresAt : Nat \cup {Never}]

StoreTypeOK ==
  /\ cache \in [Packages -> CacheRow \cup {NoRow}]
  /\ history \subseteq Result
  /\ IsFiniteSet(history)
  /\ dismissals \subseteq ScanIds
  /\ exceptions \subseteq Exception
  /\ now \in Nat
  /\ saved \subseteq Result

StoreInit ==
  /\ cache = [p \in Packages |-> NoRow]
  /\ history = {}
  /\ dismissals = {}
  /\ exceptions = {}
  /\ now = 0
  /\ saved = {}

-----------------------------------------------------------------------------
(* Reads.                                                                  *)

(* GetCachedResult: the WHERE clause expires_at > now, strictly.           *)
IsCached(p) == cache[p] # NoRow /\ cache[p].expiresAt > now

(* GetException: the exact version or the empty one, not expired.          *)
MatchingExceptions(p) ==
  {e \in exceptions : /\ e.name = p.name
                      /\ e.version \in {p.version, NoVersion}
                      /\ e.expiresAt = Never \/ e.expiresAt > now}

(* ListViolations, the rows without a dismissal.                           *)
OpenViolations ==
  {h \in history : h.verdict \in {"warn", "block"} /\ h.id \notin dismissals}

-----------------------------------------------------------------------------
(* Writes.                                                                 *)

TTL(verdict) == IF verdict \in {"warn", "block"} THEN TTLFlag ELSE TTLAllow

(* Mutant: the life of a row counted from the moment it is saved.          *)
Expiry_FromSave(r) == now + TTL(r.verdict)

Expiry(r) == r.scannedAt + TTL(r.verdict)

(* INSERT ... ON CONFLICT(scan_id) DO NOTHING.                             *)
HistoryWith(r) ==
  IF \E h \in history : h.id = r.id THEN history ELSE history \cup {r}

(* Mutant: ORDER BY scanned_at without DESC.                               *)
IsNewest_Ascending(kept, rows) ==
  /\ kept \subseteq rows
  /\ Cardinality(kept) <= HistoryLimit
  /\ kept # rows => Cardinality(kept) = HistoryLimit
  /\ \A k \in kept, d \in rows \ kept : d.scannedAt >= k.scannedAt

(* ORDER BY scanned_at DESC LIMIT HistoryLimit: which of equally old rows  *)
(* stay is up to the database.                                             *)
IsNewest(kept, rows) ==
  /\ kept \subseteq rows
  /\ Cardinality(kept) <= HistoryLimit
  /\ kept # rows => Cardinality(kept) = HistoryLimit
  /\ \A k \in kept, d \in rows \ kept : d.scannedAt <= k.scannedAt

(* Mutant: a cache key without the version.                                *)
SaveResult_NameKey(r) ==
  /\ cache' = [p \in Packages |->
       IF p.name = r.pkg.name
       THEN [result |-> r, expiresAt |-> Expiry(r)] ELSE cache[p]]
  /\ \E kept \in SUBSET HistoryWith(r) :
       /\ IsNewest(kept, HistoryWith(r))
       /\ history' = kept
  /\ saved' = saved \cup {r}
  /\ UNCHANGED <<dismissals, exceptions, now>>

(* One transaction: overwrite the cache row whatever it holds, insert the  *)
(* history row unless its id is there, keep the newest rows.               *)
SaveResult(r) ==
  /\ cache' = [cache EXCEPT ![r.pkg] = [result |-> r, expiresAt |-> Expiry(r)]]
  /\ \E kept \in SUBSET HistoryWith(r) :
       /\ IsNewest(kept, HistoryWith(r))
       /\ history' = kept
  /\ saved' = saved \cup {r}
  /\ UNCHANGED <<dismissals, exceptions, now>>

(* Rows older than the retention period.                                   *)
Aged(r) == r.scannedAt + Retention < now

(* Mutant: pruning a scan takes its dismissal along (ON DELETE CASCADE).   *)
PruneHistory_Cascade ==
  /\ history' = {h \in history : ~Aged(h)}
  /\ dismissals' = dismissals \ {h.id : h \in {g \in history : Aged(g)}}
  /\ UNCHANGED <<cache, exceptions, now, saved>>

PruneHistory ==
  /\ history' = {h \in history : ~Aged(h)}
  /\ UNCHANGED <<cache, dismissals, exceptions, now, saved>>

(* An upsert that does not ask whether the scan exists.                    *)
DismissResult(id) ==
  /\ dismissals' = dismissals \cup {id}
  /\ UNCHANGED <<cache, history, exceptions, now, saved>>

(* The id is a fresh UUID; handleAddException never sets an expiry.        *)
AddException(id, name, version) ==
  /\ \A e \in exceptions : e.id # id
  /\ exceptions' = exceptions \cup
       {[id |-> id, name |-> name, version |-> version, expiresAt |-> Never]}
  /\ UNCHANGED <<cache, history, dismissals, now, saved>>

DeleteException(id) ==
  /\ \E e \in exceptions : e.id = id
  /\ exceptions' = {e \in exceptions : e.id # id}
  /\ UNCHANGED <<cache, history, dismissals, now, saved>>

Tick ==
  /\ now < MaxTime
  /\ now' = now + 1
  /\ UNCHANGED <<cache, history, dismissals, exceptions, saved>>

-----------------------------------------------------------------------------
(* The store under reporting proxies and the dashboard.                    *)

(* A proxy reports a scan that some pipeline finished, possibly a while    *)
(* ago and possibly not for the first time; results with one scan id are   *)
(* the same scan.                                                          *)
Report ==
  \E id \in ScanIds, p \in Packages, fs \in SUBSET Findings, m \in Mode,
     t \in 0..now :
    LET r == [id |-> id, pkg |-> p, verdict |-> ComputeVerdict(m, fs),
              findings |-> fs, scannedAt |-> t]
    IN  /\ \A s \in saved : s.id = id => s = r
        /\ SaveResult(r)

Administer ==
  \/ \E id \in ExceptionIds, name \in Names, version \in Versions \cup {NoVersion} :
       AddException(id, name, version)
  \/ \E id \in ExceptionIds : DeleteException(id)

Triage == \E h \in OpenViolations : DismissResult(h.id)

StoreNext == Tick \/ PruneHistory \/ Administer \/ Triage \/ Report

StoreSpec == StoreInit /\ [][StoreNext]_storeVars

-----------------------------------------------------------------------------
(* Properties.                                                             *)

(* The history holds the newest scans ever saved: a saved scan is missing  *)
(* only when it outlived the retention period, or when the table is full   *)
(* of scans at least as new.  SaveResult prunes after every insert and     *)
(* PruneHistory prunes by age; late and repeated reports interleave with   *)
(* both (sql_store.go, SaveResult and PruneHistory).                       *)
HistoryKeepsNewest ==
  /\ Cardinality(history) <= HistoryLimit
  /\ \A r \in saved :
       \/ r \in history
       \/ Aged(r)
       \/ /\ Cardinality(history) = HistoryLimit
          /\ \A h \in history : r.scannedAt <= h.scannedAt

(* A cache row lives from the moment its package was scanned, not from     *)
(* the moment it was saved or reported again: a delayed or repeated save   *)
(* never extends the life of a verdict (SaveResult, expiresAt).            *)
CacheLifeFromScan ==
  \A p \in Packages : cache[p] # NoRow =>
    LET r == cache[p].result
    IN  /\ r \in saved /\ r.pkg = p
        /\ cache[p].expiresAt = r.scannedAt + TTL(r.verdict)

(* Once a scan is dismissed it never comes back as an open violation, not  *)
(* even when its history row is pruned and a late report inserts it again  *)
(* (DismissResult, ListViolations: dismissals are never pruned).           *)
DismissedStaysDismissed ==
  \A id \in ScanIds :
    [](id \in dismissals => [](\A h \in OpenViolations : h.id # id))
=============================================================================
