-------------------------- MODULE ScanStoreProofs --------------------------
(***************************************************************************)
(* What the store guarantees for every value of its constants.  The        *)
(* lemmas about single writes are stated without StoreNext, so that the    *)
(* modules that call SaveResult and the rest can cite them.                *)
(***************************************************************************)
EXTENDS ScanStore, FiniteSetTheorems, TLAPS

(* The inductive invariant.  HistoryKeepsNewest alone is not inductive: a  *)
(* repeated save must find the very scan it repeats under its id.          *)
StoreInv ==
  /\ StoreTypeOK
  /\ history \subseteq saved
  /\ HistoryKeepsNewest
  /\ CacheLifeFromScan

-----------------------------------------------------------------------------
(* ComputeVerdict and Expiry stay within their types.                      *)
LEMMA VerdictType == \A m, fs : ComputeVerdict(m, fs) \in Verdict
BY DEF ComputeVerdict, Verdict

(* A cache row expires at a natural time.                                  *)
LEMMA ExpiryType == ASSUME NEW r \in Result PROVE Expiry(r) \in Nat
<1>1. TTL(r.verdict) \in Nat
  BY TimesAssumption DEF TTL
<1>2. r.scannedAt \in Nat
  BY DEF Result
<1> QED BY <1>1, <1>2 DEF Expiry

(* Saving a well-typed result keeps the store well typed.                  *)
LEMMA SaveResultType ==
  ASSUME StoreTypeOK, NEW r \in Result, SaveResult(r)
  PROVE  StoreTypeOK'
<1>1. cache' \in [Packages -> CacheRow \cup {NoRow}]
  <2>1. [result |-> r, expiresAt |-> Expiry(r)] \in CacheRow
    BY ExpiryType DEF CacheRow
  <2>2. cache \in [Packages -> CacheRow \cup {NoRow}]
    BY DEF StoreTypeOK
  <2> QED BY <2>1, <2>2 DEF SaveResult
<1>2. history' \subseteq Result /\ IsFiniteSet(history')
  <2>1. HistoryWith(r) \subseteq Result /\ IsFiniteSet(HistoryWith(r))
    BY FS_AddElement DEF HistoryWith, StoreTypeOK
  <2>2. history' \subseteq HistoryWith(r)
    BY DEF SaveResult
  <2> QED BY <2>1, <2>2, FS_Subset
<1>3. UNCHANGED <<dismissals, exceptions, now>> /\ saved' = saved \cup {r}
  BY DEF SaveResult
<1> QED BY <1>1, <1>2, <1>3 DEF StoreTypeOK

(* The other writes keep the store well typed.                             *)
LEMMA PruneHistoryType == StoreTypeOK /\ PruneHistory => StoreTypeOK'
<1> SUFFICES ASSUME StoreTypeOK, PruneHistory PROVE StoreTypeOK'
  OBVIOUS
<1>1. history' \subseteq history
  BY DEF PruneHistory
<1>2. history' \subseteq Result /\ IsFiniteSet(history')
  BY <1>1, FS_Subset DEF StoreTypeOK
<1> QED BY <1>2 DEF StoreTypeOK, PruneHistory

(* Changes of the exception list keep the store well typed.                *)
LEMMA AdministerType == StoreTypeOK /\ Administer => StoreTypeOK'
<1> SUFFICES ASSUME StoreTypeOK, Administer PROVE StoreTypeOK'
  OBVIOUS
<1>1. ASSUME NEW id \in ExceptionIds, NEW name \in Names,
             NEW version \in Versions \cup {NoVersion},
             AddException(id, name, version)
      PROVE  StoreTypeOK'
  <2>1. [id |-> id, name |-> name, version |-> version, expiresAt |-> Never]
          \in Exception
    BY DEF Exception
  <2> QED BY <1>1, <2>1 DEF AddException, StoreTypeOK
<1>2. ASSUME NEW id \in ExceptionIds, DeleteException(id)
      PROVE  StoreTypeOK'
  BY <1>2 DEF DeleteException, StoreTypeOK
<1> QED BY <1>1, <1>2 DEF Administer

(* So does the clock.                                                      *)
LEMMA TickType == StoreTypeOK /\ Tick => StoreTypeOK'
BY DEF StoreTypeOK, Tick

-----------------------------------------------------------------------------
(* Saving a result keeps HistoryKeepsNewest: whatever the database drops,  *)
(* it drops from a full table of scans at least as new.                    *)
LEMMA SaveResultKeepsNewest ==
  ASSUME StoreTypeOK, HistoryKeepsNewest, NEW r \in Result,
         r \in HistoryWith(r), SaveResult(r)
  PROVE  HistoryKeepsNewest'
<1> DEFINE Rows == HistoryWith(r)
<1>1. IsNewest(history', Rows) /\ saved' = saved \cup {r} /\ now' = now
  BY DEF SaveResult
<1>2. /\ history' \subseteq Rows
      /\ Cardinality(history') <= HistoryLimit
      /\ history' # Rows => Cardinality(history') = HistoryLimit
      /\ \A k \in history', d \in Rows \ history' : d.scannedAt <= k.scannedAt
  BY <1>1 DEF IsNewest
<1>3. /\ history \subseteq Rows /\ Rows \subseteq history \cup {r}
      /\ Rows \subseteq Result
  BY DEF HistoryWith, StoreTypeOK
<1>4. ASSUME NEW s \in Rows
      PROVE  \/ s \in history'
             \/ /\ Cardinality(history') = HistoryLimit
                /\ \A h \in history' : s.scannedAt <= h.scannedAt
  BY <1>2
<1>5. ASSUME NEW s \in saved, s \notin history, ~Aged(s)
      PROVE  \/ s \in history'
             \/ /\ Cardinality(history') = HistoryLimit
                /\ \A h \in history' : s.scannedAt <= h.scannedAt
  <2>1. /\ Cardinality(history) = HistoryLimit
        /\ \A h \in history : s.scannedAt <= h.scannedAt
    BY <1>5 DEF HistoryKeepsNewest
  <2>2. CASE s = r
    BY <2>2, <1>4
  <2>3. CASE Rows = history
    <3>1. Cardinality(history') = HistoryLimit
      BY <1>2, <2>1, <2>3
    <3> QED BY <3>1, <2>1, <2>3, <1>2
  <2>4. CASE Rows # history
    <3>1. Rows = history \cup {r} /\ r \notin history
      BY <2>4, <1>3
    <3>2. Cardinality(Rows) = HistoryLimit + 1
      BY <3>1, <2>1, FS_AddElement DEF StoreTypeOK
    <3>3. history' # Rows
      BY <3>2, <1>2, HistoryLimitAssumption
    <3>4. Cardinality(history') = HistoryLimit
      BY <3>3, <1>2
    <3>5. ASSUME NEW h \in history' PROVE s.scannedAt <= h.scannedAt
      <4>1. CASE h \in history
        BY <4>1, <2>1
      <4>2. CASE h \notin history
        <5>1. h = r
          BY <4>2, <3>1, <1>2
        <5>2. PICK d \in Rows : d \notin history'
          BY <3>3, <1>2
        <5>3. d \in history
          BY <5>1, <5>2, <3>1
        <5>4. s.scannedAt <= d.scannedAt /\ d.scannedAt <= h.scannedAt
          BY <5>2, <5>3, <2>1, <1>2
        <5>5. s.scannedAt \in Nat /\ d.scannedAt \in Nat /\ h.scannedAt \in Nat
          BY <5>1, <5>3 DEF StoreTypeOK, Result
        <5> QED BY <5>4, <5>5
      <4> QED BY <4>1, <4>2
    <3> QED BY <3>4, <3>5
  <2> QED BY <2>2, <2>3, <2>4
<1>6. ASSUME NEW s \in saved'
      PROVE  \/ s \in history'
             \/ Aged(s)
             \/ /\ Cardinality(history') = HistoryLimit
                /\ \A h \in history' : s.scannedAt <= h.scannedAt
  <2>1. CASE s \in Rows
    BY <2>1, <1>4
  <2>2. CASE s \notin Rows
    BY <2>2, <1>1, <1>3, <1>5
  <2> QED BY <2>1, <2>2
<1>7. \A s : Aged(s)' <=> Aged(s)
  BY <1>1 DEF Aged
<1> QED BY <1>2, <1>6, <1>7 DEF HistoryKeepsNewest, Aged

(* Pruning by age keeps HistoryKeepsNewest: a scan that was missing from a *)
(* full table has outlived the retention period if any row it kept has.    *)
LEMMA PruneHistoryKeepsNewest ==
  ASSUME StoreTypeOK, HistoryKeepsNewest, PruneHistory
  PROVE  HistoryKeepsNewest'
<1>1. /\ history' = {h \in history : ~Aged(h)}
      /\ saved' = saved /\ now' = now
  BY DEF PruneHistory
<1>2. Cardinality(history') <= HistoryLimit
  <2>1. /\ IsFiniteSet(history) /\ history' \subseteq history
        /\ Cardinality(history) <= HistoryLimit
    BY <1>1 DEF StoreTypeOK, HistoryKeepsNewest
  <2>2. /\ Cardinality(history') <= Cardinality(history)
        /\ Cardinality(history') \in Nat /\ Cardinality(history) \in Nat
    BY <2>1, FS_Subset, FS_CardinalityType
  <2> QED BY <2>1, <2>2, HistoryLimitAssumption
<1>3. ASSUME NEW s \in saved
      PROVE  \/ s \in history'
             \/ Aged(s)
             \/ /\ Cardinality(history') = HistoryLimit
                /\ \A h \in history' : s.scannedAt <= h.scannedAt
  <2>1. CASE s \in history
    BY <2>1, <1>1
  <2>2. CASE /\ Cardinality(history) = HistoryLimit
             /\ \A h \in history : s.scannedAt <= h.scannedAt
    <3>1. CASE history' = history
      BY <3>1, <2>2
    <3>2. CASE history' # history
      <4>1. PICK h \in history : Aged(h)
        BY <3>2, <1>1
      <4>2. s.scannedAt <= h.scannedAt
        BY <4>1, <2>2
      <4>3. s.scannedAt \in Nat /\ h.scannedAt \in Nat /\ now \in Nat
        BY <4>1 DEF StoreTypeOK, Result
      <4> QED BY <4>1, <4>2, <4>3, TimesAssumption DEF Aged
    <3> QED BY <3>1, <3>2
  <2> QED BY <2>1, <2>2 DEF HistoryKeepsNewest
<1> QED BY <1>1, <1>2, <1>3 DEF HistoryKeepsNewest, Aged

(* The clock only ages scans: what was excused stays excused.              *)
LEMMA TickKeepsNewest ==
  ASSUME StoreTypeOK, HistoryKeepsNewest, Tick
  PROVE  HistoryKeepsNewest'
<1>1. ASSUME NEW s \in saved, Aged(s) PROVE Aged(s)'
  <2>1. s.scannedAt \in Nat /\ now \in Nat
    BY DEF StoreTypeOK, Result
  <2> QED BY <1>1, <2>1, TimesAssumption DEF Aged, Tick
<1>2. history' = history /\ saved' = saved
  BY DEF Tick
<1> QED BY <1>1, <1>2 DEF HistoryKeepsNewest

-----------------------------------------------------------------------------
(* Saving a result keeps the rest of the invariant.                        *)
LEMMA SaveResultKeepsCacheLife ==
  ASSUME StoreTypeOK, CacheLifeFromScan, NEW r \in Result, SaveResult(r)
  PROVE  CacheLifeFromScan'
<1>1. ASSUME NEW p \in Packages, cache'[p] # NoRow
      PROVE  LET q == cache'[p].result
             IN  /\ q \in saved' /\ q.pkg = p
                 /\ cache'[p].expiresAt = q.scannedAt + TTL(q.verdict)
  <2>1. CASE p = r.pkg
    <3>1. cache'[p] = [result |-> r, expiresAt |-> Expiry(r)]
      BY <2>1 DEF SaveResult, StoreTypeOK
    <3> QED BY <3>1, <2>1 DEF SaveResult, Expiry
  <2>2. CASE p # r.pkg
    <3>1. cache'[p] = cache[p]
      BY <2>2 DEF SaveResult, StoreTypeOK
    <3> QED BY <3>1, <1>1 DEF SaveResult, CacheLifeFromScan
  <2> QED BY <2>1, <2>2
<1> QED BY <1>1 DEF CacheLifeFromScan, TTL

(* SaveResult puts nothing into the history that it does not record.       *)
LEMMA SaveResultKeepsHistorySaved ==
  ASSUME history \subseteq saved, NEW r, SaveResult(r)
  PROVE  history' \subseteq saved'
BY DEF SaveResult, HistoryWith

(* Saving a result keeps the invariant of the store.                       *)
LEMMA SaveResultKeepsInv ==
  ASSUME StoreInv, NEW r \in Result, r \in HistoryWith(r), SaveResult(r)
  PROVE  StoreInv'
BY SaveResultType, SaveResultKeepsNewest, SaveResultKeepsCacheLife,
   SaveResultKeepsHistorySaved DEF StoreInv

(* So do the writes that save nothing.                                     *)
LEMMA AdministerKeepsInv == StoreInv /\ Administer => StoreInv'
<1> SUFFICES ASSUME StoreInv, Administer PROVE StoreInv'
  OBVIOUS
<1>1. UNCHANGED <<cache, history, saved, now>>
  BY DEF Administer, AddException, DeleteException
<1> QED BY <1>1, AdministerType
  DEF StoreInv, HistoryKeepsNewest, CacheLifeFromScan, Aged, TTL

(* Pruning by age keeps the invariant of the store.                        *)
LEMMA PruneHistoryKeepsInv == StoreInv /\ PruneHistory => StoreInv'
<1> SUFFICES ASSUME StoreInv, PruneHistory PROVE StoreInv'
  OBVIOUS
<1>1. CacheLifeFromScan'
  BY DEF StoreInv, CacheLifeFromScan, PruneHistory, TTL
<1>2. history' \subseteq saved'
  BY DEF StoreInv, PruneHistory
<1> QED BY <1>1, <1>2, PruneHistoryType, PruneHistoryKeepsNewest DEF StoreInv

(* The clock keeps the invariant of the store.                             *)
LEMMA TickKeepsInv == StoreInv /\ Tick => StoreInv'
<1> SUFFICES ASSUME StoreInv, Tick PROVE StoreInv'
  OBVIOUS
<1>1. CacheLifeFromScan'
  BY DEF StoreInv, CacheLifeFromScan, Tick, TTL
<1>2. history' \subseteq saved'
  BY DEF StoreInv, Tick
<1> QED BY <1>1, <1>2, TickType, TickKeepsNewest DEF StoreInv

(* The empty store satisfies the invariant.                                *)
LEMMA StoreInvInit == StoreInit => StoreInv
<1> SUFFICES ASSUME StoreInit PROVE StoreInv
  OBVIOUS
<1>1. StoreTypeOK
  BY FS_EmptySet DEF StoreInit, StoreTypeOK
<1>2. HistoryKeepsNewest
  BY FS_EmptySet, HistoryLimitAssumption DEF StoreInit, HistoryKeepsNewest
<1>3. CacheLifeFromScan
  BY DEF StoreInit, CacheLifeFromScan
<1> QED BY <1>1, <1>2, <1>3 DEF StoreInv, StoreInit

-----------------------------------------------------------------------------
(* The store under reporting proxies.                                      *)

(* Every step of the store keeps its invariant: one step per action.       *)
LEMMA StoreInvStep == StoreInv /\ [StoreNext]_storeVars => StoreInv'
<1> SUFFICES ASSUME StoreInv, [StoreNext]_storeVars PROVE StoreInv'
  OBVIOUS
<1>1. CASE Report
  <2>1. PICK r \in Result : (\A s \in saved : s.id = r.id => s = r) /\ SaveResult(r)
    <3>1. PICK id \in ScanIds, p \in Packages, fs \in SUBSET Findings,
               m \in Mode, t \in 0..now :
            LET r == [id |-> id, pkg |-> p, verdict |-> ComputeVerdict(m, fs),
                      findings |-> fs, scannedAt |-> t]
            IN  (\A s \in saved : s.id = id => s = r) /\ SaveResult(r)
      BY <1>1 DEF Report
    <3>2. [id |-> id, pkg |-> p, verdict |-> ComputeVerdict(m, fs),
           findings |-> fs, scannedAt |-> t] \in Result
      <4>1. t \in Nat
        BY DEF StoreInv, StoreTypeOK
      <4> QED BY <4>1, VerdictType DEF Result
    <3> QED BY <3>1, <3>2
  <2>2. r \in HistoryWith(r)
    BY <2>1 DEF HistoryWith, StoreInv
  <2> QED BY <2>1, <2>2, SaveResultKeepsInv
<1>2. CASE Triage
  BY <1>2 DEF Triage, DismissResult, OpenViolations, StoreInv, StoreTypeOK, Result,
    HistoryKeepsNewest, CacheLifeFromScan, Aged, TTL
<1>3. CASE UNCHANGED storeVars
  BY <1>3 DEF storeVars, StoreInv, StoreTypeOK, HistoryKeepsNewest,
    CacheLifeFromScan, Aged, TTL
<1> QED BY <1>1, <1>2, <1>3, AdministerKeepsInv, PruneHistoryKeepsInv, TickKeepsInv
  DEF StoreNext

(* The invariant of the store, and with it the three properties the run    *)
(* of the store checks.                                                    *)
THEOREM StoreInvariant == StoreSpec => []StoreInv
BY StoreInvInit, StoreInvStep, PTL DEF StoreSpec

(* The tables stay well typed.                                             *)
THEOREM StoreTypeCorrect == StoreSpec => []StoreTypeOK
BY StoreInvariant, PTL DEF StoreInv

(* The history holds the newest scans, whatever is reported late or twice  *)
(* and whenever the pruner runs.                                           *)
THEOREM HistoryIsNewest == StoreSpec => []HistoryKeepsNewest
BY StoreInvariant, PTL DEF StoreInv

(* No delayed or repeated report extends the life of a cached verdict.     *)
THEOREM CacheLife == StoreSpec => []CacheLifeFromScan
BY StoreInvariant, PTL DEF StoreInv

(* A dismissed scan never becomes an open violation again.                 *)
THEOREM DismissalsHold == StoreSpec => DismissedStaysDismissed
<1> SUFFICES ASSUME NEW id \in ScanIds
             PROVE  StoreSpec =>
                      [](id \in dismissals => [](\A h \in OpenViolations : h.id # id))
  BY DEF DismissedStaysDismissed
<1>1. id \in dismissals => \A h \in OpenViolations : h.id # id
  BY DEF OpenViolations
<1>2. id \in dismissals /\ [StoreNext]_storeVars => (id \in dismissals)'
  <2> SUFFICES ASSUME id \in dismissals, [StoreNext]_storeVars
               PROVE  id \in dismissals'
    OBVIOUS
  <2>1. CASE Report
    <3>1. ASSUME NEW r, SaveResult(r) PROVE dismissals' = dismissals
      BY <3>1 DEF SaveResult
    <3>2. dismissals' = dismissals
      BY <2>1, <3>1 DEF Report
    <3> QED BY <3>2
  <2>2. CASE Administer
    BY <2>2 DEF Administer, AddException, DeleteException
  <2>3. CASE Triage
    BY <2>3 DEF Triage, DismissResult
  <2>4. CASE PruneHistory \/ Tick \/ UNCHANGED storeVars
    BY <2>4 DEF PruneHistory, Tick, storeVars
  <2> QED BY <2>1, <2>2, <2>3, <2>4 DEF StoreNext
<1> QED BY <1>1, <1>2, PTL DEF StoreSpec
=============================================================================
