-------------------------------- MODULE OSV --------------------------------
(***************************************************************************)
(* Tier 2: what internal/analyzer/cve/osv.go makes of an answer of OSV.dev.*)
(* Scores are counted in tenths.  A score that is a vector string, or not  *)
(* in range, is 0: parseCVSS skips both.                                   *)
(***************************************************************************)
EXTENDS Naturals, Sequences, FiniteSetsExt, Verdicts

CONSTANT BlockCVSSThreshold   \* 70 by default

(* A vulnerability: its scores in order, with their types, and the word of *)
(* the database.                                                           *)
ScoreType == {"CVSS_V2", "CVSS_V3", "CVSS_V4"}
NoWord == ""
DatabaseSeverity == {"CRITICAL", "HIGH", "MODERATE", "MEDIUM", "LOW", NoWord}

(* The first usable score.                                                 *)
ParseCVSS(v) ==
  LET usable == {i \in DOMAIN v.scores :
                   v.scores[i].type # "CVSS_V4" /\ v.scores[i].score > 0}
  IN  IF usable = {} THEN 0 ELSE v.scores[Min(usable)].score

CvssFromSeverity(db) ==
  CASE db = "CRITICAL" -> 95
    [] db = "HIGH" -> 80
    [] db \in {"MODERATE", "MEDIUM"} -> 50
    [] db = "LOW" -> 20
    [] OTHER -> 0

Cvss(v) == IF ParseCVSS(v) = 0 THEN CvssFromSeverity(v.db) ELSE ParseCVSS(v)

(* Mutant: "high" from eight on.                                           *)
MapSeverity_Eight(db, cvss) ==
  CASE db = "CRITICAL" -> "critical"
    [] db = "HIGH" -> "high"
    [] db \in {"MODERATE", "MEDIUM"} -> "medium"
    [] db = "LOW" -> "low"
    [] OTHER -> IF cvss >= 90 THEN "critical" ELSE IF cvss >= 80 THEN "high"
                ELSE IF cvss >= 40 THEN "medium"
                ELSE IF cvss > 0 THEN "low" ELSE "info"

(* The database's word first, the bands of the score otherwise.            *)
MapSeverity(db, cvss) ==
  CASE db = "CRITICAL" -> "critical"
    [] db = "HIGH" -> "high"
    [] db \in {"MODERATE", "MEDIUM"} -> "medium"
    [] db = "LOW" -> "low"
    [] OTHER -> IF cvss >= 90 THEN "critical" ELSE IF cvss >= 70 THEN "high"
                ELSE IF cvss >= 40 THEN "medium"
                ELSE IF cvss > 0 THEN "low" ELSE "info"

(* Analyze: every vulnerability is a finding with a CVE id.                *)
OSVAnalyze(vulns) ==
  {[severity |-> MapSeverity(v.db, Cvss(v)),
    highCVSS |-> Cvss(v) >= BlockCVSSThreshold] : v \in vulns}
=============================================================================
