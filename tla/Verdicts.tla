------------------------------ MODULE Verdicts ------------------------------
(***************************************************************************)
(* The vocabulary of internal/types.go and the verdict computation of      *)
(* internal/pipeline/pipeline.go.                                          *)
(*                                                                         *)
(* A finding is abstracted to what the pipeline tells apart: its severity, *)
(* and whether it is a CVE whose CVSS score reaches BlockCVSSThreshold     *)
(* (f.CVE /= "" and f.CVSS >= threshold), the field highCVSS.  A list of   *)
(* findings is a set: neither the verdict nor the triggers of the Claude   *)
(* tier depend on the order or on repetitions (VerdictLoop checks this     *)
(* against the loop of the source).                                        *)
(***************************************************************************)

Severity == {"critical", "high", "medium", "low", "info"}
Verdict  == {"allow", "warn", "block"}
Mode     == {"enforce", "warn", "audit"}
Finding  == [severity : Severity, highCVSS : BOOLEAN]

Grave == {"critical", "high"}

HasCriticalOrBlock(findings) == \E f \in findings : f.severity \in Grave

HasHighCVSS(findings) == \E f \in findings : f.highCVSS

(* Any grave finding blocks in enforce mode and only warns in the others;  *)
(* a medium finding lifts allow to warn; low and info change nothing.      *)
ComputeVerdict(mode, findings) ==
  IF HasCriticalOrBlock(findings)
  THEN IF mode = "enforce" THEN "block" ELSE "warn"
  ELSE IF \E f \in findings : f.severity = "medium" THEN "warn" ELSE "allow"
=============================================================================
