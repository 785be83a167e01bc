---------------------------- MODULE VerdictLoop ----------------------------
(***************************************************************************)
(* The loop of computeVerdict (internal/pipeline/pipeline.go), iteration by*)
(* iteration.  The loop returns from its middle and lets later findings    *)
(* overwrite the verdict of earlier ones; Verdicts, which the other modules*)
(* use, says that only the set of findings matters.                        *)
(***************************************************************************)
EXTENDS Naturals, Sequences, SequencesExt, Verdicts

(* Mutant: a medium finding lowers a warn that an earlier finding set.     *)
Iteration_Reset(mode, s, severity) ==
  CASE s.returned -> s
    [] ~s.returned /\ severity \in Grave /\ mode = "enforce" ->
         [verdict |-> "block", returned |-> TRUE]
    [] ~s.returned /\ severity \in Grave /\ mode # "enforce" ->
         [s EXCEPT !.verdict = "warn"]
    [] ~s.returned /\ severity = "medium" ->
         [s EXCEPT !.verdict = IF @ = "allow" THEN "warn" ELSE "allow"]
    [] OTHER -> s

Iteration(mode, s, severity) ==
  CASE s.returned -> s
    [] ~s.returned /\ severity \in Grave /\ mode = "enforce" ->
         [verdict |-> "block", returned |-> TRUE]
    [] ~s.returned /\ severity \in Grave /\ mode # "enforce" ->
         [s EXCEPT !.verdict = "warn"]
    [] ~s.returned /\ severity = "medium" /\ s.verdict = "allow" ->
         [s EXCEPT !.verdict = "warn"]
    [] OTHER -> s

LoopVerdict(mode, list) ==
  FoldLeft(LAMBDA s, severity : Iteration(mode, s, severity),
           [verdict |-> "allow", returned |-> FALSE], list).verdict
=============================================================================
