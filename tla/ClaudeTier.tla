----------------------------- MODULE ClaudeTier -----------------------------
(***************************************************************************)
(* Tier 4: what internal/analyzer/claude/claude.go sends to the model and  *)
(* what it makes of the answer.  A file is abstracted to its scripts (the  *)
(* command of each lifecycle hook of a package.json, or the text of a      *)
(* setup.py) and to being a short source file with suspicious content; an  *)
(* archive is the files its reader returns, the first 50.                  *)
(***************************************************************************)
EXTENDS Naturals, Sequences, SequencesExt, Verdicts

CONSTANT MaxSnippets   \* 5 in the code

Nothing == [scripts |-> <<>>, snippets |-> 0]

(* The commands of a later file overwrite those of the same hooks.          *)
Overwritten(scripts, by) ==
  [h \in DOMAIN scripts \cup DOMAIN by |-> IF h \in DOMAIN by THEN by[h] ELSE scripts[h]]

(* Mutant: the break of the loop in front of the scripts.                  *)
ReadFile_ScriptsLast(acc, f) ==
  IF acc.snippets >= MaxSnippets \/ f.suspicious
  THEN [acc EXCEPT !.snippets = IF @ < MaxSnippets THEN @ + 1 ELSE @]
  ELSE [acc EXCEPT !.scripts = Overwritten(@, f.scripts)]

(* One iteration; after the break of the fifth snippet nothing is read.    *)
ReadFile(acc, f) ==
  IF acc.snippets >= MaxSnippets THEN acc
  ELSE [scripts  |-> Overwritten(acc.scripts, f.scripts),
        snippets |-> acc.snippets + (IF f.suspicious THEN 1 ELSE 0)]

ExtractForAnalysis(files) == FoldLeft(ReadFile, Nothing, files)

(* Analyze answers ErrNoContent.                                           *)
HasNoContent(files) ==
  LET shown == ExtractForAnalysis(files)
  IN  DOMAIN shown.scripts = {} /\ shown.snippets = 0

ParseSeverity(s) == IF s \in Severity THEN s ELSE "info"

(* Findings as they come; none, but a verdict other than allow with a      *)
(* reasoning: one is made up.                                              *)
ParseClaudeResponse(answer) ==
  IF answer.findings = {} /\ answer.verdict # "allow" /\ answer.reasoned
  THEN {IF answer.verdict = "block" THEN "high" ELSE "medium"}
  ELSE {ParseSeverity(s) : s \in answer.findings}
=============================================================================
