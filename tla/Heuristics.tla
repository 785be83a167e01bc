----------------------------- MODULE Heuristics -----------------------------
(***************************************************************************)
(* Tier 3: the extraction of an archive and the scoring loop of            *)
(* analyzeFiles (internal/analyzer/heuristic/heuristic.go).  A file is     *)
(* abstracted to its kind, the lifecycle hooks of a package.json with the  *)
(* patterns their commands match, the patterns its content matches, and    *)
(* whether its name is that of a README or of a compiled binary.           *)
(***************************************************************************)
EXTENDS Naturals, Sequences, FiniteSetsExt, SequencesExt, Verdicts

CONSTANT MaxArchiveFiles   \* 200 in the code

Hook == {"preinstall", "install", "postinstall"}
ScriptPattern == {"network", "remote", "child"}

Weight ==
  [network |-> 40, remote |-> 25, child |-> 20, manyHooks |-> 15,
   base64 |-> 35, obfuscation |-> 30, envExfil |-> 35, functionCtor |-> 30,
   charCode |-> 25, jsObfuscator |-> 25, webhook |-> 40, staging |-> 20,
   binary |-> 15, noReadme |-> 5]

SeverityOf ==
  [network |-> "high", remote |-> "critical", child |-> "medium",
   manyHooks |-> "medium", base64 |-> "high", obfuscation |-> "high",
   envExfil |-> "medium", functionCtor |-> "high", charCode |-> "high",
   jsObfuscator |-> "medium", webhook |-> "critical", staging |-> "high",
   binary |-> "medium", noReadme |-> "info"]

SourcePattern ==
  {"base64", "obfuscation", "envExfil", "functionCtor", "charCode",
   "jsObfuscator", "webhook", "staging"}

Total(patterns) == MapThenSumSet(LAMBDA p : Weight[p], patterns)

(* addFinding, for every pattern of a set.                                 *)
AddFindings(res, patterns) ==
  [res EXCEPT !.score = @ + Total(patterns),
              !.findings = @ \cup {SeverityOf[p] : p \in patterns}]

(* Mutant: three hooks are many, four are not.                             *)
AddScripts_Exactly(res, f) ==
  LET scored == FoldSet(LAMBDA h, r : AddFindings(r, f.hooks[h]), res, DOMAIN f.hooks)
      count  == res.count + Cardinality(DOMAIN f.hooks)
  IN  [AddFindings(scored, IF count = 3 THEN {"manyHooks"} ELSE {})
         EXCEPT !.count = count]

(* Hook by hook, then the count of hooks so far, over all package.json     *)
(* files of the archive.                                                   *)
AddScripts(res, f) ==
  LET scored == FoldSet(LAMBDA h, r : AddFindings(r, f.hooks[h]), res, DOMAIN f.hooks)
      count  == res.count + Cardinality(DOMAIN f.hooks)
  IN  [AddFindings(scored, IF count > 2 THEN {"manyHooks"} ELSE {})
         EXCEPT !.count = count]

FileFindings(f) ==
  f.matches \cap (SourcePattern \cup
                    (IF f.kind = "install" THEN {"network", "remote"} ELSE {}))

AnalyzeFile(res, f) ==
  AddFindings(IF f.kind = "package.json" THEN AddScripts(res, f) ELSE res,
              FileFindings(f))

AnalyzeFiles(files, hasReadme, hasBinary) ==
  LET read  == FoldLeft(AnalyzeFile, [score |-> 0, findings |-> {}, count |-> 0], files)
      built == AddFindings(read, IF hasBinary THEN {"binary"} ELSE {})
      whole == AddFindings(built, IF ~hasReadme /\ files # <<>> THEN {"noReadme"} ELSE {})
  IN  [whole EXCEPT !.score = Min({@, 100})]

(* One entry of the archive: after the break of the last file that fits    *)
(* nothing is read.                                                        *)
Keep(kept, f) ==
  IF f.kind = "other" \/ Len(kept) >= MaxArchiveFiles THEN kept ELSE Append(kept, f)

(* extract: the first files of the archive that are neither tests nor      *)
(* documents nor too large.                                                *)
Extracted(files) == FoldLeft(Keep, <<>>, files)

(* All entries of the archive are looked through for a README and for a    *)
(* binary, those too that are not read.                                    *)
HasReadme(files) == \E i \in DOMAIN files : files[i].readme
HasBinary(files) == \E i \in DOMAIN files : files[i].binary

(* AnalyzeFull: an archive that does not unpack has neither findings nor a *)
(* score, and is no error.                                                 *)
AnalyzeFull(archive) ==
  IF archive.unpacks
  THEN AnalyzeFiles(Extracted(archive.files),
                    HasReadme(archive.files), HasBinary(archive.files))
  ELSE [score |-> 0, findings |-> {}, count |-> 0]
=============================================================================
