----------------------------- MODULE Lockfiles -----------------------------
(***************************************************************************)
(* The lock file parsers (internal/lockfile).  A line is abstracted to     *)
(* what the parser's tests on it distinguish; names and versions are       *)
(* sequences of letters.                                                   *)
(***************************************************************************)
EXTENDS Naturals, Sequences, FiniteSets, SequencesExt, Text

-----------------------------------------------------------------------------
(* The names of PyPI: lower case, and a dash for an underscore; in         *)
(* requirements.txt for a dot, too.                                        *)
NormalizePoetry(name) == Dashed(name, {"_"})

(* Mutant: underscores alone.                                              *)
NormalizePyPI_Underscore(name) == Dashed(name, {"_"})

NormalizePyPI(name) == Dashed(name, {"_", "."})

-----------------------------------------------------------------------------
(* poetry.lock: a line opens a package ("package"), opens any other array  *)
(* of tables or the metadata ("other"), or reads key = value; the header   *)
(* of a sub-table such as [package.dependencies.x] is skipped like any     *)
(* line without "=", so the keys below it are read as the package's own.   *)
PoetryStart ==
  [inPackage |-> FALSE, name |-> NoText, version |-> NoText, isDev |-> FALSE,
   refs |-> <<>>]

(* Mutant: isDev is not reset.                                             *)
Flush_KeepsDev(s) ==
  [s EXCEPT !.name = NoText, !.version = NoText,
            !.refs = IF s.inPackage /\ NoText \notin {s.name, s.version} /\ ~s.isDev
                     THEN Append(@, [name |-> NormalizePoetry(s.name), version |-> s.version])
                     ELSE @]

Flush(s) ==
  [s EXCEPT !.name = NoText, !.version = NoText, !.isDev = FALSE,
            !.refs = IF s.inPackage /\ NoText \notin {s.name, s.version} /\ ~s.isDev
                     THEN Append(@, [name |-> NormalizePoetry(s.name), version |-> s.version])
                     ELSE @]

PoetryLine(s, line) ==
  CASE line.is = "package" -> [Flush(s) EXCEPT !.inPackage = TRUE]
    [] line.is = "other" -> [Flush(s) EXCEPT !.inPackage = FALSE]
    [] line.is = "name" /\ s.inPackage -> [s EXCEPT !.name = line.value]
    [] line.is = "version" /\ s.inPackage -> [s EXCEPT !.version = line.value]
    [] line.is = "dev" /\ s.inPackage -> [s EXCEPT !.isDev = TRUE]
    [] OTHER -> s

ParsePoetry(lines) == Flush(FoldLeft(PoetryLine, PoetryStart, lines)).refs

-----------------------------------------------------------------------------
(* yarn.lock: a header names a package, a version line ends its block.     *)

(* Mutant: the name outlives its block's version.                          *)
YarnLine_KeepsName(s, line) ==
  LET ref == [name |-> s.name, version |-> line.value]
  IN  CASE line.is = "header" -> [s EXCEPT !.name = line.value]
        [] line.is = "version" /\ s.name # NoText ->
             [s EXCEPT !.refs = IF Contains(@, ref) THEN @ ELSE Append(@, ref)]
        [] OTHER -> s

(* Pairs seen before are skipped.  The code looks for name@version; since  *)
(* no version has an @, this tells the same pairs apart.                   *)
YarnLine(s, line) ==
  LET ref == [name |-> s.name, version |-> line.value]
  IN  CASE line.is = "header" -> [s EXCEPT !.name = line.value]
        [] line.is = "version" /\ s.name # NoText ->
             [name |-> NoText,
              refs |-> IF line.value = NoText \/ Contains(s.refs, ref)
                       THEN s.refs ELSE Append(s.refs, ref)]
        [] OTHER -> s

ParseYarn(lines) == FoldLeft(YarnLine, [name |-> NoText, refs |-> <<>>], lines).refs

-----------------------------------------------------------------------------
(* package-lock.json: the entries come in no order, and one whose name and *)
(* version, written together, were seen before is skipped.  A path is a    *)
(* sequence of letters, with NodeModules for "node_modules/", and a version*)
(* is one too.  Version 1 of the format writes bare names, and neither     *)
(* peer nor optional.                                                      *)
NodeModules == "node_modules/"

(* TrimPrefix: the first node_modules/ only, so that a nested package      *)
(* keeps the path of its parent in its name.                               *)
NameOf(path) == IF path # <<>> /\ path[1] = NodeModules THEN Tail(path) ELSE path

(* Mutant: seen by name alone.                                             *)
SeenKey_Name(e) == NameOf(e.path)

SeenKey(e) == NameOf(e.path) \o e.version

Wanted(entries) ==
  {e \in entries : e.path # <<>> /\ e.version # <<>>
                   /\ ~e.dev /\ ~e.peer /\ ~e.optional}

(* Everything Parse may return: one of the entries for every key.          *)
ParseNPM(entries) ==
  LET wanted == Wanted(entries)
      keys   == {SeenKey(e) : e \in wanted}
  IN  {{[name |-> NameOf(pick[k].path), version |-> pick[k].version] : k \in keys} :
         pick \in {f \in [keys -> wanted] : \A k \in keys : SeenKey(f[k]) = k}}

-----------------------------------------------------------------------------
(* requirements.txt: pinned lines only.                                    *)
ParseRequirements(lines) ==
  FoldLeft(LAMBDA refs, line :
             IF line.is = "pinned"
             THEN Append(refs, [name |-> NormalizePyPI(line.name), version |-> line.version])
             ELSE refs,
           <<>>, lines)
=============================================================================
