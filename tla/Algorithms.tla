---------------------------- MODULE Algorithms ----------------------------
(***************************************************************************)
(* The pure algorithms, each run on every input of a bounded set and held  *)
(* against a definition of what it is for.  A behaviour picks a task and   *)
(* an input, and runs it once.                                             *)
(***************************************************************************)
EXTENDS KnownBad, OSV, Heuristics, ClaudeTier, Lockfiles, VerdictLoop, Registry

CONSTANTS
  Letters,          \* of package names
  MaxWord,          \* longest name
  Versions,
  Entries,          \* entries of a known-bad list
  Scores,           \* of vulnerabilities, in tenths
  MaxFiles,         \* in each half of an archive
  ArchiveFiles,     \* files the heuristics see
  ClaudeFiles,      \* files the Claude tier sees
  PoetryLines, YarnLines, MaxLines,
  NPMEntries,
  PyPINames,
  NPMNames, NPMVersions,
  PyPIFiles,        \* the files of a project's release
  MaxPyPIFiles,
  MaxFindings       \* of the tiers before Claude

ASSUME BoundsAssumption ==
  /\ MaxWord \in Nat /\ MaxFiles \in Nat /\ MaxLines \in Nat /\ MaxFindings \in Nat
  /\ \A l \in YarnLines : l.is \in {"header", "version", "other"}
  /\ MaxPyPIFiles \in Nat /\ PyPINames \subseteq Seq(DOMAIN Lower)
  /\ MinTypoLength \in Nat /\ LongName \in Nat /\ MaxSnippets \in Nat \ {0}
  /\ MaxArchiveFiles \in Nat \ {0}
  /\ BlockCVSSThreshold \in 0..100 /\ Scores \subseteq 0..100

(* The scripts of a package.json are those of the three hooks, with the    *)
(* patterns that a command can match.  A file's name is that of a README   *)
(* or of a binary, or not.                                                 *)
ASSUME FilesAssumption ==
  \A f \in ArchiveFiles :
    /\ f.readme \in BOOLEAN /\ f.binary \in BOOLEAN
    /\ DOMAIN f.hooks \subseteq Hook
    /\ \A h \in DOMAIN f.hooks : f.hooks[h] \subseteq ScriptPattern

(* The names and versions of npm and PyPI: a scope is followed by a name,  *)
(* a version begins with a digit, and a file is named after its project,   *)
(* whose name it may have in one piece or, at its dashes, in several.      *)
ASSUME DownloadsAssumption ==
  /\ {"", "simple", "packages"} \cap ScopeNames = {} /\ "" \notin Numeric
  /\ NPMNames \subseteq Seq(Seq(Piece)) /\ NPMVersions \subseteq Seq(Piece)
  /\ \A name \in NPMNames :
       /\ name # <<>> /\ <<>> \notin ToSet(name)
       /\ Len(name) \in {1, 2} /\ (IsScope(name[1]) <=> Len(name) = 2)
  /\ \A version \in NPMVersions : version # <<>> /\ version[1] \in Numeric
  /\ \A project \in DOMAIN PyPIFiles : \A f \in PyPIFiles[project] :
       /\ f.name \in Seq(Piece) /\ f.name # <<>> /\ "" \notin ToSet(f.name)
       /\ Normal[f.name[1]] = project <=> Len(f.name) = 1
       /\ f.version \in Piece /\ f.version # "" /\ f.tags \in Seq(Piece)

VARIABLES task, input, output, done
vars == <<task, input, output, done>>

Words == BoundedSeq(Letters, MaxWord)

Inputs ==
  [badlist |-> [entries : SUBSET Entries, popular : {{}} \cup {{p} : p \in Words},
                name : Words, version : Versions],
   cve |-> [scores : BoundedSeq([type : ScoreType, score : Scores], 2),
            db : DatabaseSeverity],
   heuristics |-> [before : BoundedSeq(ArchiveFiles, MaxFiles), extra : ArchiveFiles,
                   after : BoundedSeq(ArchiveFiles, MaxFiles)],
   extract |-> BoundedSeq(ClaudeFiles, MaxSnippets + 1),
   answer |-> [earlier : BoundedSeq(Severity, MaxFindings), mode : Mode,
               findings : SUBSET {"critical", "medium", "low"}, reasoned : BOOLEAN,
               verdict : Verdict \cup {""}],
   poetry |-> BoundedSeq(PoetryLines, MaxLines),
   yarn |-> BoundedSeq(YarnLines, MaxLines),
   npm |-> SUBSET NPMEntries,
   pypi |-> PyPINames,
   tarball |-> [name : NPMNames, version : NPMVersions],
   release |-> UNION {[project : {p}, files : BoundedSeq(PyPIFiles[p], MaxPyPIFiles)] :
                        p \in DOMAIN PyPIFiles},
   transport |-> [handler : {"tarball", "meta", "simple", "transparent"},
                  body : {"none", "small", "large"},
                  config : {"none", "broken", "proxy"},
                  proxied : {"error", "407", "ok"}, direct : {"error", "ok"}]]

Start ==
  /\ task \in DOMAIN Inputs
  /\ input \in Inputs[task]
  /\ output = <<>>
  /\ done = FALSE

Run(t) == ~done /\ task = t /\ done' = TRUE /\ UNCHANGED <<task, input>>

Archive(files) == [unpacks |-> TRUE, files |-> files]

CheckName ==
  /\ Run("badlist")
  /\ LET check(version) ==
           KnownBadAnalyze(input.entries, input.popular, input.name, version)
     IN  output' = [download |-> check(input.version), byName |-> check(EmptyVersion)]

ReadVulnerability ==
  /\ Run("cve")
  /\ output' = OSVAnalyze({input})

ScoreArchive ==
  /\ Run("heuristics")
  /\ output' =
       [less |-> AnalyzeFull(Archive(input.before \o input.after)),
        more |-> AnalyzeFull(Archive(input.before \o <<input.extra>> \o input.after))]

Extract ==
  /\ Run("extract")
  /\ output' = ExtractForAnalysis(input)

(* The answer of the last tier, and the verdict over all findings.         *)
ReadAnswer ==
  /\ Run("answer")
  /\ LET claude == SetToSeq(ParseClaudeResponse(input))
     IN  output' = LoopVerdict(input.mode, input.earlier \o claude)

ReadPoetry ==
  /\ Run("poetry")
  /\ output' = ParsePoetry(input)

ReadYarn ==
  /\ Run("yarn")
  /\ output' = ParseYarn(input)

ReadNPM ==
  /\ Run("npm")
  /\ output' = ParseNPM(input)

NormalizeName ==
  /\ Run("pypi")
  /\ LET lines == <<[is |-> "other"], [is |-> "pinned", name |-> input, version |-> "1"]>>
     IN  output' = [poetry |-> NormalizePoetry(input),
                    requirements |-> ParseRequirements(lines)[1].name]

(* The tarball and the metadata of an npm package, through the proxy.      *)
AskForNPM ==
  /\ Run("tarball")
  /\ LET path == NPMTarball(input.name, input.version)
     IN  output' = [tarball |-> Serve(path), host |-> UpstreamHost(path),
                    meta |-> Serve(Path(input.name, ""))]

(* The page of a PyPI project and each of its files, through the proxy, and*)
(* the file that the server would fetch.                                   *)
AskForPyPI ==
  /\ Run("release")
  /\ LET file(f) == Path(<<PackagesDir, <<"a">>, <<"b">>, <<"c">>,
                           f.name \o <<f.version>> \o f.tags>>, f.ending)
     IN  output' = [page |-> Serve(Path(<<Simple, input.project>>, "")),
                    files |-> [i \in DOMAIN input.files |-> Serve(file(input.files[i]))],
                    fetched |-> ResolvePyPITarball(input.files)]

SendUpstream ==
  /\ Run("transport")
  /\ output' = RoundTrip(Outgoing(input.handler, input.body), input.config,
                         input.proxied, input.direct)

Next ==
  \/ CheckName \/ ReadVulnerability \/ ScoreArchive
  \/ Extract \/ ReadAnswer
  \/ ReadPoetry \/ ReadYarn \/ ReadNPM \/ NormalizeName
  \/ AskForNPM \/ AskForPyPI \/ SendUpstream

AlgorithmsSpec == Start /\ [][Next]_vars

-----------------------------------------------------------------------------
(* Reference definitions.                                                  *)

(* The words one insertion, deletion or substitution away.                 *)
OneEdit(w) ==
  {RemoveAt(w, i) : i \in DOMAIN w}
    \cup {ReplaceAt(w, i, l) : i \in DOMAIN w, l \in Letters}
    \cup {InsertAt(w, i, l) : i \in 1..(Len(w) + 1), l \in Letters}

(* The words within n edits.                                               *)
Within(w, n) ==
  LET ball[k \in 0..n] ==
        IF k = 0 THEN {w} ELSE ball[k - 1] \cup UNION {OneEdit(v) : v \in ball[k - 1]}
  IN  ball[n]

(* The lines of the sections that a poetry.lock file is cut into.          *)
SectionEnd(lines, i) ==
  Min({Len(lines) + 1} \cup
        {j \in DOMAIN lines : j > i /\ lines[j].is \in {"package", "other"}})
LastValue(lines, i, key) ==
  LET given == {j \in (i + 1)..(SectionEnd(lines, i) - 1) : lines[j].is = key}
  IN  IF given = {} THEN NoText ELSE lines[Max(given)].value
SectionIsDev(lines, i) ==
  \E j \in (i + 1)..(SectionEnd(lines, i) - 1) : lines[j].is = "dev"

-----------------------------------------------------------------------------
(* Properties.                                                             *)

Done(t) == done /\ task = t

(* The two checks of one package agree where the proxy relies on it: what  *)
(* an entry makes the download check refuse, the name check reports, too,  *)
(* at least as gravely; and only a name without any entry is a typo, if    *)
(* and only if a popular name is one edit away, or two for a long name,    *)
(* counted by the words in between (badlistAnalyzer.Analyze, and the table *)
(* of editDistance).                                                       *)
NameCheckIsSound ==
  Done("badlist") =>
    LET known(version) == {e \in input.entries :
          /\ Lowered(e.name) = Lowered(input.name)
          /\ version = EmptyVersion \/ e.version \in {version, AnyVersion, EmptyVersion}}
        near == /\ input.name \notin input.popular
                /\ Len(input.name) >= MinTypoLength
                /\ input.popular \cap Within(input.name,
                     IF Len(input.name) < LongName THEN 1 ELSE 2) # {}
    IN  /\ known(input.version) # {} => output.download \subseteq output.byName
        /\ known(input.version) = {} => output.download = IF near THEN {"high"} ELSE {}
        /\ known(EmptyVersion) = {} => output.byName = output.download

(* Severity and score are read from different fields.  Where a record has  *)
(* only one of the two, they agree: the scores that let Claude look at a   *)
(* package are those of the findings that block it (osv.go, Analyze).      *)
SeverityFollowsScore ==
  Done("cve") /\ (ParseCVSS(input) = 0 \/ input.db = NoWord) =>
    \A f \in output : f.highCVSS <=> f.severity \in Grave

(* Another file in an archive, at whatever place, never lowers its score   *)
(* and never hides a severity that was found, although the count of        *)
(* lifecycle hooks runs on from file to file and the score is capped.  Of  *)
(* this the first README of an archive is an exception: it takes away the  *)
(* finding that there is none and the points for it, but nothing else,     *)
(* whatever it holds.  And where the archive already has as many files as  *)
(* are read, another may push the last one out (extract, tgzHasReadme and  *)
(* analyzeFiles).                                                          *)
MoreCodeScoresMore ==
  Done("heuristics") /\ Len(Extracted(input.before \o input.after)) < MaxArchiveFiles =>
    LET first == input.extra.readme /\ ~HasReadme(input.before \o input.after)
    IN  /\ output.less.score <= output.more.score + (IF first THEN Weight.noReadme ELSE 0)
        /\ output.less.findings \subseteq
             output.more.findings \cup (IF first THEN {SeverityOf.noReadme} ELSE {})
        /\ input.extra.readme => SeverityOf.noReadme \notin output.more.findings

(* Claude is shown every lifecycle hook of the files that the break of the *)
(* loop lets it reach, with the command of the last of them that has it,   *)
(* and says "no content" only of an archive that has neither a script nor  *)
(* suspicious code (extractForAnalysis).                                   *)
ScriptsAreShown ==
  Done("extract") =>
    LET before(i) == {j \in 1..(i - 1) : input[j].suspicious}
        reached == {i \in DOMAIN input : Cardinality(before(i)) < MaxSnippets}
        having(h) == {i \in reached : h \in DOMAIN input[i].scripts}
    IN  /\ \A i \in reached : DOMAIN input[i].scripts \subseteq DOMAIN output.scripts
        /\ \A h \in DOMAIN output.scripts :
             output.scripts[h] = input[Max(having(h))].scripts[h]
        /\ HasNoContent(input) =>
             \A i \in DOMAIN input : ~input[i].suspicious /\ DOMAIN input[i].scripts = {}

(* A word of Claude other than allow, with a reason, reaches the verdict   *)
(* even without findings of its own, and no answer takes back what other   *)
(* tiers found before: the verdict is that of all findings, in whatever    *)
(* order the loop meets them and wherever it returns (parseClaudeResponse  *)
(* and computeVerdict).                                                    *)
ClaudesWordCounts ==
  Done("answer") =>
    LET verdict(severities) ==
          ComputeVerdict(input.mode, {[severity |-> s, highCVSS |-> FALSE] : s \in severities})
        said == CASE input.findings # {} -> input.findings
                  [] input.findings = {} /\ input.reasoned ->
                       CASE input.verdict = "block" -> {"critical"}
                         [] input.verdict = "allow" -> {}
                         [] OTHER -> {"medium"}
                  [] OTHER -> {}
    IN  output = verdict(ToSet(input.earlier) \cup said)

(* Every package section with a name and a version that is neither of the  *)
(* dev group nor optional is listed, in order, with the last name and      *)
(* version written in it; nothing else is, and no section leaks into the   *)
(* next (PoetryParser.Parse).                                              *)
PoetryReadsSections ==
  Done("poetry") =>
    LET listed == {i \in DOMAIN input :
                     /\ input[i].is = "package"
                     /\ NoText \notin {LastValue(input, i, "name"), LastValue(input, i, "version")}
                     /\ ~SectionIsDev(input, i)}
        place(i) == Cardinality({j \in listed : j <= i})
    IN  /\ Len(output) = Cardinality(listed)
        /\ \A i \in listed : output[place(i)] =
             [name |-> NormalizePoetry(LastValue(input, i, "name")),
              version |-> LastValue(input, i, "version")]

(* A version belongs to the header before it, if that has a name, unless   *)
(* another version came between: a dependency called "version" is none.    *)
(* Each pair is listed once (YarnParser.Parse).                            *)
YarnPairsHeaderAndVersion ==
  Done("yarn") =>
    /\ IsInjective(output)
    /\ ToSet(output) =
         {[name |-> input[p[1]].value, version |-> input[p[2]].value] :
            p \in {q \in (DOMAIN input) \X (DOMAIN input) :
                     /\ q[1] < q[2]
                     /\ input[q[1]].is = "header" /\ input[q[1]].value # NoText
                     /\ input[q[2]].is = "version"
                     /\ input[q[2]].value # NoText
                     /\ \A j \in (q[1] + 1)..(q[2] - 1) : input[j].is = "other"}}

(* No production package is lost, in whatever order the entries come,      *)
(* unless another one is written the same when name and version are joined *)
(* without a separator; and none is listed twice (NPMParser.Parse).        *)
NPMKeepsEveryPackage ==
  Done("npm") =>
    LET prod == {[name |-> NameOf(e.path), version |-> e.version] :
                   e \in {f \in input : ~f.dev /\ ~f.peer /\ ~f.optional
                                        /\ f.path # <<>> /\ f.version # <<>>}}
        alike(r) == {q \in prod : q.name \o q.version = r.name \o r.version}
    IN  \A refs \in output :
          /\ refs \subseteq prod
          /\ \A r \in prod : Cardinality(alike(r) \cap refs) = 1

(* The two formats of PyPI name a package alike, so that it is scanned and *)
(* cached once; only a dot tells them apart (normalizePoetry, which keeps  *)
(* it, and normalizePyPI).                                                 *)
FormatsNameAlike ==
  Done("pypi") =>
    /\ (output.poetry = output.requirements) <=> \A i \in DOMAIN input : input[i] # "."
    /\ NormalizePyPI(output.poetry) = output.requirements

(* The two interception points see one package: the metadata of an npm     *)
(* package is checked by the name its tarball is analysed under, and the   *)
(* page of a PyPI project by that of its files.  A tarball is analysed as  *)
(* the version that was asked for, and one that the server fetches by      *)
(* itself like one that a client asks for; but a prerelease whose name has *)
(* a digit after a dash is cut short, and so is the name of a file that    *)
(* still has its dashes; packages called like the paths of PyPI are sought *)
(* there; and other archives than the two kinds go unseen (detectTarball,  *)
(* detectNPMMeta, upstreamURL, serve, FetchTarball).                       *)
DownloadsAreRecognised ==
  /\ Done("tarball") =>
       /\ output.meta = [to |-> "meta", eco |-> "npm", name |-> input.name]
       /\ input.name # <<Simple>> =>
            output.tarball.to = "tarball" /\ output.tarball.name = input.name
       /\ /\ output.tarball = [to |-> "tarball", eco |-> "npm", name |-> input.name,
                               version |-> input.version]
          /\ output.host = "registry.npmjs.org"
          <=> /\ input.name \notin {<<Simple>>, <<PackagesDir>>}
              /\ \A i \in 2..Len(input.version) : input.version[i] \notin Numeric
  /\ Done("release") => \A i \in DOMAIN input.files :
       LET f == input.files[i]  seen == f.ending \in {"tar.gz", "whl"}
       IN  /\ output.files[i].to = "tarball" <=> seen
           /\ output.files[i] = [to |-> "tarball", eco |-> "pypi",
                                 name |-> output.page.name, version |-> <<f.version>>]
               <=> seen /\ Len(f.name) = 1
           /\ f.type = "sdist" =>
                output.fetched \in 1..i /\ input.files[output.fetched].type = "sdist"
           /\ f.type = "bdist_wheel" =>
                output.fetched # 0 /\ (output.fetched > i =>
                  input.files[output.fetched].type = "sdist")

(* A request is sent a second time only as a whole: around a proxy that    *)
(* gave no answer, and never around one that asked for credentials.  Such  *)
(* a retry is due to pages of PyPI and to requests with a body that was    *)
(* buffered; the tarballs and the metadata of npm, whose requests carry    *)
(* the empty body of the client's, fail with their stale proxy             *)
(* (resilientTransport.RoundTrip and its callers).                         *)
RetriesAreWhole ==
  Done("transport") =>
    LET buffered == input.handler = "transparent" /\ input.body # "none"
    IN  /\ output.sent = <<"proxied", "direct">> <=>
             /\ input.config = "proxy" /\ input.proxied = "error"
             /\ input.handler = "simple" \/ buffered
        /\ output.answer = "ok" =>
             Last(output.sent) = IF input.proxied = "ok" /\ input.config = "proxy"
                                 THEN "proxied" ELSE "direct"
=============================================================================
