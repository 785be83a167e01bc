# Cipher Shield: verification project

Cipher Shield is a firewall for packages. A proxy between developers and the
npm and PyPI registries hands every tarball to a pipeline of four analysis
tiers, caches the verdicts, forwards or refuses the download, and reports to a
central server with a dashboard and an exception list. This directory holds
TLA+ models of that program, TLC configurations that check them on small
instances, and TLAPS proofs of the properties that matter most for every
instance. `PROJECT.json` lists, for each definition, the source lines it
models, and for each property a mutation of the model that breaks it.

## The system

| Part (source) | State | Operations | Modules |
|---|---|---|---|
| Analysis pipeline (`internal/pipeline`) | per call: findings, trigger flag, result | `Analyze` | `Pipeline` |
| Verdicts (`pipeline.go`, `types.go`) | none | `computeVerdict`, the two trigger predicates | `Verdicts`, `VerdictLoop` |
| Store (`internal/db`) | tables `scan_cache`, `scan_history`, `dismissals`, `exceptions`, `download_events`, `users`, `schema_version` | lookups, `SaveResult`, `PruneHistory`, `DismissResult`, exceptions, `Migrate` | `ScanStore`, `Team`, `Startup`, `Schema`, `Accounts` |
| Registry proxy (`internal/proxy`) | per request | `handleTarball`, `handleNPMMeta`, `handlePyPISimple`, `shouldBlockName`; `serve`, `detectTarball`, `resilientTransport` | `Proxy`; `Registry` |
| Registry download (`internal/registry`) | none | `FetchTarball`, `ResolvePyPITarball` | `Registry` |
| Exception cache (`reporter/exceptions.go`) | list of exceptions | `IsExcepted`, `refresh`, `loop` | `Proxy` |
| Reporter (`reporter/reporter.go`) | goroutines | `Report`, `ReportDownload` | `Team`, `Proxy` |
| API: reports, exceptions, triage (`internal/api`) | none of its own | `handleReport`, `handleDownload`, `handleAddException`, `handleDeleteException`, `handleDismiss` | `Team`, `ScanStore`, `Proxy` |
| API: scans (`handlers_scan.go`) | per request | `handleScanPackage`, `handleScanLockfile` | `LockfileScan`, `Proxy` |
| Server startup (`cmd/server`) | its step | migration, bootstrap of the admin, pruning goroutine | `Startup`, `Schema`, `Server`, `Pipeline` |
| Rate limiter (`api/ratelimit.go`) | a bucket per client | `allow`, `prune` | `RateLimiter`, `Server` |
| Known-bad list (`analyzer/badlist`) | the list, behind a lock | `Analyze`, `editDistance`, `typosquatTarget`; `RefreshFromURL`, `StartAutoRefresh` | `KnownBad`, `Text`; `Pipeline` |
| CVE lookup (`analyzer/cve`) | none | `Analyze`, `parseCVSS`, `mapSeverity` | `OSV` |
| Heuristic scan (`analyzer/heuristic`) | none | `AnalyzeFull`, `extract`, `analyzeFiles` | `Heuristics` |
| Claude analysis (`analyzer/claude`) | none | `extractForAnalysis`, `parseClaudeResponse` | `ClaudeTier` |
| Lockfile parsers (`internal/lockfile`) | loop variables | four `Parse` methods | `Lockfiles`, `Text` |
| Users and tokens (`api/auth.go`, `handlers_users.go`) | table `users`, the JWT secret, the tokens issued | `handleLogin`, `handleResetPassword`, `handleCreateUser`, `requireUser`, `requireAdmin` | `Accounts` |
| Dashboard; deployment | | | not modelled |

**How they interact.** The proxy, the scan handlers and the background
recording of name blocks each call `Analyze` from a goroutine of their own. It
holds no lock; calls meet only in the database, at single transactions. The
same proxy code runs in two binaries: inside the server, where it shares
pipeline and database with the API but has neither exception cache nor
reporter, and standalone on a developer's machine, with a database of its own,
the server's exceptions copied once a minute, and results posted to the
server by goroutines with timeouts and retries. The known-bad list is fetched
by a goroutine of its own and swapped while calls run. Handlers of the API trust
the e-mail and the role in a token; nothing looks a token's account up. Several servers
may share one Postgres.

**What is hard.** Calls interleave between cache lookup and save. Each tier
and each store access may fail alone; `Analyze` logs the failure and goes on.
Deadlines expire between any two steps. A restart kills calls but not rows,
and may change the mode. Reports come late, twice, out of order, or after
their reporter is gone. Rows expire, are pruned and overwritten while others
read them. Instances start together over an empty database. Two admins reset one password
at once, or create one account twice, while a login holds a row it has read before. A
stale upstream proxy swallows requests. The parsers and
scoring loops carry state from one line, file or finding to the next.

**What makes each part correct.** The pipeline: only complete, timely scans
are persisted; nothing is missing from a result without a cause; a known-bad
package is not allowed by accident; a cached answer is a scan of that package
and young enough, also when the list changes under the call. The store: newest history, no life extended by a late save,
dismissals for good. The proxy: no known-bad version ships, nothing is
refused without a finding or outside enforce mode, every request is answered,
the exception list follows the server. Reporting: what was acknowledged is
stored, every goroutine ends. Lock file scans: each entry is about its
package, and the request ends. Startup: whoever serves finds its tables and
an admin, everybody serves in the end, and instances that start together migrate
the database as one would. The limiter: a bounded number of requests per window.
Accounts: the password in force is one that the answers allow for, accounts
keep their e-mail and role, only admins administer, a signature is that of
somebody who had logged in. Downloads: both interception points see one package by one
name. Algorithms: a reference definition each.

## Modules

```
Verdicts <- ScanStore <- Pipeline <- Proxy         <- MCProxy, ProxyProofs
   ^            ^           ^   ^--- LockfileScan  <- MCLockfileScan, LockfileScanProofs
   |            |           '------- MCPipeline, PipelineProofs
   |            '-- Team <- MCTeam, TeamProofs      ScanStoreProofs (store)
   '- VerdictLoop, KnownBad, OSV, Heuristics, ClaudeTier, Lockfiles, Text
          '-- with Registry --> Algorithms <- MCAlgorithms, AlgorithmsProofs
Schema <- Startup <- Server <- MCServer, ServerProofs     RateLimiter <- Server
Accounts <- MCAccounts, AccountsProofs
```

* **`ScanStore`** is the database. Each action is one transaction or one
  statement: `SaveResult` overwrites the cache row, inserts the history row
  unless its id is there, and keeps the newest `HistoryLimit` rows. It is also
  the *abstract specification* `StoreSpec`: what the tables may see from any
  number of honest writers, where one id is one scan and a scan may be
  saved late, again and in any order. `Pipeline` and `Team` implement it. `saved` is an
  auxiliary variable, all results ever committed.
* **`Pipeline`** is any number of concurrent calls of `Analyze`, one action per
  statement that touches the store, the network or the result, with an action
  of its own for each failure. What a tier answers is a constant per package.
  A call is named by its scan id. `failed` and `source` are auxiliary. A
  failed CVE lookup includes an answer that is no list of vulnerabilities
  (`osv.go` does not look at the status), and a failed heuristic scan an
  archive that does not unpack. `list` is the known-bad list, replaced at any time by
  another of `Lists`; `inForce` (auxiliary) are those that a call may have asked, and a
  package is known bad to a call if all of them say so.
* **`Proxy`** adds requests, the response the client got, the synced exception
  list and what is handed to the reporter. `HasServer` tells the binaries apart.
* **`Team`** is the server's database under the reporters of many downloads.
  A post and its goroutine are separate: the server may serve a request after
  its client has given up, so `wire` keeps requests until they are served, and
  `acked` says that an answer will still find its client. A lost or failed request is
  one that is never served.
* **`LockfileScan`** is one `handleScanLockfile`: package `i` is analysed by
  the calls `First[i]` and `Second[i]` of `Pipeline`, in one goroutine and
  under one deadline, while other calls go on.
* **`Startup`** is `Migrate` and the bootstrap in `main`, statement by
  statement, on instances that share the database. An error ends an instance and
  a supervisor starts it again. **`Schema`** is what the database may see of
  all that, a second *abstract specification*: migrations appear one by one, in
  order and with their version, and at most one admin after the last. `Startup` maps its
  tables, its versions and the number of its users to it. **`RateLimiter`** is one client's bucket; `prune` looks and deletes in
  two steps, and a request may hold a bucket that is no longer in the map. `granted` and
  `stale` are auxiliary: what was let through before each tick, and how many requests held
  a deleted bucket when it began.
  **`Server`** runs the limiter while its instance serves.
* **`Accounts`** is the requests about users, a step per statement, with the
  tokens that are out and restarts under another secret. `owed` (auxiliary) is what
  an observer of requests and answers must expect of each password; a reset knows as
  `rivals` the resets that overlapped with it. Passwords are compared by value
  instead of by hash.
* **`Registry`** is `serve` as a function of the path, cut into segments and these at
  their dashes, where the regular expressions look, the choice of the archive
  that the server fetches, and the retry of `resilientTransport`.
* **`VerdictLoop`, `KnownBad`, `OSV`, `Heuristics`, `ClaudeTier`,
  `Lockfiles`, `Text`** hold pure algorithms as operators; **`Algorithms`** runs each
  on every input of a set and states what it is for. Files and lines
  are abstracted to what the code's tests on them distinguish; regular expressions
  become the set of patterns that a file matches.

Ecosystem and name are one value, since every query compares both. Time is a
counter. `CachedAt`, `ClaudeUsed`, durations, logs and texts are left out.
Operators named `X_Something` with a comment "Mutant" are not part of any
specification; they are the plausible bugs that `PROJECT.json` puts in the
place of `X` to see the property fail.

## Runs

| Run | Instance | Shows |
|---|---|---|
| `pipeline` | 2 calls, a bare and a versioned reference, 1 exception id, clock 0..2, history of 1, all tiers may fail | no incomplete scan persisted; every gap has a cause; cached answers are fresh scans of that package; implements `StoreSpec` |
| `team` | 2 downloads, 2 attempts, 2 scans, history of 1, clock 0..1 | an acknowledged report is stored; every reporter ends; store properties and `StoreSpec` under late, lost and repeated posts |
| `proxy_dev` | standalone proxy, 2 requests, 2 versions, 1 server exception | no known-bad version ships; a refusal has a finding and was reported; every request is answered; exceptions follow the server |
| `proxy_server` | server's proxy, 2 modes, 2 known-bad lists, a download and a lookup, 1 exception | what the lists condemn is not allowed; in warn mode nothing is refused, whatever an enforcing process left in the cache |
| `lockfile_scan` | 2 packages, a concurrent lookup of one, rows that do not expire (`MaxTime = 0`), deadline, cache failures, restarts | entries match their packages; a flag survives the rescan; the request ends |
| `server` | 2 instances, the code's 3 migrations, 2 crashes, 2 requests, burst 1, rate 1, clock 0..6, idle time 2 | whoever serves is ready; the database is migrated as by one instance (`Schema`); all serve in the end; what a client gets in a window is bounded |
| `accounts` | 2 accounts, e-mails, passwords and secrets, 2 requests at a time, 2 tokens, life 1, clock 0..2 | the password in force is one of those acknowledged; accounts stay; only admins administer; signatures are true |
| `algorithms` | all inputs below the bounds that follow | the eleven algorithms |
| `exception_effect`, `lockfile_rescan`, `fails_closed`, `name_exception` | smallest instances that show it | the four findings |

**Why the bounds suffice.** Two calls show every race for one cache row, and
the properties relate at most two calls (the one that saved and the one that
reads). A history of one row is at its limit with the first save. A clock of
two ticks, with lifetimes 1 and 2, lets a flagged row expire while an allowed one
lives. Two attempts have a first, a last and a late one. In the lock file run the
heuristics find nothing and no exception is granted, so that a flag can only be lost by the
two passes themselves; the first package may be clean or flagged, the
second is flagged and is the one the other call asks for. Three migrations have
a first, a next and a last; two crashes hit both instances, or one twice. In
`server` the window of the limiter's property is shorter than the idle time,
which is where it holds: buckets are deleted and made anew, more than once, within `MaxClock`,
and a request may hold one from before the window (`stale`). The proof has no such bounds.
The names of `algorithms` have up to four letters of `{a, A}`, and the lengths
at which the rules for typos change are 3 and 4 instead of 5 and 8; five snippets
are the code's own number, with one file more; lock files have up to six
lines, which is two sections with all keys; archives have five files, of which four
are read instead of 200; lists of findings have four entries. Proofs cover what these bounds
leave open where they exist; the scan ids of `pipeline` and the requests and secrets of `accounts`
are symmetric, since those runs check no liveness and treat them alike. Two lists, one of
which condemns what the other lets pass, are in `proxy_server` alone; one list is enough
where another property is at stake. Two accounts are an admin's and another's, two requests
a pair of resets, of creations or of both, and a clock of two ticks outlives a
token of one.

**Fairness.** `FairProxySpec`: each step of a call returns, because every
network client of the tiers carries a timeout and the rest is local; a
request's goroutine runs on to its answer; the exception cache's ticker never
stops and the server answers it again and again. No fairness of failures,
restarts or administration. `FairTeamSpec`: a wait ends by the client's
five-second timeout, a pause by `time.Sleep`; the server need never serve.
`LockFairness`: the handler's goroutine and its calls run on.
`FairServerSpec`: a start runs on and the supervisor restarts what exited;
crashes are bounded by `MaxCrashes`, since an instance that crashes forever
never serves. `CHECK_DEADLOCK FALSE` stands where the modelled work ends (a scan is answered,
an algorithm has run, all reporters are done, the clock has reached its bound).

## Proofs

All proofs are for arbitrary constants under the named assumptions in the
modules: limits are positive, the shorter lifetime is shorter, sentinel values
are no data, the calls of a lock file are its own, `Lower` is a lower case (it changes nothing
that is lower already, and no separator), the install hooks of an archive's file are those of npm,
and its name is that of a README or of a binary or not (`FilesAssumption`). One theorem has a hypothesis of its own:
`DefaultThresholdIsGrave` is about the default `BlockCVSSThreshold` of 7.0. `tlapm` checks
`ScanStoreProofs`, `PipelineProofs`, `ProxyProofs`, `LockfileScanProofs`, `TeamProofs`,
`ServerProofs`, `AccountsProofs` and `AlgorithmsProofs`. The type invariants of `Pipeline`,
`Team` and `Accounts` are proved and have no run.

* **Store** (`StoreInv`): types, `history \subseteq saved`, `HistoryKeepsNewest`
  and `CacheLifeFromScan` are inductive together. Alone `HistoryKeepsNewest` is not: a
  repeated save must find under its id the very scan it repeats, which needs the
  history to hold saved scans only, and `StoreSpec`'s one scan per id.
  `DismissedStaysDismissed` follows because no step removes a dismissal.
* **Pipeline** (`IInv`): adds to the type invariant and the store's, for each
  call, what its program point says of its findings, trigger and result
  (`Local`), so that the properties about finished calls can be
  established when a call finishes and cannot be undone later. Of the findings it says
  which tier may have said what (`TierFindings`, `Said`): each comes from a tier that has run, and
  each tier that has run without failing has left all of its own. It gives `TypeOK`,
  `OnlyFinishedScansPersisted`, `CachedAnswerIsAScan`, `EveryGapHasACause` in both directions
  (nothing is missing without a cause, and nothing is there that no tier said)
  and `KnownBadNeverAllowed`; `CachedAnswerIsFresh` is an action property from it.
  Three facts about it serve the modules above: what a call is about is fixed
  (`CallsAreFixed`), an answer is final (`AnswerIsFinal`), and a block has a grave finding
  (`BlockHasAFinding`).
* **Proxy** (`ProxyInv`). `ProxyRunsPipeline` shows that every step of `Proxy` is one of
  `Pipeline` or a stutter, so that `IInv` holds under it. On top: every exception in force in
  the database, on the server or in the synced list was granted once (`GrantedInv`); an
  answer by exception was covered by a granted one; a forwarded download was answered
  before, and in a deployment that only ever enforces with another verdict than block or under a granted
  exception (`ForwardedInv`). None of this is said by `KnownBadNotShipped`, which is not
  inductive: it needs the past of the synced list, which may be stale. It gives
  `KnownBadNotShipped`, `RefusedForAFinding` and `WarnRefusesNothing`.
* **Lock file scan** (`LockInv`): `IInv` again (the deadline is the one step that is not
  `Pipeline`'s, since it ends several calls at once), both calls of a reference are about its package, and
  every entry that has been written is the answer of one of them. `EntriesMatchRefs`
  follows, and `FlagSurvivesRescan` by comparing what the two calls found, both complete
  but for their causes, under lists both may have asked.
* **Team** (`TeamInv`): every scan was finished in the past and owns its id, a
  reporter posts only what it was handed, an answer on its way is one for a
  saved result. It gives `TeamTypeOK` and `ReportedIsStored`.
* **Startup** (`StartInv`): tables and versions are the first `n` of the migrations,
  and every instance in its loop has seen at most `n` of them; whoever left the loop found
  all of them; the admin is there for those past the bootstrap. `ServesWhenReady`
  alone is not inductive, since it says nothing of an instance that is still on its way.
* **Rate limiter** (`LimiterInv`): a potential argument. For every window that is
  still shorter than the idle time there is an `m` such that only the first `m` buckets were
  deleted before it and at most two others were ever in the map, the second of which
  `prune` cannot find old yet; and what was let through, plus what those two buckets hold, plus the number
  of requests that hold an older one, is within the bound (`Window`). A request moves a token from the
  second term to the first, a tick adds at most `Rate` to each bucket and to the bound twice that,
  and a new window begins with what is there. `BurstsAreBounded` is the result, for
  any number of requests, burst, rate and idle time.
* **Accounts** (`AccountsInv`): what a goroutine or a client holds is about an account that
  is still there; overlapping resets of one account know each other's passwords; and
  once a reset has written, the password is its own or one that it knows. The
  last is what `PasswordAsAcknowledged` needs when the earlier of two resets answers.
  `AccountsStay`, `OnlyAdminsAdminister` and `SignaturesAreTrue` are action properties from it.
* **Algorithms** (`AlgorithmsInv`: a task computes its result from its input). The loop of
  `computeVerdict` with its early return is `ComputeVerdict` of the set of findings, for a list of any length
  (`LoopIsComputeVerdict`): all other modules use the latter. `extractForAnalysis` gathers
  from any archive what `ShownOf` says. Both loops are folds. A fold is unfolded to the
  recursive function it stands for, which is a `CHOOSE`; the expected state, as a function of the set of
  indices read so far, satisfies its equation and so witnesses that one exists (`IterationKeepsState`,
  `ReadFileKeepsShown`); and an induction over the number of indices shows that any other agrees with it. The induction is
  one about a set of numbers (`NatInd`), from the well-foundedness of `<`, since the library's
  takes a predicate as a parameter. From these follow `ScriptsAreShown` and `ClaudesWordCounts`.
  The parsers of `yarn.lock` and `poetry.lock` carry state from line to line, and are followed with a
  loop invariant each, over files of any length. `YarnHas`: the name is that of the last
  header, if no version came since, and each pair so far is listed once; it needs that a line is a
  header, a version or another (`BoundsAssumption`). `PoetryHas`: the variables hold what the lines of the
  one open section gave, and the sections that have ended are listed in their order; a flush makes the open
  section one of those (`SectionFlushed`). They give
  `YarnPairsHeaderAndVersion` and `PoetryReadsSections`;
  `NPMKeepsEveryPackage`, `FormatsNameAlike`, `RetriesAreWhole`, `SeverityFollowsScore` and
  `DownloadsAreRecognised` are proved by cases. The last takes from `DownloadsAssumption` what names and
  versions look like: a scope is followed by a name, a version begins with a digit, and a file
  is named after its project.
  What the heuristics do over an archive is a nest of folds: the files that are kept, the
  scripts of each, the findings. `FoldHasType` and `LoopStates` say once what a fold is, whatever
  its step, and the rest follows a loop over one archive beside the loop over the same archive with one file
  more: the files kept are the same but for that file (`KeptWithOneMore`, which is where the limit matters:
  at the limit the new file displaces another), and each scoring step keeps a state below another,
  in score and in findings. Only this order is inductive; that a file more scores
  more says nothing about the loop past it. A README and binaries are sought among all
  entries, also those that are not read, so the new file may be what is found
  (`MarksOfOneMore`). A binary adds; the first README takes away its five points and its note
  (`ReadmeIsMissed`), and with them possibly the score that calls Claude, but nothing
  that a file was found to do, and the cap at 100 makes the difference no greater
  (`CapKeepsOrder`, `AnalysisKeepsOrder`). It gives `MoreCodeScoresMore`, for archives of any
  length, with the README as its exception.
  `editDistance` is compared with what it is for: the words that so many insertions, removals and replacements
  reach (`Within`). `EditDistanceCountsEdits` says that it is their least number, for words of any
  length. That no fewer would do is shown on two tables side by side: one edit of a word moves the last cell by one at
  most (`InsertingIsClose`, `ReplacingIsClose`, of which one serves removals too), so a
  way of `n` edits ends within `n` of zero (`EditsAreCounted`). It takes that cells next to each other
  differ by one at most (`NeighboursAreClose`), because the code takes the diagonal wherever letters match without
  looking at the other two, and could miss a lower number there otherwise. That as many suffice is read off the cells
  (`CellsCountEdits`): each counts edits that turn one beginning into the other. Both are
  inductions over the grid (`GridInd`). `TyposquatDistance` and `NameCheckIsSound` follow, for names and
  popular lists of any size.
* **Refinement.** `PipelineImplementsStore` and `TeamImplementsStore`: initial
  states map to initial states, and each step is a step of `StoreSpec` or leaves the
  tables alone. The store's theorems then carry over
  (`TeamHistoryIsNewest`, `TeamCacheLife`, `TeamDismissalsHold`,
  `PipelineHistoryIsNewest`). `StartImplementsSchema` is the same for `Schema`: two
  instances that apply one migration are one step and a stutter. `ProxyRunsPipeline`
  carries `KnownBadNeverAllowed` over to the proxies.

**What the proofs corrected.** Two properties that the runs passed were false in general, and are
stated as they hold now. `TwoBurstsAtMost` did not count the requests that hold a bucket deleted before the
window (with two requests and a short clock no run met three), nor the refills of a second bucket.
`FlagSurvivesRescan` asked which known-bad lists the first call had met, and not those of the scan whose cached
row answered it, which may be another call's, under another list.

Model-checked only: everything about liveness (fairness is out of the prover's
reach); `ExceptionsFollowServer`, `EveryRequestAnswered`, `EveryReportSettles`, `ScanIsAnswered` and
`EveryInstanceServes` are of that kind. Every invariant and every action property that a passing run
checks is also the statement of a theorem.

## Findings

Four runs refute a sentence of the documentation or of a comment:

1. `exception_effect`: `docs/faq.md:80`, "Exceptions take effect immediately".
   The cache is read first, so a blocked package stays blocked until its row expires.
2. `lockfile_rescan`: `handlers_scan.go:122`, "rescan (Tier 3+4)". The second
   pass is answered from the row the first has saved. A download that follows
   within the hour meets the same row.
3. `fails_closed`: `proxy.go:350`, "enforce mode fails closed". `Analyze` never
   returns an error, so a scan whose tiers failed counts as a scan.
4. `name_exception`: `README.md:116`, exceptions "at both interception points".
   The server's own proxy is built without an exception cache.

Met while modelling, without a run of their own: `sql_store.go:96` says each migration is
applied exactly once, but two instances may both apply one and record its
version twice (`Startup` allows it; the tables come out right); `ratelimit.go:81`
says five attempts per minute where the bucket allows a burst of five and then
five more in a minute, another burst with its refills after a race with `prune`, and one more
for each request that holds a bucket deleted before (`TwoBurstsAtMost` is what holds); `pipeline.go:22` says that `BlockCVSSThreshold` decides between block and
warn, but only severities do, and the threshold only triggers Claude; a critical
remote-script finding alone scores 25 and does not trigger Claude, but blocks; the
keys of a sub-table of a poetry section, such as the `version` of a dependency, are read as the
package's own (`PoetryReadsSections` says "the last one written"); `README.md:50` counts
`lodahs` among the names caught, but a name of six letters is compared at distance 1
and `lodahs` is two substitutions from `lodash`;
`proxy.go:133` says that a stale proxy setting never breaks installs and that a 407 is
retried, but the requests of real clients carry `http.NoBody`, which is not nil, so that
tarballs and npm metadata are not retried, and a 407 of an HTTP upstream is returned as an error
(`RetriesAreWhole`); npm prereleases with a digit after a dash are analysed as a shorter
version, sdists whose name has a dash under a part of it, and packages called `simple` or
`packages` are sought at PyPI (`DownloadsAreRecognised`); `.zip` and `.egg`
archives of PyPI pass without a look; an answer `{}` for the known-bad list empties
it; a password reset ends no session, since only expiry and secret end a token; an archive
above the limit is cut, and the cut one is forwarded with status 200.

## Not modelled

* Text work and plain I/O: the rewriting of URLs in metadata bodies, headers, TLS and
  listening, npm's own configuration, request decoding, status codes, the dashboard's
  listings, `clientIP`, and the comparison of the proxies' shared token.
* Regular expressions, archive formats, prompts: abstracted to what they find.
  So is the line scanner of the lock file parsers: a line beyond its buffer fails the
  whole request with an error.
* Two orders inside a handler. `Team` commits a report and acknowledges it in one step, and
  `Proxy` hands a refusal to the reporter and sends it in one step: `ReportedIsStored` and
  `RefusedForAFinding` see a missing report or an ignored error, not an answer that overtakes them.
* Web assets and deployment: no logic.

## Plan

Done, in this order: store, pipeline, proxy; reporting with the store as its abstract
specification; lock file scans; startup and limiter; algorithms; the invariants
of the store, pipeline and reporting, and their refinements; the known-bad list that is
replaced under running calls; accounts with their proofs; paths, archives and retries;
the startup as an implementation of `Schema`, with its proofs; the safety of the proxy and of the
lock file scan on top of the pipeline's invariant; the limiter; the loops of the verdict, of the
extraction for Claude and of the two parsers that keep state; the heuristics' score and the table of
edit distances. What is left: to compose a developer's `Proxy` with a `Team` server, so that the
outbox of the one is what the reporters of the other are handed.
