# Verification of tfmoduleschema

TLA+ models of the library and command-line tool `tfmoduleschema`, the TLC
configurations that check them, and TLAPS proofs of what matters most.
Line numbers refer to the files under `src/`.

## 1. The system

`tfmoduleschema` answers questions about Terraform/OpenTofu modules (variables,
outputs, providers, submodules). A `Server` resolves a request to a concrete version
through a registry, downloads the module once into a cache directory, inspects it, and
remembers the answer.

| Component | State it keeps | Operations | Talks to |
|---|---|---|---|
| Downloader (`download.go`) | three paths: `<dest>`, `<dest>.partial`, `<dest>.backup` | `Fetch` | file system, go-getter |
| Server (`server.go`, `schema.go`) | `moduleCache` (the memo), `registries`, both under `mu`; the cache directory | `GetModule`, `GetSubmodule`, `ListSubmodules`, `GetAvailableVersions` | Downloader and registries (with `mu` held), status callback (with `mu` held), inspection (without `mu`) |
| Custom registry (`server.go` `registryFor`, `registry/lazy_custom.go`) | the registered `LazyCustom`; its `sync.Once`, client and error | `Host`, `ListVersions`, `ResolveDownload` | discovery, registry client |
| Registry client (`registry/http.go`, `custom.go`, `opentofu.go`, `terraform.go`) | base URL, `http.Client` | `listVersions`, `resolveDownload` | HTTP |
| Service discovery (`registry/discovery.go`) | none | `DiscoverModulesEndpoint` | HTTP |
| Credentials (`registry/token.go`, `auth.go`) | a token and the host it is for | `ResolveTokenForHost`, `bearerTransport.RoundTrip`, `CheckRedirect` | environment, credentials files |
| Version resolution (`versions.go`) | none; the registry changes between calls | `resolveVersion`, `GetLatestVersionMatch` | registry client |
| Cache layout (`cache.go`) | none | `cacheModuleDir`, `cacheSourceDir`, `cacheDirExistsNonEmpty` | file system |
| Sources (`source.go`, `fsutil.go`) | none; the local directory changes between calls | classification of local and remote sources | file system |
| Inspection (`inspect.go`, `ephemeral.go`, `types.go`) | none | `inspectDir`, `listSubmoduleDirs`, `ephemeralVariables` | file system |
| Command line (`cmd/tfmoduleschema`) | none | flag validation, one call of the Server | all of the above |

### What is hard about it

- `Fetch` is a sequence of file-system calls, any of which can fail or be the last one
  before the process dies. What it leaves on the three paths is what the next call,
  of this process or another one, starts from.
- A `Server` is used by many goroutines. The memo is read before the lock is taken,
  the entry is inspected after the lock is released, and a second goroutine repeats
  the check of the first one under the lock.
- Reading the disk can fail as well, and the code treats each failure in its own way: an
  entry that cannot be read counts as missing, a directory that cannot be read fails the
  call, a file that cannot be read is told in the diagnostics or left out silently.
- A process does not have the cache directory to itself: the default directory is
  shared by all Servers and all runs of the tool of a user.
- The custom registry is constructed lazily by whoever comes first, and resolved lazily
  under a `sync.Once`, which some callers enter holding the Server's mutex.
- A registry is another program: it redirects, lists versions in any order, publishes
  new ones at any time, and answers nonsense.
- What one process leaves on disk is found by the next one through a path that several
  requests are mapped to, and what a user types is judged twice, by the tool and by the
  Server, with different rules.

### What makes each part correct

- *Downloader*: the entry is absent or one whole archive, at every instant; no failure
  or crash loses the last known-good entry; a call tells the truth about what it did;
  an entry left in the backup comes back.
- *Server*: all answers are taken from one archive; the memo agrees with the disk; the
  directory that is inspected is there; no entry that could be read is downloaded twice; a
  call that downloads answers from its download; every call returns.
- *Custom registry*: one `LazyCustom`, one discovery, one outcome for everybody.
- *Registry client and credentials*: the token is the first one in the documented order;
  it goes to no other host than the one it is for; requests come to an end.
- *Version resolution*: the highest listed version the request admits, or a truthful
  "no match"; against a registry that only publishes, never a step back.
- *Cache layout*: two requests share a directory only if they mean the same module.
- *Command line*: what passes validation is what the Server accepts.

`PROJECT.json` lists the hazards line by line, with the properties that watch each.

## 2. The modules

| Module | Models | Used by |
|---|---|---|
| `CacheEntry` | what a cache entry promises: it is absent or one whole module, and only ever replaced by another whole module | refined by `Downloader` and `ModuleServer` |
| `ModuleStore` | what a Server that does not force fetches promises its callers: a store that is filled once and answers each call in one step | refined by `ModuleServer` |
| `Downloader` | `Fetch`, one action per file-system call | `DownloaderProofs`, `SharedCacheDir`, `ModuleServer` |
| `SharedCacheDir` | two downloaders (two instances of `Downloader`) on one cache directory | `SharedCacheDirProofs` |
| `ModuleServer` | `GetModule`, `GetSubmodule` and `ListSubmodules` of one Server, called by many goroutines, on top of `Downloader` | `ModuleServerProofs` |
| `CustomRegistry` | `registryFor` and `LazyCustom.resolve`, called by many goroutines | `CustomRegistryProofs` |
| `RegistryClient` | one registry and its HTTP requests: token lookup, discovery, redirects, the location of a download | `RegistryClientProofs` |
| `VersionResolution` | `listVersions`, `resolveVersion`, `GetLatestVersionMatch`, `GetAvailableVersions` against a registry that publishes | `VersionResolutionProofs` |
| `CacheLayout` | the directory and the key of the memo that a request is mapped to | `CommandLine` |
| `Sources` | which sources are paths on this machine | `CommandLine` |
| `SubmodulePaths` | the cleaning and judging of submodule paths, and where they lead | `CommandLine` |
| `CommandLine` | runs of the tool and programs that call a Server, one after the other on one cache directory | `CommandLineProofs` |

Each `*Proofs` module extends its component; `SubmodulePathsProofs` holds the facts about
paths of any length that `CommandLineProofs` rests on. Each `MC*` module gives the constants small
values for TLC; the `.cfg` files of the same family say which question is asked.

A definition whose comment begins with `Variant:` is not part of the model. It is the
definition below it with a plausible mistake (a dropped guard, a forgotten restart
case), used to confirm that a property fails when the code is wrong in that way.

### Downloader

A tree is a set of `<<file, archive>>` pairs, so a tree that mixes two archives or lacks
a file is visible. The variables `dest`, `partial` and `backup` are the three paths;
`fetch` is the point a call has reached; `got` the archive it downloads, `todo` the files
not yet extracted or removed, `haveBackup` the local of that name. `before` is
a history variable: the last known-good entry when the call began. `Entry` is the
refinement mapping: what is at `dest`, or else the backup.

The actions follow `Fetch` (download.go:32-127) call by call: `MkdirParent`,
`RemovePartial`, `LstatDest`, `RemoveBackup`, `LstatBackup`, `RestoreBackup`, `GetStart`,
`Extract` (one file at a time), `GetDone`, `LstatOld`, `Park`, `Publish`, `Rollback`, the
removals after success and after failure, and `FetchReturn`. `os.RemoveAll` takes a tree
away file by file and may stop half way. `FsError` (via `OnError`) fails any call;
`FetchCrash` ends the process at any step: the disk stays, the locals go. `MaxFaults`
bounds how many errors and crashes there are in a behaviour; the proofs hold for every
value of it.

`SharedCacheDir` puts two instances of it on the same three paths, with locals of their own.
`Overlap` says whether a call may begin while the other one is under way. `alone1` and `alone2`
are history variables: the other one has made no step since this call began.

### ModuleServer

`mode` is the kind of request (a registry module or a remote go-getter source), `mu` the
mutex, `memo` the map `moduleCache`, and for each goroutine `pc`, the operation `op`, the
reported `status` and the `answer` under construction. An answer names the directory and the archive
that its parts were read from (`tf` for `tfconfig.LoadModule`, `diags` for the diagnostics
it returns, `eph` for the separate scan for ephemeral variables) or, for `ListSubmodules`, the
directories found.
`Lookup` (under the read lock, `mu = Free`), `Lock`, `Check`, `Resolve`, `Callback`,
`FetchStep`, `Fetched`, `Stat`, `LoadModule`, `ephemeralVariables`, `Store`,
`listSubmoduleDirs` and `Return` are the steps of schema.go:43-209 and
server.go:288-377; the steps from `Stat` to `ephemeralVariables` run without the mutex. `Crash` ends the
process: memo and locals go, the disk stays.
`Forced` is `WithForceFetch`. A read lock that is taken and given back inside one step is
a guard of that step.

Every reading of the disk may fail, `MaxReadErrors` times in a behaviour (`ErrorIf`), with the
consequence it has in the code:

| Reading | When it fails |
|---|---|
| `Check`: `os.ReadDir` in `cacheDirExistsNonEmpty` (cache.go:179-182) | the entry counts as missing: it is parked and downloaded again |
| `Stat`: `statDir` (inspect.go, fsutil.go) | the call fails (`uninspected`) |
| `LoadModule`: `tfconfig.LoadModule` | part of the configuration, with diagnostics |
| `ephemeralVariables` (ephemeral.go:26-92) | part of the variables, and nobody is told |
| `listSubmoduleDirs` (inspect.go:169-189) | the call fails if `modules/` cannot be read; a submodule that `tfconfig.IsModuleDir` cannot read is left out |

`unfetched` is a call that failed for want of the module (registry or `Fetch`), `uninspected`
one that failed to inspect it. Three history variables: `misread`, an entry that is there has
been taken for missing; `unread`, that happened to the holder of the mutex; `own`, the archive a
call downloaded, for as long as no other `Fetch` has touched the entry.

`ModuleStore` is the same Server seen from outside. A call is asked, then answered or failed,
then returned; `Fill` happens once. `Gives(m, o, a)` says which answers a module gives to an
operation: those parts of it that could be read, all of the configuration unless the
diagnostics say otherwise. A call may be `Unfetched` only while the store is empty, and
`Uninspected` only once it is not. `Misread` makes the store `blind`: from then on it may
be filled again, and all it promises is that it holds a whole module or none. The refinement
mapping of `ActsAsStore` takes `dest` for the store's `entry`, `misread` for `blind`,
`Progress(p)` for the state of a call, and shows an answer when it is returned.
`AnswersConsistent` compares the calls that are returned at one instant; `ActsAsStore` relates
all answers of a behaviour, across restarts too.

### CustomRegistry

A `LazyCustom` is named by the goroutine that constructed it, so a second
construction is visible. `once` and `outcome` are its `sync.Once` and its error;
`told` is what a caller learned last; `asked` counts discoveries. `Find` and `Create` are
the two looks of double-checked locking in server.go:172-204; `Enter`, `Discover` and
`Answered` are lazy_custom.go:89-141. The mutex is held across `ResolveDownload` (stage
"download") and not across `ListVersions`, as in the code. `MemoHit`, `DiskHit` and
`DiskMiss` are the ways in which a call of `GetModule` needs the registry or not.

### RegistryClient

`options` is the configuration: the input of `WithCustomRegistry` or of `NewCustom`
(`kind`), `WithBearerToken`, `WithBearerHost`, `WithBaseURL`, and whether the
`http.Client` has a `CheckRedirect`. `Configure` looks up the token (environment, then files,
with the port before without); a token is named by where it was found. `Ask` begins a
request, by discovery if the endpoint is not known; `Send` is `RoundTrip` and decides
about the header; `Redirect`, `Discovered` and `Answered` are what the other side may do:
redirect anywhere, advertise any URL, answer or fail. A host is a name and a port,
"" for none; paths and letter case are abstracted. `Located` is the answer to
`resolveDownload` (http.go:97-162): the location is in the header, in the body or in both,
absolute, relative or missing; `preferHeader` (set for the public registry of Terraform) says
which of the two is taken first, and `location` is what the caller is told. An absolute
location is modelled by the host it names, a path by `Relative`, and `//host/path` by a member of
`NetworkPaths`: it begins with `/`, so http.go:149 takes it as relative, but it resolves to the
host it names, with the scheme of the endpoint.

### VersionResolution

A version is an element of `Versions` with a `Precedence`; different versions may have
the same precedence, as `1.0.0` and `1.0.0+build` have. `entries` is the answer of the
registry (any order, junk included), `available` what `listVersions` makes of it. `Sort` picks
any order that is ascending (`sort.Sort` is not stable), `Scan` goes down from
the end as `GetLatestVersionMatch` does. `published` only grows. `last` is a history
variable: what the same request was resolved to before.

### CommandLine, CacheLayout, Sources, SubmodulePaths

`CommandLine` is sequential: one process runs at a time, and a process makes one call after
the other. What it adds to `ModuleServer` is variety: many modules, registries, sources and
spellings, where `ModuleServer` has many goroutines and one module. `Order` says which
steps a command takes, and in which order: `schemaCommand` (all commands that inspect a module)
creates the Server before it validates the flags, `submoduleCommand` and `versionCommand` after
it. `libraryProgram` stands for a program that gives a Server the request as it likes. The steps are
`noSource` (main.go:588-594), `Validate` (main.go:144-236), `newServer` (main.go:293-326),
`Submodule` (main.go:277-291), then those of a call: `ReceiveSource` and `ReceiveRegistry`
(normalise, registryFor and the version, schema.go and server.go), `Lookup`, `FetchLocal` and
`FetchRemote`, `Inspect`. `CallAgain` is the next call to the same Server, `Exit` the end of
the process, `Edit` a change to the local directory at any time. `disk` maps a directory to
what was downloaded to it, `memo` a key to what was answered, `seen` is a history variable:
the states the local directory has had since the call began.

Strings are members of `Strings`, and what the code does to them is given by functions:
`TrimSpace`, `ToLower`, `Underscored` (separators replaced) and `Digest` (the truncated
SHA-256), with the assumptions that the layout needs of them; `Shape` says what the regular
expressions and prefixes of `source.go` find in a source. Paths of submodules are sequences
of components, cleaned as `path.Clean` does. `Walk` and `Within` are not translated from the
code: they are the reference that `resolveSubmodulePath` is judged by.

## 3. The runs

| Run | Question | Bounds, and why they are enough |
|---|---|---|
| `download` | Is the entry ever torn or lost, does a call tell the truth, does it serve the old entry while downloading, does a parked entry come back? | Two files, two archives of which the second lacks a file: mixtures and leftovers are visible. Three faults: one to leave a backup, one to hit the recovery, one to hit the rollback. |
| `shared_after` | Two downloaders that overlap in every way and ruin what is there: does a call that is no longer disturbed tell the truth? | One error or crash besides the wreckage that the overlap makes: mixed entries, half-removed backups, a partial that is being filled. 3.0 million states. |
| `shared_at_once` (finding) | Two downloaders that overlap. | No fault is needed. |
| `server` | Consistent answers, memo against disk, directory there, one download, and all of it a store that answers in one step. | Two goroutines, a module with one submodule that the second archive no longer has, both request modes; one fault, which occurs inside `Fetch`, and one reading of the disk that fails, at any of the five places; `Resolve` fails, and the process dies outside `Fetch`, as often as it likes. Two goroutines suffice for every pairwise race; the proofs cover any number and any bounds. 1.3 million states. |
| `server_returns` | Do calls return, whatever fails? Does a call that downloaded answer from its download? | As `server`, under fairness; liveness is costly, hence a module of one directory. An entry that could not be read is replaced while another goroutine inspects it, so `OwnDownload` meets what it is about. Forced fetches, which make that happen at every call, are covered by the theorems `ServerAnswersFromOwn` and `MutexIsGivenBack`. |
| `force_at_once` (finding) | Is the directory there that a forcing Server handed out, with two goroutines? | No fault and no read error is needed. |
| `custom_registry` | One registry, one discovery, one outcome, nobody waits for ever. | Three goroutines: one resolving with the mutex, one without, one waiting. |
| `registry_client` | Token order and scope, and the end of requests, through discovery and redirects. | Two names, ports "", 443 and 8443: default port spelled out or not, on either side; two credentials files; eight configurations; a limit of three requests instead of net/http's ten; two hosts sharing a variable name; locations absolute, relative, with a host alone, or missing, in header and body. |
| `redirects_end` (finding) | Do all requests end? | A loop of one redirect. |
| `versions` | Highest match, truthful "no match", never back. | Three versions, two of equal precedence and one prerelease; answers of up to four entries, duplicates and junk included. |
| `versions_latest` (finding) | Is the latest version stable? | As above. |
| `command_line` | Does the tool panic, drop a token, or pass on what the Server turns down? Does a call get the module it asked for, inside its directory, and fresh if local? | One entry on disk at a time and two calls of a process: a wrong hit needs one entry, made by an earlier process or call. Invocations in five slices: blanks, sources and names for validation; registry, URL and token; spellings that share a directory; all paths of up to three components out of `.`, `..`, `..x` and a name; every shape of source. Two states of the local directory. |

The bounds are constants: `MaxFaults` (errors and crashes of `Fetch` in a behaviour),
`MaxReadErrors` (readings of the disk by a Server that fail), `MaxEntries`
(length of a list of versions), `MaxRequests` and `OwnLimit` (limits of redirects), `NFiles`
(credentials files), `MaxCached` (entries on disk) and `MaxCalls` (further calls of a process).

Deadlock is checked in every run.

### Findings

- `shared_at_once`: two downloaders on one directory stage in the same `.partial`;
  one can publish what the other has emptied or is still filling, against README.md:370-372.
- `force_at_once`: with `WithForceFetch(true)`, one goroutine renames away the
  directory that another one was handed and is about to read. The run shows two calls of
  `ListSubmodules` in source mode (schema.go:60-64); `getModule` does likewise
  (schema.go:137-147).
- `redirects_end`: `applyBearer` installs a `CheckRedirect`; net/http then no longer stops
  after ten requests. With a token, a redirect loop never ends, unless the caller's client
  or context limits it, and `fetchModule` waits with the mutex held.
- `versions_latest`: an empty version resolves to a prerelease if that is the highest
  version listed; README.md:244 says "latest stable".

Noted while reading, with no run of their own: a Server that forces fetches still
answers from its memo (schema.go:130; README.md:130 says "always re-download"); a memo hit
reports nothing to the status callback (README.md:132-133 "after each resolution");
`GetAvailableVersions` keeps the order of the registry (README.md:125 "Sorted"); the status
callback runs with the mutex held (server.go:307), so it must not call the Server; the memo
hands one `*Module` to all callers (schema.go:131), so they must not change it.

Readings of the disk that fail, likewise:

- A cache directory that cannot be read counts as a miss (cache.go:179-182). A Server that does
  not force fetches then parks an entry that is there, although server.go:285-287 has handed it
  to other callers, who may be reading it. The properties of `server` hold until then (`misread`).
- The ephemeral variables that could not be read are missing from an answer without a word
  (ephemeral.go:28-31, 64-68, 100-108), and the answer is memoised (schema.go:152), so that
  later calls do not notice either. A list of submodules is not memoised, but may be incomplete
  in the same way.

The command line and the cache, likewise:

- Validation looks at trimmed flags, `requestFromCmd` passes on the flags as they are. A
  `--source` of blanks is validated as absent but makes the request one for a source; a
  version with blanks passes next to a source and is then turned down by the Server.
  `ValidationSuffices` therefore speaks of flags without blanks.
- `--submodule ..name` is accepted by the tool and turned down by the Server, whose test
  is for the prefix `..`.
- `cache.go:149-150` says that registries on different ports do not collide; `h:8443` and
  `h_8443` share a directory all the same, as do names that differ in blanks around them.
  The comment there also speaks of the host of the input, the code uses `EndpointKey`.
  `Lookalike` says exactly which modules share one, and `SameDirectory` that no others do.
- The entry of version `1.0.0-rc.partial` is the staging path of version `1.0.0-rc`.
- http.go:94-95 says "prefer the body"; the client for Terraform's registry prefers the header.
- A location `//host/path` passes for a relative one at http.go:149 and is resolved, not to a path
  of the registry, but to that other host.

### Fairness

Liveness assumes what the runtime gives, and that the world outside answers or fails some
time: the registry (`Resolve`), the discovery host (`Discover`), go-getter and the file system
(`FetchStep`, the steps of `Fetch`). The code sets no time limit of its own, so this rests on the
caller's context and `http.Client`; the finding `redirects_end` shows that a registry need
not come to an end. In detail:

- `Downloader`: the goroutine in `Fetch` keeps running (weak fairness of its
  steps). `ParkedComesBack` adds, as a hypothesis of its own, that `Fetch` keeps being called.
- `ModuleServer`, `CustomRegistry`: a goroutine that can take a step takes it (weak
  fairness of `Moving(p)`). Waiting for `sync.RWMutex` or `sync.Once` is strongly fair
  (`Waiting(p)`): a waiting writer stops new readers, and a waiter is not passed over for
  ever. No caller is obliged to call.
- `RegistryClient`: every request is answered or redirected (weak fairness of `Work`).
  Nothing obliges the other side to stop redirecting.

## 4. The proofs

For every value of the constants, under the named assumptions of the modules
(sentinels are not members of the sets they stand apart from, an archive of
`ModuleServer` has at least one file, two sources do not have the same digest):

| Theorem | Says | Argument |
|---|---|---|
| `FetchTypeCorrect`, `FetchNeverTears`, `FetchTellsOutcome`, `FetchServesWhileDownloading` | the invariants of `download` | `IInv` of `DownloaderProofs` |
| `FetchKeepsLastGood` | `Downloader` implements `CacheEntry` | the same invariant; every step replaces `Entry` by a whole archive (`Publish`) or leaves it alone |
| `ServerFetches` | a Server, whatever its goroutines do, drives `Fetch` as `FetchSpec` says | every step of `ServerNext` is a step of `FetchNext` or leaves its variables alone |
| `UndisturbedTellTheTruth` | what `shared_after` checks: however two downloaders overlap, a call during which the other one makes no step tells the truth | `AloneInv`: what a call builds up by itself (`CallInv` of `DownloaderProofs`) asks nothing of the paths it finds |
| `ApartNeverHalfPopulated`, `SharedEntryKept` | while downloaders do not overlap, the property that `shared_at_once` refutes holds, and together they implement `CacheEntry`, whatever faults they meet | the invariant of `DownloaderProofs` for both instances, and that one of them is idle |
| `ServerTypeCorrect`, `ServerKeepsLastGood` | types; the Server implements `CacheEntry`, forcing or not | `SInv`; `ServerFetches` and `FetchKeepsLastGood` |
| `ServerAnswersConsistently`, `ServerRemembersDisk`, `ServerKeepsAvailable`, `ServerDownloadsOnce` | what `server` checks, for a Server that does not force fetches: until it has taken an entry for missing that it could not read, but for the last, which holds at any time of the calls that could read it | `SInv`; `LookInv` for the last |
| `ServerActsAsStore` | a Server that does not force fetches implements `ModuleStore`, for any number of goroutines | `SInv`; every step answers, fails or returns one call as the store does, fills the store (`Publish`), makes it blind (`Check`), restarts it, or is not seen; once it is blind, `NeverTorn` is enough |
| `MutexIsGivenBack` | whoever holds the mutex is at work and waits for nobody, whatever fails | `LockInv`, and that the callback runs after the look at the disk or the registry |
| `ServerAnswersFromOwn` | what `server_returns` checks of `OwnDownload`, for any number of goroutines, forcing or not, whatever cannot be read | `OwnInv` on top of `SInv` |
| `ServerKeepsAvailableAlone` | the property that `force_at_once` refutes holds with one goroutine, forcing or not | `AloneInv` on top of `SInv` |
| `TypeCorrect`, `RegistryIsOne`, `DiscoveryIsOne`, `OutcomeIsOne` | what `custom_registry` checks | `IInv` of `CustomRegistryProofs` |
| `NobodyWaitsInACycle` | when a goroutine waits for the mutex or in the `sync.Once`, another one is under way that waits for nobody | `WaitInv` on top of `IInv` |
| `ClientTypeCorrect`, `TokensReachOwners`, `TokensInOrder` | what `registry_client` checks | `IInv` of `RegistryClientProofs`, and two lemmas about `hostsMatch` and the lookup |
| `ResolutionTypeCorrect`, `ChoosesHighest`, `MissesNothing`, `ResolvesForward` | what `versions` checks | `IInv` of `VersionResolutionProofs` |
| `CommandTypeCorrect`, `ToolNeverPanics`, `TokenReachesRegistry`, `ValidationIsEnough`, `RightModuleServed`, `ToolStaysInside`, `LocalStaysFresh` | what `command_line` checks, for any set of invocations, strings and registries and any number of entries and calls | `IInv` of `CommandLineProofs`, and `StaysWithin` |
| `ExactModuleServed` | under `Tidy` (no blanks around names, sanitized hosts stay apart) a call is answered from exactly the module and the version it asked for | `TidyInv` on top of `IInv`: no module that comes into the cache or the memo is a `Lookalike` of another one |
| `SameDirectory` | two modules share a directory exactly if they are `Lookalike`: never two sources, never a source and a module | by the first segment, then segment by segment |
| `NoEntryInsideAnother` | no directory of the cache lies inside another one | the first segment tells how many there are |
| `CleanTwice`, `CleanKeepsPlace`, `StaysWithin`, `CommandLineIsStricter` | for paths of any length: cleaning again changes nothing; a path that does not begin with `..` once cleaned leads where it led before, below the base; hence a path that `resolveSubmodulePath` accepts stays inside; the tool accepts less than the Server, but for names that begin with `..` | induction over the components, see below |

The invariants, and why the properties are not inductive without them:

- *Downloader*. That `dest` is never torn says nothing of the backup, which `RestoreBackup`
  and `Rollback` rename to `dest`. `DiskInv` adds that the backup is whole while `dest` is
  absent; `PointInv` says what each point may rely on (the partial is the whole archive from
  the end of the extraction on, the backup is gone before a download starts);
  `HistoryInv` that the entry does not change before the publish. `CallInv` and `ChosenInv` are the
  part of these that a call brings about by itself, on whatever paths it finds.
- *ModuleServer*. `LockInv`: the mutex is held by the goroutine that is between `Lock`
  and `Unlock`, and `Fetch` runs for it alone. `OpInv`: only `GetModule` and `GetSubmodule` take
  the path through the memo. The rest holds without forced fetches and until an entry is misread.
  `DestInv`: the entry is only downloaded when there is none, so what a goroutine reads
  without the mutex cannot change under it. `ReadInv` and `ReturnInv` (of each goroutine, in
  `AnswerInv`) and `MemoInv`: what is half read, returned or remembered is what the disk gives.
  Two invariants survive a misread: `LookInv`, who goes on to download found no entry or could not
  read it, and, with forced fetches too, `OwnInv`, whoever has `own` reads that archive.
- *CustomRegistry*. Past `registryFor` a goroutine holds a registry (part of `TypeOK`). `OnceInv`: only
  the registered one is ever resolved, by one goroutine. `AskedInv` and `ToldInv` tie the
  counter and what was told to its `sync.Once`. `WaitInv`: a mutex that is held has a holder
  between `Lock` and `Unlock`, which asks for a download and never for versions, and a
  `sync.Once` that runs has a goroutine that runs it. A goroutine that holds the mutex may
  wait for the `sync.Once`, but who runs that waits for nothing, so there is no cycle.
- *RegistryClient*. `StageInv`: nothing is in flight between requests, and no registry
  request before there is an endpoint. `TokenInv`: the token is one for the host of the
  input, and what is in flight carries it only if `shouldAuth` says so.
  `HostsMatchIsSamePort` shows that the case analysis of `hostsMatch` amounts to: same
  name, same port under the scheme of the request.
- *SharedCacheDir*. While one downloader is idle, the steps of the other one are those of a
  single `Downloader` that finds the paths as they are, so both satisfy the invariant of
  `DownloaderProofs`, which says what a call may find; without `Overlap` one of them is idle. With
  it neither invariant survives; `AloneInv` is what remains of a call that is alone.
- *CommandLine*. `FlagsInv` and `ServerInv`: how far a command has come in its order, and that
  its Server was made of its flags. `ValidInv`: no Server is asked before the flags are
  validated, which is what `NeverPanics` does not need (the URL is checked where the Server
  is created) and `ValidationSuffices` does. `DiskInv`: every directory holds what belongs
  there, across processes. `MemoInv`: every entry of the memo is a `Lookalike` of its key; it
  cannot be more, because it was read from the disk. `AnswerInv` and `RequestInv` carry
  this to the answer, and say that the local directory has been watched since the call began.
  `PathInv`: a path is remembered, or answered, only after it was accepted, with the directory
  it leads to; a hit in the memo is judged by no one else. `TidyInv` is an invariant under a
  hypothesis about names, not about states: it is what `RightModule` is weaker by.
- *SubmodulePaths*. `Clean` and `Walk` are recursive functions of the components. The library's
  induction theorem takes an operator as a parameter, which the provers cannot instantiate;
  `Induction` is stated about a *set* of numbers instead, and proved from the library's fact that
  finite sets are well-founded under strict inclusion. `BoundedRecursion` then shows that a
  function defined by recursion over `0..n` satisfies its equations. The invariant of the walk
  (`StacksFollowStops`): as long as no `..` remains at the bottom of the stack of names, the
  system is in the base directory followed by that stack. It is stronger than
  `CleanKeepsPlace`, which only speaks of the last component, and it needs that a stack, once it
  leads up, leads up for good (`PushKeepsLeadsUp`).
- *VersionResolution*. `ParseInv`: what has been parsed is what has been listed so far, less
  junk. `SortedInv`: while scanning, everything above the index has been turned down.
  `HistoryInv`: an earlier result is published, hence listed again, hence on offer.

### Only model-checked

Liveness (`ParkedComesBack`, `CallsReturn`, `NobodyWaitsForEver`, `LimitedRequestsEnd`) is out of the
prover's reach, as is what it would rest on, that a step is enabled: `MutexIsGivenBack` and
`NobodyWaitsInACycle` name the points a goroutine waits at instead, and that nobody is passed
over for ever stays with TLC. Every safety invariant and action property of the runs is
proved. The findings are counterexamples: there is nothing to prove about them, but for the
theorems that say under which restriction the refuted property holds
(`ApartNeverHalfPopulated`, `ServerKeepsAvailableAlone`).

## 5. What is not modelled, and why

- go-getter, terraform-config-inspect (`LoadModule`, `IsModuleDir`), the file system, net/http,
  go-version and `sort.Sort` are modelled from how the code uses them.
- Symbolic links: `Contained` is about paths, as `resolveSubmodulePath` judges them, and says nothing
  of where a link inside a downloaded module leads.
- Which files parse: one that does not is, for an answer, one that could not be read.
- The mapping from parsed Terraform files to the result types, and the printing of results
  (`--quiet`, JSON, the argument that names a variable, output or provider): conversion of data
  without state.
- The syntax of URLs, hosts, discovery documents and JSON: accepted or not. IPv6 literals and
  letter case of hosts are folded away in `RegistryClient`; in `CommandLine` the key of an
  endpoint is a constant.
- Cancelled contexts are errors of whatever was being waited for; that waiting for the mutex
  cannot be cancelled is in the model as it is in the code.
- Registries injected with `WithRegistry`, and what `registryHostFor` falls back to for them.
- `--cache-dir` and the choice of the default directory: there is one cache directory.
- Archives without any file, which are downloaded again at every call.
- The rules for paths on Windows: `SubmodulePaths` is `path/filepath` on a Unix system.
- Several modules *concurrently* behind one mutex. `ModuleServer` has one module and many
  goroutines, `CommandLine` many modules and one call at a time. What connects them is proved:
  distinct directories do not lie inside each other (`NoEntryInsideAnother`), so calls for
  different modules touch disjoint trees, but for the `.partial` and `.backup` names above.

## 6. Plan

Done, in this order: Downloader and its refinement of `CacheEntry`; the Server on top of
it; two downloaders; the custom registry; version resolution; the registry client; the
layout of the cache, sources, submodule paths and the command line; `resolveDownload`; the
proofs for two downloaders and for the command line; the Server as a `ModuleStore`; paths of any
length; readings of the disk that fail. What could follow:

1. Composition: `CustomRegistry` with its discovery replaced by that of `RegistryClient`.
2. `ModuleServer` with two modules behind one mutex, implementing one `ModuleStore` each.
