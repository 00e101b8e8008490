------------------------------ MODULE CommandLine ------------------------------
(***************************************************************************)
(* Processes that use one cache directory, one after the other: runs of    *)
(* the command-line tool (cmd/tfmoduleschema/main.go), and programs that   *)
(* call a Server themselves ("library").  What is modelled is which        *)
(* request the flags become, what is turned down where, under which        *)
(* directory and key the module is kept, and what is inspected.            *)
(*                                                                         *)
(* "schema" stands for every command that inspects a module (module,       *)
(* variable, output, provider), "submodules" for submodule list,           *)
(* "versions" for version list.  Letter case of --registry is folded.      *)
(* A download is one step here (see Downloader), and so is the resolution  *)
(* of a version (see VersionResolution).                                   *)
(***************************************************************************)
EXTENDS CacheLayout, Sources, SubmodulePaths, FiniteSets

CONSTANTS
  Flags,              \* the invocations considered
  Unset,              \* --registry-token is not given
  None,
  Inputs,             \* what DiscoverModulesEndpointInputCheck accepts
  EndpointKey,        \* of a registry, by its input: host, or host and hash
  Forbidden,          \* strings with '/', '\', ':' or NUL
  Concrete,           \* what goversion.NewVersion parses
  Published,          \* versions a registry may resolve to
  Trees,              \* states of the local directory that sources name
  Base,               \* the directory a module is inspected in
  MaxCached, MaxCalls \* bounds: entries on disk, calls of one process

Commands == {"schema", "submodules", "versions", "library"}

FlagSets ==
  [command : Commands, source : Given, namespace : Strings, name : Strings,
   system : Strings, version : Strings, submodule : Paths,
   registry : Registries \cup {"other"}, url : Strings, token : Strings \cup {Unset},
   env : Strings, force : BOOLEAN]

ASSUME FlagsAssumption == Flags \subseteq FlagSets /\ Unset \notin Strings
\* The custom registry of a Server: its input, Empty for none, and its explicit token.
Servers == [url : Inputs \cup {Empty}, token : Strings]

ASSUME NoneAssumption  == None \notin FlagSets /\ None \notin Servers /\ None \notin Requests
ASSUME GivenAssumption == Empty \in Given /\ Given \subseteq Strings
ASSUME InputsAssumption ==
  /\ Inputs \subseteq Strings \ {Empty}
  /\ EndpointKey \in [Inputs -> Strings \ {Empty}]
\* WithCustomRegistry panics on malformed input: a program checks first.
ASSUME ProgramsAssumption ==
  \A f \in Flags : f.command = "library" => f.url \in Inputs \cup {Empty}
ASSUME VersionsAssumption ==
  /\ Concrete \subseteq Strings \ {Empty} /\ Published \subseteq Concrete
  /\ \A v \in Concrete : TrimSpace[v] = v
ASSUME BaseAssumption == Base \in Seq(Components)
ASSUME BoundsAssumption ==
  Forbidden \subseteq Strings /\ MaxCached \in Nat /\ MaxCalls \in Nat

VARIABLES
  flags,      \* of the process that runs, None if none does
  stage,      \* what it does next, or how it ended
  server,     \* its Server: the custom registry's input and explicit token
  sub,        \* the path GetSubmodule is called with
  req,        \* the request, once it is validated and its version resolved
  answer,     \* the module inspected, where, and in which state of the tree
  memo,       \* Server.moduleCache
  calls,      \* how many calls the process has made before this one
  disk,       \* the cache directory: what was downloaded to which directory
  tree,       \* the state of the local directory
  seen        \* the states it has had since the call began

vars == <<flags, stage, server, sub, req, answer, memo, calls, disk, tree, seen>>

Init ==
  /\ flags = None /\ stage = "off" /\ server = None /\ sub = Root
  /\ req = None /\ answer = None /\ calls = 0
  /\ memo = <<>> /\ disk = <<>>
  /\ tree \in Trees /\ seen = {}

\* f with e at k.
With(f, k, e) == [x \in DOMAIN f \cup {k} |-> IF x = k THEN e ELSE f[x]]

-------------------------------------------------------------------------------

\* What each command does in which order: "module schema" and all that look at the
\* module it loads; "submodule list"; "version list"; a program that uses the library.
schemaCommand    == [start |-> "newServer", newServer |-> "validate",
                     validate |-> "submodule", submodule |-> "call"]
submoduleCommand == [start |-> "validate", validate |-> "newServer", newServer |-> "call"]
versionCommand   == [start |-> "noSource", noSource |-> "validate",
                     validate |-> "newServer", newServer |-> "call"]
libraryProgram   == [start |-> "newServer", newServer |-> "call"]

Order ==
  [schema   |-> schemaCommand,  submodules |-> submoduleCommand,
   versions |-> versionCommand, library    |-> libraryProgram]

Following == Order[flags.command][stage]

Begin(f) ==
  /\ flags' = f
  /\ sub' = IF f.command = "library" THEN f.submodule ELSE Root
  /\ req' = None /\ answer' = None /\ seen' = {}

Start ==
  /\ stage = "off"
  /\ \E f \in Flags : Begin(f) /\ stage' = Order[f.command].start
  /\ UNCHANGED <<server, memo, calls, disk, tree>>

\* A program calls its Server again.
CallAgain ==
  /\ stage \in {"done", "failed", "rejected"} /\ flags.command = "library"
  /\ calls < MaxCalls
  /\ \E f \in Flags :
       /\ f.command = "library" /\ f.url = flags.url /\ f.force = flags.force
       /\ Begin(f)
  /\ stage' = "call" /\ calls' = calls + 1
  /\ UNCHANGED <<server, memo, disk, tree>>

\* The process ends, or dies at any point: the disk is left.
Exit ==
  /\ stage # "off" /\ stage' = "off"
  /\ flags' = None /\ server' = None /\ sub' = Root /\ req' = None
  /\ answer' = None /\ memo' = <<>> /\ calls' = 0 /\ seen' = {}
  /\ UNCHANGED <<disk, tree>>

noSource ==
  /\ stage = "noSource"
  /\ stage' = IF TrimSpace[flags.source] = Empty THEN Following ELSE "refused"
  /\ UNCHANGED <<flags, server, sub, req, answer, memo, calls, disk, tree, seen>>

\* cmd.String("registry-token"): the flag, else the environment.
registryToken(f) == IF f.token = Unset THEN f.env ELSE f.token

\* A URL forces the custom registry.
registryTypeFromCmd(f) ==
  IF TrimSpace[f.url] # Empty THEN "custom" ELSE normalizedRegistryType(f.registry)

\* The token was typed, it is not the one of the environment.
TypedToken(f) ==
  TrimSpace[registryToken(f)] \notin {Empty, TrimSpace[f.env]}

\* Variant: a token without a registry to use it for is dropped.
dropsToken(f) ==
  IF TrimSpace[f.source] # Empty
    THEN /\ \A s \in {f.namespace, f.name, f.system, f.url} : TrimSpace[s] = Empty
         /\ TrimSpace[f.version] \in Concrete \cup {Empty}
    ELSE /\ \A s \in {f.namespace, f.name, f.system} : TrimSpace[s] # Empty
         /\ registryTypeFromCmd(f) = "custom" => TrimSpace[f.url] \in Inputs

\* Variant: a registry may be named next to a source.
sourceWithRegistry(f) ==
  IF TrimSpace[f.source] # Empty
    THEN /\ \A s \in {f.namespace, f.name, f.system} : TrimSpace[s] = Empty
         /\ TrimSpace[f.version] \in Concrete \cup {Empty}
    ELSE /\ \A s \in {f.namespace, f.name, f.system} : TrimSpace[s] # Empty
         /\ registryTypeFromCmd(f) = "custom" => TrimSpace[f.url] \in Inputs
         /\ TypedToken(f) => TrimSpace[f.url] # Empty

validateRequestFlags(f) ==
  IF TrimSpace[f.source] # Empty
    THEN /\ \A s \in {f.namespace, f.name, f.system, f.url} : TrimSpace[s] = Empty
         /\ TrimSpace[f.version] \in Concrete \cup {Empty}
    ELSE /\ \A s \in {f.namespace, f.name, f.system} : TrimSpace[s] # Empty
         /\ registryTypeFromCmd(f) = "custom" => TrimSpace[f.url] \in Inputs
         /\ TypedToken(f) => TrimSpace[f.url] # Empty

Validate ==
  /\ stage = "validate"
  /\ stage' = IF validateRequestFlags(flags) THEN Following ELSE "refused"
  /\ UNCHANGED <<flags, server, sub, req, answer, memo, calls, disk, tree, seen>>

WithCustomRegistry(input, token) ==
  /\ server' = IF input \in Inputs THEN [url |-> input, token |-> token] ELSE server
  /\ stage' = IF input \in Inputs THEN Following ELSE "panicked"

NoRegistry == server' = [url |-> Empty, token |-> Empty] /\ stage' = Following

\* Variant: the shape of the URL is left to validateRequestFlags.
newServerUnchecked ==
  /\ stage = "newServer" /\ flags.command # "library"
  /\ LET url == TrimSpace[flags.url] IN
       \/ url = Empty /\ NoRegistry
       \/ url # Empty /\ WithCustomRegistry(url, TrimSpace[registryToken(flags)])
  /\ UNCHANGED <<flags, sub, req, answer, memo, calls, disk, tree, seen>>

\* The commands that inspect a module come here before their flags are validated.
newServer ==
  /\ stage = "newServer" /\ flags.command # "library"
  /\ LET url == TrimSpace[flags.url] IN
       \/ url = Empty /\ NoRegistry
       \/ url \notin Inputs \cup {Empty} /\ stage' = "refused" /\ UNCHANGED server
       \/ url \in Inputs /\ WithCustomRegistry(url, TrimSpace[registryToken(flags)])
  /\ UNCHANGED <<flags, sub, req, answer, memo, calls, disk, tree, seen>>

NewServer ==
  /\ stage = "newServer" /\ flags.command = "library"
  /\ \/ flags.url = Empty /\ NoRegistry
     \/ flags.url # Empty /\ WithCustomRegistry(flags.url, registryToken(flags))
  /\ UNCHANGED <<flags, sub, req, answer, memo, calls, disk, tree, seen>>

Submodule ==
  /\ stage = "submodule"
  /\ \/ /\ flags.submodule = Root
        /\ stage' = Following /\ UNCHANGED sub
     \/ /\ flags.submodule # Root /\ submoduleFromCmd(flags.submodule)
        /\ sub' = [kind |-> "relative", parts |-> Clean(flags.submodule.parts)]
        /\ stage' = Following
     \/ /\ flags.submodule # Root /\ ~submoduleFromCmd(flags.submodule)
        /\ stage' = "refused" /\ UNCHANGED sub
  /\ UNCHANGED <<flags, server, req, answer, memo, calls, disk, tree, seen>>

-------------------------------------------------------------------------------

\* The flags as they are, blanks included.  The list of versions knows no source.
requestFromCmd(f) ==
  [source    |-> IF f.command = "versions" THEN Empty ELSE f.source,
   registry  |-> IF f.command = "library" THEN normalizedRegistryType(f.registry)
                                          ELSE registryTypeFromCmd(f),
   namespace |-> f.namespace, name |-> f.name, system |-> f.system,
   version   |-> f.version]

validateSegment(value) == value \notin {Empty} \cup Dots \cup Forbidden

\* normalise and registryFor have no objection.
Servable(r) ==
  /\ \A s \in {r.namespace, r.name, r.system} : validateSegment(s)
  /\ r.registry = "custom" => server.url # Empty

registryHostFor(r) ==
  IF r.source = Empty /\ r.registry = "custom" THEN EndpointKey[server.url] ELSE Empty

InPlace(r) == r.source # Empty /\ isLocalSource(r.source)

GetAvailableVersions ==
  /\ stage = "call" /\ flags.command = "versions"
  /\ LET r == requestFromCmd(flags) IN
       \/ ~Servable(r) /\ stage' = "rejected"
       \/ Servable(r) /\ stage' \in {"done", "failed"}
  /\ UNCHANGED <<flags, server, sub, req, answer, memo, calls, disk, tree, seen>>

\* ListSubmodules does not look into the memo.
AfterResolution == IF flags.command = "submodules" THEN "fetch" ELSE "lookup"

\* Whatever is not empty is a source: one of blanks too.
ReceiveSource ==
  /\ stage = "call" /\ flags.command # "versions"
  /\ LET r == requestFromCmd(flags) IN
       /\ r.source # Empty
       /\ \/ r.version \notin Concrete \cup {Empty}
             /\ stage' = "rejected" /\ UNCHANGED req
          \/ r.version \in Concrete \cup {Empty}
             /\ stage' = AfterResolution /\ req' = r
       /\ seen' = IF InPlace(r) THEN {tree} ELSE {}
  /\ UNCHANGED <<flags, server, sub, answer, memo, calls, disk, tree>>

\* The request for the version its constraint is resolved to.
Resolved(r, v) == [r EXCEPT !.version = v]

ReceiveRegistry ==
  /\ stage = "call" /\ flags.command # "versions"
  /\ LET r == requestFromCmd(flags) IN
       /\ r.source = Empty
       /\ \/ ~Servable(r) /\ stage' = "rejected" /\ UNCHANGED req
          \/ Servable(r) /\ r.version \in Concrete
             /\ stage' = AfterResolution /\ req' = r
          \/ Servable(r) /\ r.version \notin Concrete
             /\ \/ stage' = "failed" /\ UNCHANGED req
                \/ \E v \in Published :
                     stage' = AfterResolution /\ req' = Resolved(r, v)
  /\ UNCHANGED <<flags, server, sub, answer, memo, calls, disk, tree, seen>>

\* Variant: local sources are remembered as well.
memoisedAll(r) == TRUE

\* Files on this machine are read again at every call.
memoised(r) == ~InPlace(r)

Key == moduleKey(req, registryHostFor(req), sub)

Lookup ==
  /\ stage = "lookup"
  /\ LET hit == memoised(req) /\ Key \in DOMAIN memo IN
       \/ hit /\ stage' = "done" /\ answer' = memo[Key]
       \/ ~hit /\ stage' = "fetch" /\ UNCHANGED answer
  /\ UNCHANGED <<flags, server, sub, req, memo, calls, disk, tree, seen>>

Dir == CacheDir(req, registryHostFor(req))

\* fetchSource for a path on this machine: neither cached nor reported.
FetchLocal ==
  /\ stage = "fetch" /\ InPlace(req)
  /\ \/ stage' = "failed"
     \/ localSourcePath(req.source) /\ stage' = "inspect"
  /\ UNCHANGED <<flags, server, sub, req, answer, memo, calls, disk, tree, seen>>

FetchRemote ==
  /\ stage = "fetch" /\ ~InPlace(req)
  /\ LET hit == ~flags.force /\ Dir \in DOMAIN disk IN
       \/ hit /\ stage' = "inspect" /\ UNCHANGED disk
       \/ ~hit /\ stage' = "failed" /\ UNCHANGED disk
       \/ /\ ~hit /\ stage' = "inspect"
          /\ Cardinality(DOMAIN disk \cup {Dir}) <= MaxCached
          /\ disk' = With(disk, Dir, Asked(req, registryHostFor(req)))
  /\ UNCHANGED <<flags, server, sub, req, answer, memo, calls, tree, seen>>

Found ==
  [module |-> IF InPlace(req) THEN Asked(req, Empty) ELSE disk[Dir],
   tree   |-> IF InPlace(req) THEN tree ELSE None,
   at     |-> Walk(Base, Clean(sub.parts))]

\* The path is resolved, the directory inspected, the result remembered.
Inspect ==
  /\ stage = "inspect"
  /\ \/ stage' = "failed" /\ UNCHANGED <<answer, memo>>
     \/ /\ resolveSubmodulePath(sub)
        /\ stage' = "done" /\ answer' = Found
        /\ memo' = IF memoised(req) /\ flags.command # "submodules"
                     THEN With(memo, Key, Found) ELSE memo
  /\ UNCHANGED <<flags, server, sub, req, calls, disk, tree, seen>>

\* Somebody edits the local directory, at any time.
Edit ==
  /\ tree' \in Trees \ {tree}
  /\ seen' = IF seen = {} THEN {} ELSE seen \cup {tree'}
  /\ UNCHANGED <<flags, stage, server, sub, req, answer, memo, calls, disk>>

Next ==
  \/ Start      \/ CallAgain \/ Exit      \/ noSource   \/ Validate
  \/ newServer  \/ NewServer \/ Submodule \/ GetAvailableVersions
  \/ ReceiveSource \/ ReceiveRegistry \/ Lookup
  \/ FetchLocal \/ FetchRemote \/ Inspect \/ Edit

Spec == Init /\ [][Next]_vars

-------------------------------------------------------------------------------

Modules == [source : Strings, registry : Registries \cup {"source"}, host : Strings,
            namespace : Strings, name : Strings, system : Strings, version : Strings]

\* Type invariant of the processes and of the cache directory.
CommandTypeOK ==
  /\ flags = None \/ flags \in FlagSets
  /\ stage \in {"off", "noSource", "validate", "newServer", "submodule", "call", "lookup",
                "fetch", "inspect", "done", "failed", "rejected", "refused", "panicked"}
  /\ server = None \/ server \in Servers
  /\ req = None \/ req \in Requests
  /\ answer = None \/ answer.module \in Modules
  /\ \A k \in DOMAIN memo : memo[k].module \in Modules
  /\ \A d \in DOMAIN disk : disk[d] \in Modules
  /\ calls \in 0..MaxCalls
  /\ tree \in Trees /\ seen \in SUBSET Trees

FromTool == flags # None /\ flags.command # "library"

\* Nothing a user types makes WithCustomRegistry panic, in whatever order a command
\* creates the Server and validates its flags (main.go:301-307: "this is the final
\* backstop").
NeverPanics == stage # "panicked"

\* A token typed on the command line is used for the registry that is asked, or the
\* invocation ends before any registry is asked (main.go:219-228: "silently dropping
\* it would be a security footgun").
TokenNotDropped ==
  FromTool /\ TypedToken(flags) /\ TrimSpace[flags.source] = Empty
           /\ stage \in {"call", "lookup", "fetch", "inspect", "done"} =>
    server.url # Empty /\ server.token = TrimSpace[registryToken(flags)]

WithoutBlanks(f) ==
  \A s \in {f.source, f.namespace, f.name, f.system, f.version} : TrimSpace[s] = s

\* Without blanks around them, flags that pass validation are never turned down by
\* the Server, except for a forbidden character in a name, and a source never goes
\* along with a registry (main.go:144-160).  With blanks they may be: validation
\* looks at trimmed flags, the request is made of the flags as they are.
ValidationSuffices ==
  FromTool /\ WithoutBlanks(flags) =>
    /\ stage = "rejected" =>
         \E s \in {flags.namespace, flags.name, flags.system} : ~validateSegment(s)
    /\ req # None /\ req.source # Empty =>
         /\ \A s \in {flags.namespace, flags.name, flags.system} : s = Empty
         /\ server.url = Empty

\* Whatever earlier processes and calls left on disk and in the memo, under whatever
\* flags, the module a call is answered from is the one it asked for, up to the
\* spellings that cachePathSegment makes the same (cache.go:142-157).
RightModule ==
  stage = "done" /\ answer # None =>
    Lookalike(answer.module, Asked(req, registryHostFor(req)))

\* The directory that is inspected is the one the path names, and it is inside the
\* module, whoever cleaned the path (inspect.go:192-194: "rejects paths that escape").
Contained ==
  stage = "done" /\ answer # None =>
    answer.at = Walk(Base, sub.parts) /\ Within(Base, answer.at)

\* A call for a local source never answers from a state of the directory that was
\* over when the call began (schema.go:177-181: "callers expect edits to be picked
\* up on the next call").
LocalIsFresh ==
  stage = "done" /\ answer # None /\ InPlace(req) => answer.tree \in seen
===============================================================================
