--------------------------- MODULE CommandLineProofs ---------------------------
(***************************************************************************)
(* For every set of invocations, of strings and of registries, and any     *)
(* number of entries and calls: what a call is answered from, and what     *)
(* becomes of the flags on the way.                                        *)
(***************************************************************************)
EXTENDS CommandLine, SubmodulePathsProofs

\* What Asked can be.
Exact == {m \in Modules :
            IF m.source = Empty
              THEN m.registry \in Registries
              ELSE /\ m.registry = "source" /\ m.host = Empty
                   /\ m.namespace = Empty /\ m.name = Empty
                   /\ m.system = Empty /\ m.version = Empty}

-------------------------------------------------------------------------------
(* The layout of the cache directory.                                      *)

\* No segment of a path is empty or leads up: the cache stays below its directory.
LEMMA SegmentIsAName ==
  ASSUME NEW s \in Strings
  PROVE  cachePathSegment(s) \in Strings \ ({Empty} \cup Dots)
BY StringsAssumption, TrimAssumption, UnderscoredAssumption DEF cachePathSegment

LEMMA ModuleDirsApart ==
  ASSUME NEW m \in Exact, NEW w \in Exact, m.source = Empty, w.source = Empty,
         cacheModuleDir(m, m.host) = cacheModuleDir(w, w.host)
  PROVE  Lookalike(m, w)
<1> DEFINE a == cacheModuleDir(m, m.host)
           b == cacheModuleDir(w, w.host)
<1>1. a[1] = m.registry /\ b[1] = w.registry
  BY DEF cacheModuleDir
<1>2. m.registry = w.registry
  BY <1>1
<1>3. CASE m.registry = "custom"
  BY <1>2, <1>3 DEF cacheModuleDir, Lookalike, Alike
<1>4. CASE m.registry # "custom"
  BY <1>2, <1>4 DEF cacheModuleDir, Lookalike, Alike
<1> QED BY <1>3, <1>4

LEMMA SourceDirsApart ==
  ASSUME NEW m \in Exact, NEW w \in Exact, m.source # Empty, w.source # Empty,
         cacheSourceDir(m.source) = cacheSourceDir(w.source)
  PROVE  m.source = w.source
<1>1. Digest[m.source] = Digest[w.source]
  BY DEF cacheSourceDir
<1>2. m.source \in Strings /\ w.source \in Strings
  BY DEF Exact, Modules
<1> QED BY <1>1, <1>2, DigestAssumption

LEMMA KindsApart ==
  ASSUME NEW m \in Exact, m.source = Empty, NEW s
  PROVE  cacheModuleDir(m, m.host) # cacheSourceDir(s)
<1>1. cacheModuleDir(m, m.host)[1] = m.registry
  BY DEF cacheModuleDir
<1>2. cacheSourceDir(s)[1] = "source"
  BY DEF cacheSourceDir
<1>3. m.registry # "source"
  BY DEF Exact, Registries, Public
<1> QED BY <1>1, <1>2, <1>3

\* The first segment of a directory says how many there are.
LEMMA FirstTellsDepth ==
  ASSUME NEW m \in Exact
  PROVE  LET d == CacheDir(m, m.host) IN
           /\ m.source # Empty => d[1] = "source" /\ Len(d) = 2
           /\ m.source = Empty => d[1] = m.registry
           /\ m.source = Empty /\ m.registry = "custom" => Len(d) = 6
           /\ m.source = Empty /\ m.registry # "custom" => Len(d) = 5
BY DEF CacheDir, cacheModuleDir, cacheSourceDir

\* No directory that is downloaded to lies inside another one: replacing an entry as a
\* whole, as Fetch does (download.go:88-101), takes no other entry away.
THEOREM NoEntryInsideAnother ==
  ASSUME NEW m \in Exact, NEW w \in Exact,
         Within(CacheDir(m, m.host), CacheDir(w, w.host))
  PROVE  CacheDir(m, m.host) = CacheDir(w, w.host)
<1> DEFINE a == CacheDir(m, m.host)
           b == CacheDir(w, w.host)
<1>1. /\ m.source # Empty => a[1] = "source" /\ Len(a) = 2
      /\ m.source = Empty => a[1] = m.registry
      /\ m.source = Empty /\ m.registry = "custom" => Len(a) = 6
      /\ m.source = Empty /\ m.registry # "custom" => Len(a) = 5
  BY FirstTellsDepth
<1>2. /\ w.source # Empty => b[1] = "source" /\ Len(b) = 2
      /\ w.source = Empty => b[1] = w.registry
      /\ w.source = Empty /\ w.registry = "custom" => Len(b) = 6
      /\ w.source = Empty /\ w.registry # "custom" => Len(b) = 5
  BY FirstTellsDepth
<1>3. \A i \in 1 .. Len(a) : b[i] = a[i]
  BY DEF Within
<1>4. (m.source = Empty <=> w.source = Empty) /\ (m.source = Empty => m.registry = w.registry)
  <2> HIDE DEF a, b
  <2>1. b[1] = a[1]
    <3> DEFINE k == Len(a)
    <3>1. k \in {2, 5, 6} /\ \A i \in 1 .. k : b[i] = a[i]
      BY <1>1, <1>3
    <3> HIDE DEF k
    <3>2. 1 \in 1 .. k
      BY <3>1
    <3> QED BY <3>1, <3>2
  <2>2. /\ m.source = Empty => m.registry # "source"
        /\ w.source = Empty => w.registry # "source"
    BY DEF Exact, Registries, Public
  <2> QED BY <1>1, <1>2, <2>1, <2>2
<1>5. CASE m.source # Empty
  <2>1. b[2] = a[2]
    <3> HIDE DEF a, b
    <3>1. Len(a) = 2
      BY <1>1, <1>5
    <3>2. \A i \in 1 .. 2 : b[i] = a[i]
      BY <1>3, <3>1
    <3> QED BY <3>2
  <2> QED BY <1>4, <1>5, <2>1 DEF CacheDir, cacheSourceDir
<1>6. CASE m.source = Empty /\ m.registry = "custom"
  <2>1. b[2] = a[2] /\ b[3] = a[3] /\ b[4] = a[4] /\ b[5] = a[5] /\ b[6] = a[6]
    <3> HIDE DEF a, b
    <3>1. Len(a) = 6
      BY <1>1, <1>6
    <3>2. \A i \in 1 .. 6 : b[i] = a[i]
      BY <1>3, <3>1
    <3> QED BY <3>2
  <2> QED BY <1>4, <1>6, <2>1 DEF CacheDir, cacheModuleDir
<1>7. CASE m.source = Empty /\ m.registry # "custom"
  <2>1. b[2] = a[2] /\ b[3] = a[3] /\ b[4] = a[4] /\ b[5] = a[5]
    <3> HIDE DEF a, b
    <3>1. Len(a) = 5
      BY <1>1, <1>7
    <3>2. \A i \in 1 .. 5 : b[i] = a[i]
      BY <1>3, <3>1
    <3> QED BY <3>2
  <2> QED BY <1>4, <1>7, <2>1 DEF CacheDir, cacheModuleDir
<1> QED BY <1>5, <1>6, <1>7

\* Two downloads are kept in one directory exactly if cachePathSegment makes them
\* the same: never two sources, never a source and a module, never two registries
\* unless sanitizeHost makes them one (cache.go:142-157).
THEOREM SameDirectory ==
  ASSUME NEW m \in Exact, NEW w \in Exact
  PROVE  CacheDir(m, m.host) = CacheDir(w, w.host) <=> Lookalike(m, w)
<1>1. CASE m.source = Empty /\ w.source = Empty
  <2>1. CacheDir(m, m.host) = CacheDir(w, w.host) => Lookalike(m, w)
    BY <1>1, ModuleDirsApart DEF CacheDir
  <2>2. Lookalike(m, w) => CacheDir(m, m.host) = CacheDir(w, w.host)
    BY <1>1 DEF CacheDir, cacheModuleDir, Lookalike, Alike
  <2> QED BY <2>1, <2>2
<1>2. CASE m.source # Empty /\ w.source # Empty
  <2>1. CacheDir(m, m.host) = CacheDir(w, w.host) => m.source = w.source
    BY <1>2, SourceDirsApart DEF CacheDir
  <2>2. m.source = w.source => Lookalike(m, w)
    BY <1>2 DEF Exact, Lookalike, Alike
  <2>3. Lookalike(m, w) => CacheDir(m, m.host) = CacheDir(w, w.host)
    BY <1>2 DEF CacheDir, cacheSourceDir, Lookalike
  <2> QED BY <2>1, <2>2, <2>3
<1>3. CASE m.source = Empty /\ w.source # Empty
  BY <1>3, KindsApart DEF CacheDir, Lookalike
<1>4. CASE m.source # Empty /\ w.source = Empty
  BY <1>4, KindsApart DEF CacheDir, Lookalike
<1> QED BY <1>1, <1>2, <1>3, <1>4

-------------------------------------------------------------------------------
(* The inductive invariant.                                                *)

Asking  == {"lookup", "fetch", "inspect"}
Called  == {"call", "done", "failed", "rejected"} \cup Asking

\* A process that runs has flags, and does what its command does.
FlagsInv ==
  /\ flags = None \/ flags \in Flags
  /\ stage # "off" => flags # None
  /\ stage = "noSource"  => flags.command = "versions"
  /\ stage = "submodule" => flags.command = "schema"
  /\ stage = "validate"  => flags.command # "library"
  /\ stage # "panicked"

\* The Server was made of these flags.
ServerInv ==
  (\/ stage \in Called
   \/ stage \in {"validate", "submodule"} /\ flags.command = "schema") =>
    /\ server # None
    /\ flags.command = "library" => server.url = flags.url
    /\ flags.command # "library" =>
         /\ server.url = TrimSpace[flags.url]
         /\ server.url # Empty => server.token = TrimSpace[registryToken(flags)]

\* No Server is asked before its flags are validated.
ValidInv ==
  FromTool /\
    (\/ stage \in Called \cup {"submodule"}
     \/ stage = "newServer" /\ flags.command # "schema") =>
    validateRequestFlags(flags)

\* What the Server made of the request, and when.
RequestInv ==
  /\ stage \in Asking => req # None
  /\ req # None =>
       /\ stage \in Asking \cup {"done", "failed"}
       /\ req.source = requestFromCmd(flags).source
       /\ req.source = Empty /\ req.registry = "custom" => server.url # Empty
       /\ InPlace(req) => tree \in seen

Host   == registryHostFor(req)
Wanted == Asked(req, Host)

\* Every directory holds what belongs there.
DiskInv ==
  /\ \A d \in DOMAIN disk : disk[d] \in Exact /\ d = CacheDir(disk[d], disk[d].host)
  /\ stage = "inspect" /\ ~InPlace(req) => Dir \in DOMAIN disk

\* Every entry of the memo is what its key asks for.
MemoInv ==
  \A k \in DOMAIN memo :
    memo[k].module \in Modules /\ Lookalike(memo[k].module, k.module)

AnswerInv ==
  answer # None =>
    /\ stage = "done" /\ req # None
    /\ answer.module \in Modules
    /\ Lookalike(answer.module, Wanted)
    /\ InPlace(req) => answer.tree \in seen

\* The path p was accepted, and at is where it leads.
Opened(p, at) == resolveSubmodulePath(p) /\ at = Walk(Base, Clean(p.parts))

\* Nothing is answered, or remembered to be answered, of a path that was turned down.
PathInv ==
  /\ sub \in Paths
  /\ \A k \in DOMAIN memo : Opened(k.subpath, memo[k].at)
  /\ answer # None => Opened(sub, answer.at)

\* Validated flags without blanks are turned down for a character only.
RejectedInv ==
  FromTool /\ WithoutBlanks(flags) /\ stage = "rejected" =>
    \E s \in {flags.namespace, flags.name, flags.system} : ~validateSegment(s)

IInv ==
  /\ CommandTypeOK /\ FlagsInv /\ ServerInv /\ ValidInv /\ RequestInv
  /\ DiskInv /\ MemoInv /\ AnswerInv /\ PathInv /\ RejectedInv

LEMMA InitIInv == Init => IInv
BY NoneAssumption, BoundsAssumption
   DEF Init, IInv, CommandTypeOK, FlagsInv, ServerInv, ValidInv, RequestInv, DiskInv,
       MemoInv, AnswerInv, PathInv, RejectedInv, FromTool, Called, Asking, Root, Paths,
       Kinds

-------------------------------------------------------------------------------
(* Facts about one state.                                                  *)

LEMMA AskedIsExact ==
  ASSUME NEW r \in Requests, NEW h \in Strings
  PROVE  /\ Asked(r, h) \in Exact
         /\ CacheDir(Asked(r, h), Asked(r, h).host) = CacheDir(r, h)
<1>1. Asked(r, h) \in Exact
  BY StringsAssumption DEF Requests, Asked, Exact, Modules
<1>2. CacheDir(Asked(r, h), Asked(r, h).host) = CacheDir(r, h)
  BY DEF Asked, CacheDir, cacheModuleDir, cacheSourceDir
<1> QED BY <1>1, <1>2

LEMMA FlagsTyped ==
  ASSUME NEW f \in Flags
  PROVE  /\ f \in FlagSets /\ f # None /\ f.command \in Commands
         /\ requestFromCmd(f) \in Requests
         /\ registryToken(f) \in Strings
         /\ f.url \in Strings /\ TrimSpace[f.url] \in Strings
         /\ TrimSpace[registryToken(f)] \in Strings
<1>1. f \in FlagSets /\ f # None
  BY FlagsAssumption, NoneAssumption
<1>2. f.url \in Strings /\ registryToken(f) \in Strings
  BY <1>1 DEF FlagSets, registryToken
<1>3. TrimSpace[f.url] \in Strings /\ TrimSpace[registryToken(f)] \in Strings
  BY <1>2, TrimAssumption
<1>4. normalizedRegistryType(f.registry) \in Registries
  BY <1>1 DEF FlagSets, normalizedRegistryType, Registries, Public
<1>5. registryTypeFromCmd(f) \in Registries
  BY <1>4 DEF registryTypeFromCmd, Registries, Public
<1>6. requestFromCmd(f) \in Requests
  BY <1>1, <1>4, <1>5, GivenAssumption, StringsAssumption
     DEF requestFromCmd, Requests, FlagSets
<1> QED BY <1>1, <1>2, <1>3, <1>6 DEF FlagSets

LEMMA HostTyped ==
  ASSUME IInv, req # None
  PROVE  /\ req \in Requests /\ Host \in Strings
         /\ Wanted \in Exact /\ Wanted \in Modules
         /\ CacheDir(Wanted, Wanted.host) = Dir
<1>1. req \in Requests
  BY DEF IInv, CommandTypeOK
<1>2. stage \in Called
  BY DEF IInv, RequestInv, Called
<1>3. server \in Servers
  BY <1>2 DEF IInv, CommandTypeOK, ServerInv
<1>4. Host \in Strings
  BY <1>3, InputsAssumption, StringsAssumption
     DEF Servers, IInv, RequestInv, Host, registryHostFor
<1>5. Wanted \in Exact /\ CacheDir(Wanted, Wanted.host) = Dir
  BY <1>1, <1>4, AskedIsExact DEF Wanted, Dir, Host
<1> QED BY <1>1, <1>4, <1>5 DEF Exact

LEMMA FollowingIs ==
  /\ flags.command = "schema" /\ stage = "newServer" => Following = "validate"
  /\ flags.command = "schema" /\ stage = "validate" => Following = "submodule"
  /\ flags.command = "schema" /\ stage = "submodule" => Following = "call"
  /\ flags.command = "submodules" /\ stage = "validate" => Following = "newServer"
  /\ flags.command = "submodules" /\ stage = "newServer" => Following = "call"
  /\ flags.command = "versions" /\ stage = "noSource" => Following = "validate"
  /\ flags.command = "versions" /\ stage = "validate" => Following = "newServer"
  /\ flags.command = "versions" /\ stage = "newServer" => Following = "call"
  /\ flags.command = "library" /\ stage = "newServer" => Following = "call"
BY DEF Following, Order, schemaCommand, submoduleCommand, versionCommand,
       libraryProgram

LEMMA StartIs ==
  ASSUME NEW f \in Flags
  PROVE  /\ f.command = "schema" => Order[f.command].start = "newServer"
         /\ f.command = "submodules" => Order[f.command].start = "validate"
         /\ f.command = "versions" => Order[f.command].start = "noSource"
         /\ f.command = "library" => Order[f.command].start = "newServer"
BY DEF Order, schemaCommand, submoduleCommand, versionCommand, libraryProgram

-------------------------------------------------------------------------------
(* What a step preserves, conjunct by conjunct.                            *)

\* What happens after the flags are read and before the Server is called.
Preparing == noSource \/ Validate \/ newServer \/ NewServer \/ Submodule

\* The steps of a call.
Serving ==
  \/ GetAvailableVersions \/ ReceiveSource \/ ReceiveRegistry \/ Lookup
  \/ FetchLocal \/ FetchRemote \/ Inspect

LEMMA FlagsStep == IInv /\ [Next]_vars => FlagsInv'
<1> SUFFICES ASSUME IInv, [Next]_vars PROVE FlagsInv'
  OBVIOUS
<1> USE DEF FlagsInv
<1>1. FlagsInv /\ (flags # None => flags \in Flags /\ flags.command \in Commands)
  BY FlagsTyped DEF IInv
<1>2. CASE Start
  BY <1>2, StartIs, FlagsTyped DEF Start, Begin, Commands
<1>3. CASE CallAgain
  BY <1>3, FlagsTyped DEF CallAgain, Begin
<1>4. CASE Exit
  BY <1>4 DEF Exit
<1>5. CASE noSource \/ Validate \/ Submodule
  BY <1>1, <1>5, FollowingIs DEF noSource, Validate, Submodule, Commands
<1>6. CASE newServer
  BY <1>1, <1>6, FollowingIs
     DEF newServer, NoRegistry, WithCustomRegistry, Commands
<1>7. CASE NewServer
  BY <1>1, <1>7, FollowingIs, ProgramsAssumption
     DEF NewServer, NoRegistry, WithCustomRegistry
<1>8. CASE Serving
  BY <1>1, <1>8
     DEF Serving, GetAvailableVersions, ReceiveSource, ReceiveRegistry, Lookup,
         FetchLocal, FetchRemote, Inspect, AfterResolution
<1>9. CASE Edit \/ UNCHANGED vars
  BY <1>1, <1>9 DEF Edit, vars
<1> QED
  BY <1>2, <1>3, <1>4, <1>5, <1>6, <1>7, <1>8, <1>9 DEF Next, Serving

LEMMA ServerStep == IInv /\ [Next]_vars => ServerInv'
<1> SUFFICES ASSUME IInv, [Next]_vars PROVE ServerInv'
  OBVIOUS
<1> USE DEF ServerInv, Called, Asking
<1>1. ServerInv /\ (flags # None => flags \in Flags /\ flags.command \in Commands)
  BY FlagsTyped DEF IInv, FlagsInv
<1>2. CASE Start
  BY <1>2, StartIs, FlagsTyped DEF Start, Begin, Commands
<1>3. CASE CallAgain
  BY <1>1, <1>3 DEF CallAgain, Begin
<1>4. CASE Exit
  BY <1>4 DEF Exit
<1>5. CASE noSource \/ Validate \/ Submodule
  BY <1>1, <1>5, FollowingIs
     DEF noSource, Validate, Submodule, Commands, IInv, FlagsInv
<1>6. CASE newServer
  BY <1>1, <1>6, FollowingIs, InputsAssumption, NoneAssumption, FlagsTyped
     DEF newServer, NoRegistry, WithCustomRegistry, Commands, IInv, FlagsInv, Servers
<1>7. CASE NewServer
  BY <1>1, <1>7, FollowingIs, NoneAssumption, FlagsTyped
     DEF Servers, NewServer, NoRegistry, WithCustomRegistry, IInv, FlagsInv
<1>8. CASE Serving
  BY <1>1, <1>8
     DEF Serving, GetAvailableVersions, ReceiveSource, ReceiveRegistry, Lookup,
         FetchLocal, FetchRemote, Inspect, AfterResolution
<1>9. CASE Edit \/ UNCHANGED vars
  BY <1>1, <1>9 DEF Edit, vars
<1> QED
  BY <1>2, <1>3, <1>4, <1>5, <1>6, <1>7, <1>8, <1>9 DEF Next, Serving

LEMMA ValidStep == IInv /\ [Next]_vars => ValidInv'
<1> SUFFICES ASSUME IInv, [Next]_vars PROVE ValidInv'
  OBVIOUS
<1> USE DEF ValidInv, FromTool, Called, Asking
<1>1. ValidInv /\ (flags # None => flags \in Flags /\ flags.command \in Commands)
  BY FlagsTyped DEF IInv, FlagsInv
<1>2. CASE Start
  BY <1>2, StartIs, FlagsTyped DEF Start, Begin, Commands
<1>3. CASE CallAgain
  BY <1>1, <1>3 DEF CallAgain, Begin
<1>4. CASE Exit
  BY <1>4 DEF Exit
<1>5. CASE noSource \/ Submodule
  BY <1>1, <1>5, FollowingIs DEF noSource, Submodule, Commands, IInv, FlagsInv
<1>6. CASE Validate
  BY <1>1, <1>6, FollowingIs DEF Validate, Commands, IInv, FlagsInv
<1>7. CASE newServer
  BY <1>1, <1>7, FollowingIs
     DEF newServer, NoRegistry, WithCustomRegistry, Commands, IInv, FlagsInv
<1>8. CASE NewServer
  BY <1>1, <1>8 DEF NewServer
<1>9. CASE Serving
  BY <1>1, <1>9
     DEF Serving, GetAvailableVersions, ReceiveSource, ReceiveRegistry, Lookup,
         FetchLocal, FetchRemote, Inspect, AfterResolution
<1>10. CASE Edit \/ UNCHANGED vars
  BY <1>1, <1>10 DEF Edit, vars
<1> QED
  BY <1>2, <1>3, <1>4, <1>5, <1>6, <1>7, <1>8, <1>9, <1>10 DEF Next, Serving

LEMMA RequestStep == IInv /\ [Next]_vars => RequestInv'
<1> SUFFICES ASSUME IInv, [Next]_vars PROVE RequestInv'
  OBVIOUS
<1> USE DEF RequestInv, Called, Asking
<1>1. /\ RequestInv
      /\ flags # None => flags \in Flags
      /\ stage # "off" => flags # None
      /\ seen \subseteq Trees /\ tree \in Trees
  BY DEF IInv, FlagsInv, CommandTypeOK
<1>2. CASE Start
  BY <1>2, StartIs, FlagsTyped DEF Start, Begin, Commands
<1>3. CASE CallAgain
  BY <1>1, <1>3 DEF CallAgain, Begin
<1>4. CASE Exit
  BY <1>4 DEF Exit
<1>5. CASE Preparing
  <2>1. req = None
    BY <1>1, <1>5
       DEF Preparing, noSource, Validate, newServer, NewServer, Submodule
  <2>2. req' = None /\ stage' \notin Asking
    BY <1>1, <1>5, <2>1, FollowingIs, FlagsTyped
       DEF Preparing, noSource, Validate, newServer, NewServer, Submodule, NoRegistry,
           WithCustomRegistry, IInv, FlagsInv, Commands
  <2> QED BY <2>2
<1>6. CASE GetAvailableVersions
  BY <1>1, <1>6 DEF GetAvailableVersions
<1>7. CASE ReceiveSource
  <2> DEFINE r == requestFromCmd(flags)
  <2>1. r \in Requests /\ r.source # Empty /\ req = None
    BY <1>1, <1>7, FlagsTyped DEF ReceiveSource
  <2>2. req' = None \/ req' = r
    BY <1>7, <2>1 DEF ReceiveSource
  <2>3. InPlace(r) => tree' \in seen'
    BY <1>7 DEF ReceiveSource
  <2>4. stage' \in {"rejected"} \cup Asking /\ flags' = flags
    BY <1>7 DEF ReceiveSource, AfterResolution
  <2>5. stage' \in Asking <=> req' # None
    BY <1>7, <2>1, NoneAssumption DEF ReceiveSource, AfterResolution
  <2> HIDE DEF r
  <2>6. flags' = flags /\ requestFromCmd(flags)' = r
    BY <2>4 DEF r
  <2> QED BY <2>1, <2>2, <2>3, <2>4, <2>5, <2>6 DEF InPlace
<1>8. CASE ReceiveRegistry
  <2> DEFINE r == requestFromCmd(flags)
  <2>1. r \in Requests /\ r.source = Empty /\ req = None
    BY <1>1, <1>8, FlagsTyped DEF ReceiveRegistry
  <2>2. \/ req' = None
        \/ Servable(r) /\ req' = r
        \/ Servable(r) /\ \E v \in Published : req' = Resolved(r, v)
    BY <1>8, <2>1 DEF ReceiveRegistry
  <2>3. req' # None =>
          /\ req' \in Requests /\ req'.source = Empty
          /\ req'.registry = "custom" => server.url # Empty
    <3>1. \A v \in Published :
            LET q == Resolved(r, v) IN
              q \in Requests /\ q.source = r.source /\ q.registry = r.registry
      BY <2>1, VersionsAssumption DEF Requests, Resolved
    <3> HIDE DEF r
    <3> QED BY <2>1, <2>2, <3>1 DEF Servable
  <2>4. /\ stage' \in {"rejected", "failed"} \cup Asking
        /\ stage' \in Asking => req' # None
        /\ stage' = "rejected" => req' = None
    <3>1. \A v \in Published : Resolved(r, v) \in Requests
      BY <2>1, VersionsAssumption DEF Requests, Resolved
    <3> QED BY <1>8, <2>1, <3>1, NoneAssumption DEF ReceiveRegistry, AfterResolution
  <2>5. flags' = flags /\ server' = server /\ tree' = tree
    BY <1>8 DEF ReceiveRegistry
  <2>6. requestFromCmd(flags)' = r
    BY <2>5
  <2> HIDE DEF r
  <2> QED BY <2>1, <2>3, <2>4, <2>5, <2>6 DEF InPlace
<1>9. CASE Lookup \/ FetchLocal \/ FetchRemote \/ Inspect
  BY <1>1, <1>9 DEF Lookup, FetchLocal, FetchRemote, Inspect, InPlace, requestFromCmd
<1>10. CASE Edit
  <2>1. req # None /\ InPlace(req) => tree' \in seen'
    BY <1>1, <1>10 DEF Edit
  <2> QED BY <1>1, <1>10, <2>1 DEF Edit, InPlace, requestFromCmd
<1>11. CASE UNCHANGED vars
  BY <1>1, <1>11 DEF vars, InPlace, requestFromCmd
<1> QED
  BY <1>2, <1>3, <1>4, <1>5, <1>6, <1>7, <1>8, <1>9, <1>10, <1>11 DEF Next, Preparing

LEMMA SameRequest ==
  UNCHANGED <<server, req>> =>
    Host' = Host /\ Wanted' = Wanted /\ Dir' = Dir /\ InPlace(req)' = InPlace(req)
BY DEF Host, registryHostFor, Wanted, Dir, InPlace

LEMMA DiskStep == IInv /\ [Next]_vars => DiskInv'
<1> SUFFICES ASSUME IInv, [Next]_vars PROVE DiskInv'
  OBVIOUS
<1> USE DEF DiskInv
<1>1. DiskInv
  BY DEF IInv
<1>2. ASSUME disk' = disk, stage' # "inspect" PROVE DiskInv'
  BY <1>1, <1>2
<1>3. CASE Start \/ CallAgain \/ Exit
  BY <1>2, <1>3, StartIs, FlagsTyped DEF Start, CallAgain, Exit, Commands
<1>4. CASE Preparing
  BY <1>2, <1>4, FollowingIs, FlagsTyped
     DEF Preparing, noSource, Validate, newServer, NewServer, Submodule, NoRegistry,
         WithCustomRegistry, IInv, FlagsInv, Commands
<1>5. CASE GetAvailableVersions \/ ReceiveSource \/ ReceiveRegistry \/ Lookup \/ Inspect
  BY <1>2, <1>5
     DEF GetAvailableVersions, ReceiveSource, ReceiveRegistry, AfterResolution, Lookup,
         Inspect
<1>6. CASE FetchLocal
  BY <1>1, <1>6, SameRequest DEF FetchLocal
<1>7. CASE FetchRemote
  <2>1. /\ req # None /\ UNCHANGED <<server, req>>
    BY <1>7 DEF FetchRemote, IInv, RequestInv, Asking
  <2>2. Wanted \in Exact /\ CacheDir(Wanted, Wanted.host) = Dir
    BY <2>1, HostTyped
  <2>3. Dir' = Dir
    BY <2>1, SameRequest
  <2>4. CASE disk' = disk /\ (stage' = "inspect" => Dir \in DOMAIN disk)
    BY <1>1, <1>7, <2>3, <2>4 DEF FetchRemote
  <2>5. CASE disk' = With(disk, Dir, Wanted)
    BY <1>1, <2>2, <2>3, <2>5 DEF With
  <2> QED BY <1>7, <2>4, <2>5 DEF FetchRemote, Wanted, Host
<1>8. CASE Edit \/ UNCHANGED vars
  BY <1>1, <1>8, SameRequest DEF Edit, vars
<1> QED
  BY <1>3, <1>4, <1>5, <1>6, <1>7, <1>8 DEF Next, Preparing

LEMMA FoundIsWanted ==
  ASSUME IInv, stage = "inspect"
  PROVE  Found.module \in Modules /\ Lookalike(Found.module, Wanted)
<1>1. req # None
  BY DEF IInv, RequestInv, Asking
<1>2. Wanted \in Exact /\ Wanted \in Modules /\ CacheDir(Wanted, Wanted.host) = Dir
  BY <1>1, HostTyped
<1>3. CASE InPlace(req)
  <2>1. Found.module = Wanted
    BY <1>3 DEF Found, Wanted, Host, registryHostFor, InPlace
  <2> QED BY <1>2, <2>1 DEF Lookalike, Alike
<1>4. CASE ~InPlace(req)
  <2>1. Found.module = disk[Dir] /\ Dir \in DOMAIN disk
    BY <1>4 DEF Found, IInv, DiskInv
  <2>2. /\ disk[Dir] \in Exact
        /\ Dir = CacheDir(disk[Dir], disk[Dir].host)
    BY <2>1 DEF IInv, DiskInv
  <2>3. Lookalike(disk[Dir], Wanted)
    BY <1>2, <2>2, SameDirectory
  <2> QED BY <2>1, <2>2, <2>3 DEF Exact
<1> QED BY <1>3, <1>4

LEMMA MemoStep == IInv /\ [Next]_vars => MemoInv'
<1> SUFFICES ASSUME IInv, [Next]_vars PROVE MemoInv'
  OBVIOUS
<1> USE DEF MemoInv
<1>1. MemoInv
  BY DEF IInv
<1>2. CASE memo' = memo
  BY <1>1, <1>2
<1>3. CASE Exit
  BY <1>3 DEF Exit
<1>4. CASE Inspect /\ memo' = With(memo, Key, Found)
  <2>1. Found.module \in Modules /\ Lookalike(Found.module, Wanted)
    BY <1>4, FoundIsWanted DEF Inspect
  <2>2. Key.module = Wanted
    BY DEF Key, moduleKey, Wanted, Host
  <2> HIDE DEF MemoInv
  <2>3. SUFFICES ASSUME NEW k \in DOMAIN memo'
                 PROVE  memo'[k].module \in Modules /\ Lookalike(memo'[k].module, k.module)
    BY DEF MemoInv
  <2>4. CASE k = Key
    BY <1>4, <2>1, <2>2, <2>4 DEF With
  <2>5. CASE k # Key
    BY <1>1, <1>4, <2>5 DEF With, MemoInv
  <2> QED BY <2>4, <2>5
<1> QED
  BY <1>2, <1>3, <1>4
     DEF Next, Start, CallAgain, noSource, Validate, newServer, NewServer, Submodule,
         GetAvailableVersions, ReceiveSource, ReceiveRegistry, Lookup, FetchLocal,
         FetchRemote, Inspect, Edit, vars

LEMMA AnswerStep == IInv /\ [Next]_vars => AnswerInv'
<1> SUFFICES ASSUME IInv, [Next]_vars PROVE AnswerInv'
  OBVIOUS
<1> USE DEF AnswerInv
<1>1. AnswerInv /\ RequestInv
  BY DEF IInv
<1>2. ASSUME answer' = None PROVE AnswerInv'
  BY <1>2
<1>3. CASE Start \/ CallAgain \/ Exit
  BY <1>2, <1>3 DEF Start, CallAgain, Exit, Begin
<1>4. ASSUME answer' = answer, stage # "done" PROVE AnswerInv'
  BY <1>1, <1>2, <1>4
<1>5. CASE \/ Preparing \/ GetAvailableVersions \/ ReceiveSource \/ ReceiveRegistry
           \/ FetchLocal \/ FetchRemote
  BY <1>4, <1>5
     DEF Preparing, noSource, Validate, newServer, NewServer, Submodule,
         GetAvailableVersions, ReceiveSource, ReceiveRegistry, FetchLocal, FetchRemote
<1>6. CASE Lookup
  <2>1. CASE answer' = answer
    BY <1>4, <1>6, <2>1 DEF Lookup
  <2>2. CASE answer' = memo[Key] /\ Key \in DOMAIN memo /\ memoised(req)
    <3>1. Key.module = Wanted
      BY DEF Key, moduleKey, Wanted, Host
    <3>2. answer'.module \in Modules /\ Lookalike(answer'.module, Wanted)
      BY <2>2, <3>1 DEF IInv, MemoInv
    <3>3. UNCHANGED <<server, req, seen>> /\ req # None /\ stage' = "done"
      BY <1>1, <1>6, <2>2 DEF Lookup, RequestInv, Asking
    <3>4. ~InPlace(req)
      BY <2>2 DEF memoised
    <3> QED BY <3>2, <3>3, <3>4, SameRequest
  <2> QED BY <1>6, <2>1, <2>2 DEF Lookup
<1>7. CASE Inspect
  <2>1. CASE answer' = answer
    BY <1>4, <1>7, <2>1 DEF Inspect
  <2>2. CASE answer' = Found /\ stage' = "done"
    <3>1. Found.module \in Modules /\ Lookalike(Found.module, Wanted)
      BY <1>7, FoundIsWanted DEF Inspect
    <3>2. UNCHANGED <<server, req, seen>> /\ req # None
      BY <1>1, <1>7 DEF Inspect, RequestInv, Asking
    <3>3. InPlace(req) => Found.tree \in seen
      BY <1>1, <3>2 DEF Found, RequestInv
    <3> QED BY <2>2, <3>1, <3>2, <3>3, SameRequest
  <2> QED BY <1>7, <2>1, <2>2 DEF Inspect
<1>8. CASE Edit \/ UNCHANGED vars
  <2>1. UNCHANGED <<server, req, answer, stage>> /\ seen \subseteq seen'
    BY <1>8 DEF Edit, vars
  <2> QED BY <1>1, <2>1, SameRequest
<1> QED
  BY <1>3, <1>5, <1>6, <1>7, <1>8 DEF Next, Preparing

LEMMA PathStep == IInv /\ [Next]_vars => PathInv'
<1> SUFFICES ASSUME IInv, [Next]_vars PROVE PathInv'
  OBVIOUS
<1>1. PathInv /\ AnswerInv
  BY DEF IInv
<1>2. ASSUME UNCHANGED <<sub, memo, answer>> PROVE PathInv'
  BY <1>1, <1>2 DEF PathInv
<1>3. Root \in Paths /\ \A f \in Flags : f.submodule \in Paths
  BY FlagsTyped DEF FlagSets, Root, Paths, Kinds
<1>4. CASE Start \/ CallAgain
  <2>1. sub' \in Paths /\ answer' = None /\ memo' = memo
    BY <1>3, <1>4 DEF Start, CallAgain, Begin
  <2> QED BY <1>1, <2>1 DEF PathInv
<1>5. CASE Exit
  BY <1>3, <1>5 DEF Exit, PathInv
<1>6. CASE Submodule
  <2>1. CASE sub' = sub
    BY <1>2, <1>6, <2>1 DEF Submodule
  <2>2. CASE sub' = [kind |-> "relative", parts |-> Clean(flags.submodule.parts)]
    <3>1. flags \in Flags
      BY <1>6 DEF Submodule, IInv, FlagsInv
    <3>2. flags.submodule.parts \in Seq(Components)
      BY <1>3, <3>1 DEF Paths
    <3>3. sub' \in Paths
      BY <2>2, <3>2, CleanIsCleaned DEF Paths, Kinds
    <3>4. answer' = None /\ memo' = memo
      BY <1>1, <1>6 DEF Submodule, AnswerInv
    <3> QED BY <1>1, <3>3, <3>4 DEF PathInv
  <2> QED BY <1>6, <2>1, <2>2 DEF Submodule
<1>7. CASE Lookup
  <2>1. CASE answer' = answer
    BY <1>2, <1>7, <2>1 DEF Lookup
  <2>2. CASE answer' = memo[Key] /\ Key \in DOMAIN memo
    <3>1. Key.subpath = sub
      BY DEF Key, moduleKey
    <3>2. Opened(sub, memo[Key].at)
      BY <1>1, <2>2, <3>1 DEF PathInv
    <3> QED BY <1>1, <1>7, <2>2, <3>2 DEF Lookup, PathInv, Opened
  <2> QED BY <1>7, <2>1, <2>2 DEF Lookup
<1>8. CASE Inspect
  <2>1. CASE UNCHANGED <<memo, answer>>
    BY <1>2, <1>8, <2>1 DEF Inspect
  <2>2. CASE resolveSubmodulePath(sub) /\ answer' = Found /\ memo' \in {memo, With(memo, Key, Found)}
    <3>1. Opened(sub, Found.at) /\ Key.subpath = sub
      BY <2>2 DEF Opened, Found, Key, moduleKey
    <3>2. ASSUME NEW k \in DOMAIN memo' PROVE Opened(k.subpath, memo'[k].at)
      <4>1. CASE memo' = With(memo, Key, Found) /\ k = Key
        BY <3>1, <4>1 DEF With
      <4>2. CASE k \in DOMAIN memo /\ memo'[k] = memo[k]
        BY <1>1, <4>2 DEF PathInv
      <4> QED BY <2>2, <3>2, <4>1, <4>2 DEF With
    <3> QED BY <1>1, <1>8, <2>2, <3>1, <3>2 DEF Inspect, PathInv, Opened
  <2> QED BY <1>8, <2>1, <2>2 DEF Inspect
<1> QED
  BY <1>2, <1>4, <1>5, <1>6, <1>7, <1>8
     DEF Next, noSource, Validate, newServer, NewServer, GetAvailableVersions,
         ReceiveSource, ReceiveRegistry, FetchLocal, FetchRemote, Edit, vars

LEMMA TypeStep == IInv /\ [Next]_vars => CommandTypeOK'
<1> SUFFICES ASSUME IInv, [Next]_vars PROVE CommandTypeOK'
  OBVIOUS
<1> DEFINE
  Kept == /\ \A d \in DOMAIN disk : disk[d] \in Modules
          /\ \A k \in DOMAIN memo : memo[k].module \in Modules
          /\ answer = None \/ answer.module \in Modules
<1>1. Kept'
  <2>1. DiskInv' /\ MemoInv' /\ AnswerInv'
    BY DiskStep, MemoStep, AnswerStep
  <2> QED BY <2>1 DEF DiskInv, MemoInv, AnswerInv, Exact
<1> HIDE DEF Kept
<1> SUFFICES
      /\ flags' = None \/ flags' \in FlagSets
      /\ stage' \in {"off", "noSource", "validate", "newServer", "submodule"}
                     \cup Called \cup {"refused"}
      /\ server' = None \/ server' \in Servers
      /\ req' = None \/ req' \in Requests
      /\ calls' \in 0..MaxCalls
      /\ tree' \in Trees /\ seen' \in SUBSET Trees
  BY <1>1 DEF Kept, CommandTypeOK, Called, Asking
<1>2. /\ CommandTypeOK
      /\ flags # None => flags \in Flags /\ flags.command \in Commands
      /\ stage # "off" => flags # None
      /\ stage # "panicked"
  BY FlagsTyped DEF IInv, FlagsInv
<1> USE DEF Called, Asking
<1>3. CASE Start
  BY <1>2, <1>3, StartIs, FlagsTyped DEF Start, Begin, Commands, CommandTypeOK
<1>4. CASE CallAgain
  BY <1>2, <1>4, FlagsTyped, BoundsAssumption DEF CallAgain, Begin, CommandTypeOK
<1>5. CASE Exit
  BY <1>2, <1>5, BoundsAssumption DEF Exit, CommandTypeOK
<1>6. CASE noSource \/ Validate \/ Submodule
  BY <1>2, <1>6, FollowingIs
     DEF noSource, Validate, Submodule, CommandTypeOK, IInv, FlagsInv, Commands
<1>7. CASE newServer \/ NewServer
  <2>1. server' = None \/ server' \in Servers
    BY <1>2, <1>7, FlagsTyped
       DEF newServer, NewServer, NoRegistry, WithCustomRegistry, Servers, CommandTypeOK
  <2>2. stage' \in {"refused", "validate", "call"}
    BY <1>2, <1>7, FlagsTyped, FollowingIs, ProgramsAssumption
       DEF newServer, NewServer, NoRegistry, WithCustomRegistry, IInv, FlagsInv, Commands
  <2> QED BY <1>2, <1>7, <2>1, <2>2 DEF newServer, NewServer, CommandTypeOK
<1>8. CASE GetAvailableVersions \/ Lookup \/ FetchLocal \/ FetchRemote \/ Inspect
  BY <1>2, <1>8
     DEF GetAvailableVersions, Lookup, FetchLocal, FetchRemote, Inspect, CommandTypeOK
<1>9. CASE ReceiveSource
  BY <1>2, <1>9, FlagsTyped DEF ReceiveSource, AfterResolution, CommandTypeOK
<1>10. CASE ReceiveRegistry
  <2>1. \A v \in Published : Resolved(requestFromCmd(flags), v) \in Requests
    BY <1>2, <1>10, FlagsTyped, VersionsAssumption DEF ReceiveRegistry, Resolved, Requests
  <2> QED
    BY <1>2, <1>10, <2>1, FlagsTyped DEF ReceiveRegistry, AfterResolution, CommandTypeOK
<1>11. CASE Edit \/ UNCHANGED vars
  BY <1>2, <1>11 DEF Edit, vars, CommandTypeOK
<1> QED
  BY <1>3, <1>4, <1>5, <1>6, <1>7, <1>8, <1>9, <1>10, <1>11 DEF Next

\* The Server turns down what validateRequestFlags does.
LEMMA ValidatedIsServable ==
  ASSUME IInv, stage = "call", FromTool, WithoutBlanks(flags)
  PROVE  LET r == requestFromCmd(flags) IN
           /\ r.source = Empty /\ ~Servable(r) =>
                \E s \in {flags.namespace, flags.name, flags.system} : ~validateSegment(s)
           /\ r.source # Empty => r.version \in Concrete \cup {Empty}
<1> DEFINE r == requestFromCmd(flags)
<1>1. validateRequestFlags(flags) /\ server.url = TrimSpace[flags.url]
  BY DEF IInv, ValidInv, ServerInv, Called, FromTool
<1>2. /\ r.namespace = flags.namespace /\ r.name = flags.name /\ r.system = flags.system
      /\ r.version = flags.version /\ r.source \in {Empty, flags.source}
      /\ r.registry = registryTypeFromCmd(flags)
  BY DEF requestFromCmd, FromTool
<1>3. \A s \in {flags.source, flags.namespace, flags.name, flags.system, flags.version} :
        TrimSpace[s] = s
  BY DEF WithoutBlanks
<1> HIDE DEF r
<1>4. ASSUME r.source # Empty PROVE r.version \in Concrete \cup {Empty}
  BY <1>1, <1>2, <1>3, <1>4 DEF validateRequestFlags
<1>5. ASSUME ~Servable(r), TrimSpace[flags.source] # Empty
      PROVE  ~validateSegment(flags.namespace)
  BY <1>1, <1>3, <1>5 DEF validateRequestFlags, validateSegment
<1>6. ASSUME ~Servable(r), TrimSpace[flags.source] = Empty
      PROVE  \E s \in {flags.namespace, flags.name, flags.system} : ~validateSegment(s)
  <2>1. r.registry = "custom" => server.url # Empty
    BY <1>1, <1>2, <1>6, InputsAssumption DEF validateRequestFlags
  <2> QED BY <1>2, <1>6, <2>1 DEF Servable
<1> QED BY <1>4, <1>5, <1>6 DEF r

LEMMA RejectedStep == IInv /\ [Next]_vars => RejectedInv'
<1> SUFFICES ASSUME IInv, [Next]_vars, FromTool', WithoutBlanks(flags)',
                    stage' = "rejected"
             PROVE  (\E s \in {flags.namespace, flags.name, flags.system} :
                       ~validateSegment(s))'
  BY DEF RejectedInv
<1>1. RejectedInv /\ FlagsInv /\ (flags # None => flags \in Flags /\ flags.command \in Commands)
  BY FlagsTyped DEF IInv, FlagsInv
<1>2. CASE Start \/ CallAgain \/ Exit
  BY <1>2, StartIs, FlagsTyped DEF Start, CallAgain, Exit, Commands
<1>3. CASE Preparing
  BY <1>1, <1>3, FollowingIs
     DEF Preparing, noSource, Validate, newServer, NewServer, Submodule, NoRegistry,
         WithCustomRegistry, FlagsInv, Commands
<1>4. CASE flags' = flags /\ stage = "rejected"
  BY <1>1, <1>4 DEF RejectedInv, FromTool, WithoutBlanks
<1>5. CASE Lookup \/ FetchLocal \/ FetchRemote \/ Inspect
  BY <1>5 DEF Lookup, FetchLocal, FetchRemote, Inspect
<1>6. CASE GetAvailableVersions \/ ReceiveSource \/ ReceiveRegistry
  <2>1. stage = "call" /\ flags' = flags
    BY <1>6 DEF GetAvailableVersions, ReceiveSource, ReceiveRegistry
  <2>2. FromTool /\ WithoutBlanks(flags)
    BY <2>1 DEF FromTool, WithoutBlanks
  <2> DEFINE r == requestFromCmd(flags)
  <2>3. \/ r.source = Empty /\ ~Servable(r)
        \/ r.source # Empty /\ r.version \notin Concrete \cup {Empty}
    <3>1. flags.command = "versions" => r.source = Empty
      BY DEF requestFromCmd
    <3> QED
      BY <1>6, <3>1
         DEF GetAvailableVersions, ReceiveSource, ReceiveRegistry, AfterResolution
  <2> QED BY <2>1, <2>2, <2>3, ValidatedIsServable
<1> QED
  BY <1>2, <1>3, <1>4, <1>5, <1>6 DEF Next, Preparing, Edit, vars

LEMMA StepIInv == IInv /\ [Next]_vars => IInv'
BY TypeStep, FlagsStep, ServerStep, ValidStep, RequestStep, DiskStep, MemoStep, AnswerStep,
   PathStep, RejectedStep
   DEF IInv

LEMMA Inductive == Spec => []IInv
BY InitIInv, StepIInv, PTL DEF Spec

-------------------------------------------------------------------------------

\* The types of the processes, of the memo and of the cache directory.
THEOREM CommandTypeCorrect == Spec => []CommandTypeOK
<1>1. IInv => CommandTypeOK
  BY DEF IInv
<1> QED BY <1>1, Inductive, PTL

\* No invocation of the tool, and no program that checks its input, makes
\* WithCustomRegistry panic (main.go:299-307).
THEOREM ToolNeverPanics == Spec => []NeverPanics
<1>1. IInv => NeverPanics
  BY DEF IInv, FlagsInv, NeverPanics
<1> QED BY <1>1, Inductive, PTL

\* A token typed on the command line reaches the registry that is asked
\* (main.go:211-216).
THEOREM TokenReachesRegistry == Spec => []TokenNotDropped
<1>1. IInv => TokenNotDropped
  <2> SUFFICES ASSUME IInv, FromTool, TypedToken(flags), TrimSpace[flags.source] = Empty,
                      stage \in {"call", "lookup", "fetch", "inspect", "done"}
               PROVE  server.url # Empty /\ server.token = TrimSpace[registryToken(flags)]
    BY DEF TokenNotDropped
  <2>1. TrimSpace[flags.url] # Empty
    BY DEF IInv, ValidInv, Called, Asking, validateRequestFlags
  <2>2. server.url = TrimSpace[flags.url] /\
          (server.url # Empty => server.token = TrimSpace[registryToken(flags)])
    BY DEF IInv, ServerInv, Called, Asking, FromTool
  <2> QED BY <2>1, <2>2
<1> QED BY <1>1, Inductive, PTL

\* Flags without blanks around them that pass validation are not turned down by the
\* Server, but for a character (main.go:144-160): this needs that a command validates
\* before it calls, and that both read a URL the same way.
THEOREM ValidationIsEnough == Spec => []ValidationSuffices
<1>1. IInv => ValidationSuffices
  <2> SUFFICES ASSUME IInv, FromTool, WithoutBlanks(flags), req # None, req.source # Empty
               PROVE  /\ \A s \in {flags.namespace, flags.name, flags.system} : s = Empty
                      /\ server.url = Empty
    BY DEF ValidationSuffices, IInv, RejectedInv
  <2>1. stage \in Called /\ req.source \in {Empty, flags.source}
    BY DEF IInv, RequestInv, Called, requestFromCmd
  <2>2. TrimSpace[flags.source] # Empty
    BY <2>1 DEF WithoutBlanks
  <2>3. validateRequestFlags(flags) /\ server.url = TrimSpace[flags.url]
    BY <2>1 DEF IInv, ValidInv, ServerInv, FromTool
  <2> QED BY <2>2, <2>3 DEF validateRequestFlags, WithoutBlanks
<1> QED BY <1>1, Inductive, PTL

\* A call is answered from the module it asked for, whatever is on disk and in the memo.
THEOREM RightModuleServed == Spec => []RightModule
<1>1. IInv => RightModule
  BY DEF IInv, AnswerInv, RightModule, Wanted, Host
<1> QED BY <1>1, Inductive, PTL

\* Whatever path is typed or given to the library, what is inspected or answered from
\* the memo is the directory the path names, inside the module (inspect.go:192-209):
\* this needs that no answer is remembered for a path that was turned down, and that
\* a path cleaned twice still leads where it led.
THEOREM ToolStaysInside == Spec => []Contained
<1>1. IInv => Contained
  <2> SUFFICES ASSUME IInv, answer # None
               PROVE  answer.at = Walk(Base, sub.parts) /\ Within(Base, answer.at)
    BY DEF Contained
  <2>1. sub \in Paths /\ resolveSubmodulePath(sub) /\ answer.at = Walk(Base, Clean(sub.parts))
    BY DEF IInv, PathInv, Opened
  <2> QED BY <2>1, BaseAssumption, StaysWithin
<1> QED BY <1>1, Inductive, PTL

\* A local source is read again at every call.
THEOREM LocalStaysFresh == Spec => []LocalIsFresh
<1>1. IInv => LocalIsFresh
  BY DEF IInv, AnswerInv, LocalIsFresh
<1> QED BY <1>1, Inductive, PTL

-------------------------------------------------------------------------------
(* Names without blanks: nothing is ever taken for anything else.          *)

\* A segment that the layout keeps as it is.
Verbatim(s) == s \in Strings /\ cachePathSegment(s) = s

\* Nobody types blanks around a name or a version; only separators are replaced, and a
\* version has none; sanitizeHost tells the hosts of the registries apart.
Tidy ==
  /\ \A f \in Flags : \A s \in {f.namespace, f.name, f.system} : TrimSpace[s] = s
  /\ \A s \in Strings \ Forbidden : Underscored[s] = s
  /\ Concrete \cap (Forbidden \cup Dots) = {}
  /\ \A i, j \in Inputs :
       hostSegment(EndpointKey[i]) = hostSegment(EndpointKey[j]) =>
         EndpointKey[i] = EndpointKey[j]

Hosts == {EndpointKey[i] : i \in Inputs}

\* A module that no other one shares a directory with.
Unmistakable(m) ==
  /\ m \in Exact
  /\ m.source = Empty =>
       /\ Verbatim(m.namespace) /\ Verbatim(m.name)
       /\ Verbatim(m.system) /\ Verbatim(m.version)
       /\ m.registry = "custom" => m.host \in Hosts
       /\ m.registry # "custom" => m.host = Empty

TidyInv ==
  /\ req # None => Unmistakable(Wanted)
  /\ \A d \in DOMAIN disk : Unmistakable(disk[d])
  /\ \A k \in DOMAIN memo : Unmistakable(memo[k].module)
  /\ answer # None => Unmistakable(answer.module)

\* A call is answered from the very module it asked for.
ExactModule ==
  stage = "done" /\ answer # None => answer.module = Asked(req, registryHostFor(req))

LEMMA UnmistakableAreApart ==
  ASSUME Tidy, NEW m, NEW w, Unmistakable(m), Unmistakable(w), Lookalike(m, w)
  PROVE  m = w
<1>1. /\ m \in Modules /\ w \in Modules
      /\ m.source = w.source /\ m.registry = w.registry
  BY DEF Unmistakable, Exact, Lookalike
<1>2. CASE m.source # Empty
  BY <1>1, <1>2 DEF Unmistakable, Exact, Modules
<1>3. CASE m.source = Empty
  <2>1. /\ m.namespace = w.namespace /\ m.name = w.name
        /\ m.system = w.system /\ m.version = w.version
    BY <1>1, <1>3 DEF Unmistakable, Verbatim, Lookalike, Alike
  <2>2. m.host = w.host
    <3>1. CASE m.registry = "custom"
      <4>1. PICK i \in Inputs, j \in Inputs :
              m.host = EndpointKey[i] /\ w.host = EndpointKey[j]
        BY <1>1, <1>3, <3>1 DEF Unmistakable, Hosts
      <4>2. hostSegment(m.host) = hostSegment(w.host)
        BY <3>1 DEF Lookalike
      <4> QED BY <4>1, <4>2 DEF Tidy
    <3>2. CASE m.registry # "custom"
      BY <1>1, <1>3, <3>2 DEF Unmistakable
    <3> QED BY <3>1, <3>2
  <2> QED BY <1>1, <2>1, <2>2 DEF Modules
<1> QED BY <1>2, <1>3

\* What validateSegment lets through is kept as it is, unless there are blanks around it.
LEMMA ValidIsVerbatim ==
  ASSUME Tidy, NEW s \in Strings, TrimSpace[s] = s, validateSegment(s)
  PROVE  Verbatim(s)
BY DEF Tidy, validateSegment, Verbatim, cachePathSegment

LEMMA ConcreteIsVerbatim ==
  ASSUME Tidy, NEW v \in Concrete
  PROVE  Verbatim(v)
<1>1. v \in Strings \ {Empty} /\ TrimSpace[v] = v /\ validateSegment(v)
  BY VersionsAssumption DEF Tidy, validateSegment
<1> QED BY <1>1, ValidIsVerbatim

\* What a request is turned into when the Server has no objection.
LEMMA ServableIsUnmistakable ==
  ASSUME Tidy, IInv, stage = "call", NEW v \in Concrete,
         requestFromCmd(flags).source = Empty, Servable(requestFromCmd(flags))
  PROVE  LET q == Resolved(requestFromCmd(flags), v)
         IN  Unmistakable(Asked(q, registryHostFor(q)))
<1> DEFINE r == requestFromCmd(flags)
           q == Resolved(r, v)
           h == registryHostFor(q)
<1>1. flags \in Flags /\ server \in Servers
  BY DEF IInv, FlagsInv, ServerInv, CommandTypeOK, Called
<1>2. r \in Requests /\ r.source = Empty
  BY <1>1, FlagsTyped
<1>3. \A s \in {r.namespace, r.name, r.system} :
        s \in Strings /\ TrimSpace[s] = s /\ validateSegment(s)
  <2>1. /\ r.namespace = flags.namespace /\ r.name = flags.name
        /\ r.system = flags.system
    BY DEF requestFromCmd
  <2>2. \A s \in {r.namespace, r.name, r.system} : TrimSpace[s] = s
    BY <1>1, <2>1 DEF Tidy
  <2>3. \A s \in {r.namespace, r.name, r.system} : validateSegment(s)
    BY DEF Servable
  <2> HIDE DEF r
  <2>4. r.namespace \in Strings /\ r.name \in Strings /\ r.system \in Strings
    BY <1>2 DEF Requests
  <2> QED BY <2>2, <2>3, <2>4
<1>4. r.registry = "custom" => server.url # Empty
  BY DEF Servable
<1> HIDE DEF r
<1>5. /\ q \in Requests /\ q.source = Empty /\ q.registry = r.registry
      /\ q.namespace = r.namespace /\ q.name = r.name /\ q.system = r.system
      /\ q.version = v
  BY <1>2, VersionsAssumption DEF Resolved, Requests
<1> HIDE DEF q
<1>6. /\ q.registry = "custom" => h \in Hosts
      /\ q.registry # "custom" => h = Empty
      /\ h \in Strings
  BY <1>1, <1>4, <1>5, InputsAssumption, StringsAssumption
     DEF registryHostFor, Hosts, Servers
<1> HIDE DEF h
<1>7. Asked(q, h) \in Exact
  BY <1>5, <1>6, AskedIsExact
<1>8. /\ Asked(q, h).source = Empty /\ Asked(q, h).registry = q.registry
      /\ Asked(q, h).host = h
      /\ Asked(q, h).namespace = r.namespace /\ Asked(q, h).name = r.name
      /\ Asked(q, h).system = r.system /\ Asked(q, h).version = v
  BY <1>5 DEF Asked
<1>9. /\ Verbatim(r.namespace) /\ Verbatim(r.name) /\ Verbatim(r.system)
      /\ Verbatim(v)
  BY <1>3, ValidIsVerbatim, ConcreteIsVerbatim
<1>10. Unmistakable(Asked(q, h))
  BY <1>6, <1>7, <1>8, <1>9 DEF Unmistakable
<1> QED BY <1>10 DEF h, q, r

LEMMA TidyStep == Tidy /\ IInv /\ TidyInv /\ [Next]_vars => TidyInv'
<1> SUFFICES ASSUME Tidy, IInv, TidyInv, [Next]_vars PROVE TidyInv'
  OBVIOUS
<1> USE DEF TidyInv
<1>1. /\ req # None => stage \in Asking \cup {"done", "failed"}
      /\ answer # None => stage = "done"
      /\ stage \in Asking => req # None
  BY DEF IInv, RequestInv, AnswerInv
<1>2. ASSUME req' = None, answer' = None, disk' = disk, memo' \in {memo, <<>>}
      PROVE  TidyInv'
  BY <1>2
<1>3. ASSUME UNCHANGED <<server, req>>, disk' = disk, memo' = memo, answer' = answer
      PROVE  TidyInv'
  BY <1>3, SameRequest
<1>4. CASE Start \/ CallAgain \/ Exit
  BY <1>2, <1>4 DEF Start, CallAgain, Exit, Begin
<1>5. CASE Preparing
  <2>1. stage \notin Asking \cup {"done", "failed"}
    BY <1>5 DEF Preparing, noSource, Validate, newServer, NewServer, Submodule, Asking
  <2> QED
    BY <1>1, <1>2, <1>5, <2>1
       DEF Preparing, noSource, Validate, newServer, NewServer, Submodule
<1>6. CASE GetAvailableVersions \/ FetchLocal
  BY <1>3, <1>6 DEF GetAvailableVersions, FetchLocal
<1>7. CASE ReceiveSource \/ ReceiveRegistry
  <2>1. stage = "call" /\ server' = server /\ disk' = disk /\ memo' = memo
    BY <1>7 DEF ReceiveSource, ReceiveRegistry
  <2>2. req = None /\ answer = None /\ answer' = None
    BY <1>1, <1>7, <2>1 DEF ReceiveSource, ReceiveRegistry, Asking
  <2>3. req' # None => Unmistakable(Asked(req', registryHostFor(req')))
    <3> DEFINE r == requestFromCmd(flags)
    <3>1. flags \in Flags /\ r \in Requests /\ server \in Servers
      BY <2>1, FlagsTyped DEF IInv, FlagsInv, ServerInv, CommandTypeOK, Called
    <3>2. CASE ReceiveSource
      <4>1. req' = None \/ (req' = r /\ r.source # Empty)
        BY <2>2, <3>2 DEF ReceiveSource
      <4> HIDE DEF r
      <4>2. r.source # Empty => registryHostFor(r) = Empty
        BY DEF registryHostFor
      <4>3. Asked(r, Empty) \in Exact
        BY <3>1, AskedIsExact, StringsAssumption
      <4>4. r.source # Empty => Asked(r, Empty).source # Empty
        BY DEF Asked
      <4> QED BY <4>1, <4>2, <4>3, <4>4 DEF Unmistakable
    <3>3. CASE ReceiveRegistry
      <4>1. \/ req' = None
            \/ Servable(r) /\ r.source = Empty /\ r.version \in Concrete /\ req' = r
            \/ /\ Servable(r) /\ r.source = Empty
               /\ \E v \in Published : req' = Resolved(r, v)
        BY <2>2, <3>3 DEF ReceiveRegistry
      <4>2. r.version \in Concrete => r = Resolved(r, r.version)
        <5> HIDE DEF r
        <5> QED BY <3>1 DEF Requests, Resolved
      <4>3. ASSUME NEW v \in Concrete, Servable(r), r.source = Empty,
                   req' = Resolved(r, v)
            PROVE  Unmistakable(Asked(req', registryHostFor(req')))
        BY <2>1, <4>3, ServableIsUnmistakable
      <4>4. Published \subseteq Concrete
        BY VersionsAssumption
      <4> HIDE DEF r
      <4> QED BY <4>1, <4>2, <4>3, <4>4
    <3> QED BY <1>7, <3>2, <3>3
  <2>4. registryHostFor(req)' = registryHostFor(req')
    BY <2>1 DEF registryHostFor
  <2> QED BY <2>1, <2>2, <2>3, <2>4 DEF Wanted, Host
<1>8. CASE Lookup
  <2>1. CASE answer' = answer
    BY <1>3, <1>8, <2>1 DEF Lookup
  <2>2. CASE answer' = memo[Key] /\ Key \in DOMAIN memo
    BY <1>8, <2>2, SameRequest DEF Lookup
  <2> QED BY <1>8, <2>1, <2>2 DEF Lookup
<1>9. CASE FetchRemote
  <2>1. UNCHANGED <<server, req, memo, answer>> /\ req # None
    BY <1>1, <1>9 DEF FetchRemote, Asking
  <2>2. disk' = disk \/ disk' = With(disk, Dir, Wanted)
    BY <1>9 DEF FetchRemote, Wanted, Host
  <2>3. Wanted' = Wanted
    BY <2>1, SameRequest
  <2> QED BY <2>1, <2>2, <2>3 DEF With
<1>10. CASE Inspect
  <2>1. UNCHANGED <<server, req, disk>> /\ req # None
    BY <1>1, <1>10 DEF Inspect, Asking
  <2>2. Unmistakable(Found.module)
    <3>1. CASE InPlace(req)
      BY <2>1, <3>1 DEF Found, Wanted, Host, registryHostFor, InPlace
    <3>2. CASE ~InPlace(req)
      BY <1>10, <3>2 DEF Found, Inspect, IInv, DiskInv
    <3> QED BY <3>1, <3>2
  <2>3. \/ UNCHANGED <<answer, memo>>
        \/ answer' = Found /\ memo' \in {memo, With(memo, Key, Found)}
    BY <1>10 DEF Inspect
  <2>4. Wanted' = Wanted
    BY <2>1, SameRequest
  <2> QED BY <2>1, <2>2, <2>3, <2>4 DEF With
<1>11. CASE Edit \/ UNCHANGED vars
  BY <1>3, <1>11 DEF Edit, vars
<1> QED
  BY <1>4, <1>5, <1>6, <1>7, <1>8, <1>9, <1>10, <1>11 DEF Next, Preparing

\* Where nobody puts blanks around names, and the hosts of the registries stay apart
\* when sanitized, the spellings that RightModule has to make allowance for do not
\* occur: a call is answered from exactly the module asked for, in the version its
\* constraint was resolved to, whatever other processes and calls have cached
\* (server.go:43-58, cache.go:142-157).
THEOREM ExactModuleServed == Tidy => (Spec => []ExactModule)
<1> SUFFICES ASSUME Tidy PROVE Spec => []ExactModule
  OBVIOUS
<1>1. Init => TidyInv
  BY DEF Init, TidyInv
<1>2. IInv /\ TidyInv /\ [Next]_vars => TidyInv'
  BY TidyStep
<1>3. IInv /\ TidyInv => ExactModule
  <2> SUFFICES ASSUME IInv, TidyInv, answer # None PROVE answer.module = Wanted
    BY DEF ExactModule, Wanted, Host
  <2>1. Unmistakable(answer.module) /\ Unmistakable(Wanted)
    BY DEF IInv, AnswerInv, TidyInv
  <2>2. Lookalike(answer.module, Wanted)
    BY DEF IInv, AnswerInv
  <2> QED BY <2>1, <2>2, UnmistakableAreApart
<1>4. Spec => []TidyInv
  BY <1>1, <1>2, Inductive, PTL DEF Spec
<1> QED BY <1>3, <1>4, Inductive, PTL
===============================================================================
