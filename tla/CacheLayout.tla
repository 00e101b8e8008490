------------------------------ MODULE CacheLayout ------------------------------
(***************************************************************************)
(* Which directory of the cache and which entry of the memo a module is    *)
(* kept under (cache.go, server.go:43-58).  A string is a member of        *)
(* Strings; what the code does to strings is given by functions on them.   *)
(* A directory is the sequence of its path segments below the cache        *)
(* directory.                                                              *)
(***************************************************************************)
CONSTANTS
  Strings,
  Empty,              \* ""
  Default,            \* "default"
  Dots,               \* "." and ".."
  TrimSpace,          \* strings.TrimSpace
  ToLower,            \* strings.ToLower
  Underscored,        \* '/', '\' and ':' replaced by '_'
  Digest              \* the first 16 hexadecimal digits of the SHA-256 digest

ASSUME StringsAssumption ==
  /\ {Empty, Default} \subseteq Strings /\ Dots \subseteq Strings
  /\ Empty # Default /\ Dots \cap {Empty, Default} = {}
ASSUME TrimAssumption ==
  /\ TrimSpace \in [Strings -> Strings] /\ TrimSpace[Empty] = Empty
  /\ \A s \in Strings : TrimSpace[TrimSpace[s]] = TrimSpace[s]
ASSUME ToLowerAssumption == ToLower \in [Strings -> Strings]
\* A name with a separator in it is neither empty nor a dot.
ASSUME UnderscoredAssumption ==
  /\ Underscored \in [Strings -> Strings]
  /\ \A s \in Strings \ ({Empty} \cup Dots) : Underscored[s] \notin {Empty} \cup Dots
\* "enough to avoid collisions in practice" (cache.go:190-194).
ASSUME DigestAssumption ==
  /\ Digest \in [Strings -> Strings]
  /\ \A s, t \in Strings : Digest[s] = Digest[t] => s = t

Public     == {"opentofu", "terraform"}
Registries == Public \cup {"custom"}

\* A Request: source is Empty for a module of a registry.
Requests == [source : Strings, registry : Registries, namespace : Strings,
             name : Strings, system : Strings, version : Strings]

\* Variant: an unknown type is kept.
givenRegistryType(r) == r

normalizedRegistryType(r) == IF r \in {"terraform", "custom"} THEN r ELSE "opentofu"

cachePathSegment(value) ==
  LET v == TrimSpace[value] IN
    IF v \in {Empty} \cup Dots THEN Default ELSE Underscored[v]

sanitizeHost(host) == cachePathSegment(ToLower[host])

hostSegment(host) == sanitizeHost(IF host = Empty THEN Default ELSE host)

\* Variant: the custom registries share one directory.
cacheModuleDirNoHost(req, host) ==
  <<req.registry, cachePathSegment(req.namespace), cachePathSegment(req.name),
    cachePathSegment(req.system), cachePathSegment(req.version)>>

cacheModuleDir(req, host) ==
  IF req.registry = "custom"
    THEN <<"custom", hostSegment(host),
           cachePathSegment(req.namespace), cachePathSegment(req.name),
           cachePathSegment(req.system), cachePathSegment(req.version)>>
    ELSE <<req.registry, cachePathSegment(req.namespace), cachePathSegment(req.name),
           cachePathSegment(req.system), cachePathSegment(req.version)>>

cacheSourceDir(source) == <<"source", Digest[source]>>

\* Where fetchModule and fetchSource keep what they download for a request.
CacheDir(req, host) ==
  IF req.source = Empty THEN cacheModuleDir(req, host) ELSE cacheSourceDir(req.source)

\* What was downloaded: a source, or a module version of one registry.  For a
\* source the other fields do not count.
Asked(req, host) ==
  IF req.source = Empty
    THEN [source |-> Empty, registry |-> req.registry, host |-> host,
          namespace |-> req.namespace, name |-> req.name,
          system |-> req.system, version |-> req.version]
    ELSE [source |-> req.source, registry |-> "source", host |-> Empty,
          namespace |-> Empty, name |-> Empty, system |-> Empty, version |-> Empty]

\* The key of the memo.
moduleKey(req, host, sub) == [module |-> Asked(req, host), subpath |-> sub]

\* Two segments which the cache does not tell apart: they differ in blanks around
\* them, or in one having '_' where the other has a separator, or in both being
\* blank or dots.
Alike(s, t) == cachePathSegment(s) = cachePathSegment(t)

\* What a request gets when an entry made for m is taken for an entry made for w.
Lookalike(m, w) ==
  /\ m.source = w.source
  /\ m.registry = w.registry
  /\ m.registry = "custom" => hostSegment(m.host) = hostSegment(w.host)
  /\ Alike(m.namespace, w.namespace) /\ Alike(m.name, w.name)
  /\ Alike(m.system, w.system)       /\ Alike(m.version, w.version)
===============================================================================
