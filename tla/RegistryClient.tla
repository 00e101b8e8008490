---------------------------- MODULE RegistryClient ----------------------------
(***************************************************************************)
(* One custom registry as one goroutine sees it, down to its HTTP requests:*)
(* where its bearer token comes from (WithCustomRegistry, token.go), where *)
(* its endpoint comes from (LazyCustom.resolve, discovery.go, custom.go),  *)
(* and which requests carry the token while the other side redirects them  *)
(* (auth.go), and which location a download has in the end (http.go).      *)
(*                                                                         *)
(* A host is a name and a port, "" for none; letter case is folded, as the *)
(* code does on both sides of every comparison.  Of a URL, the path is left *)
(* out.  A credentials file is the set of hosts it has a token for.        *)
(***************************************************************************)
EXTENDS Naturals

CONSTANTS
  Names, Ports,     \* host names; explicit ports
  Keys, EnvKey,     \* environment variables; EnvKey[h] is TF_TOKEN_<h>
  NFiles,           \* the length of credentialsFilePaths
  Entries,          \* the sets of hosts that a credentials file may know
  Options,          \* the configurations of a registry
  NoHost, NoURL,    \* the empty host; the empty URL
  Relative,         \* a location that is a path: "/...", "./..." or "../..."
  MaxRequests,      \* net/http gives up when it has sent so many (10)
  OwnLimit          \* a client with a CheckRedirect of its own gives up here

Hosts    == [name : Names, port : Ports \cup {""}]
URLs     == [scheme : {"http", "https"}, host : Hosts]
Files    == [broken : BOOLEAN, hosts : Entries]

\* kind: through WithCustomRegistry ("lazy"), or with NewCustom, or NewOpenTofu and
\* NewTerraform with the URL they have by default ("direct").  url, path: the input;
\* without a path it is a host, and its scheme means nothing.  token: whether
\* WithBearerToken was given; scope, base: WithBearerHost, WithBaseURL; policy:
\* whether the http.Client has a CheckRedirect; preferHeader: that of NewTerraform.
OptionRecords ==
  [kind : {"lazy", "direct"}, url : URLs, path : BOOLEAN, token : BOOLEAN,
   scope : Hosts \cup {NoHost}, base : URLs \cup {NoURL}, policy : BOOLEAN,
   preferHeader : BOOLEAN]

\* What a registry may say of a download: a URL, a path, or "//host/path", which names
\* a host and no scheme and begins with "/" like a path.
NetworkPaths == [host : Hosts]
Locations    == URLs \cup NetworkPaths \cup {Relative}

ASSUME HostAssumption    ==
  /\ NoHost \notin Hosts /\ "" \notin Ports
  /\ NoURL \notin Locations /\ Relative \notin URLs \cup NetworkPaths
ASSUME KeyAssumption     == EnvKey \in [Hosts -> Keys]
ASSUME EntryAssumption   == {} \in Entries /\ \A E \in Entries : E \subseteq Hosts
ASSUME OptionsAssumption ==
  Options \subseteq {o \in OptionRecords : /\ o.kind = "direct" => o.path
                                         /\ o.preferHeader => o.kind = "direct"}
ASSUME LimitAssumption   ==
  /\ NFiles \in Nat /\ MaxRequests \in Nat \ {0} /\ OwnLimit \in 1 .. MaxRequests

VARIABLES
  options,    \* the configuration
  seen,       \* history: what the environment held when the token was looked up
  token,      \* options.bearerToken
  once,       \* the sync.Once of LazyCustom, with its outcome
  base,       \* Custom.opts.baseURL
  pc,         \* control point
  purpose,    \* what the request is for
  url, via,   \* of the HTTP request: where it goes, how many came before it
  sent,       \* the token that the request in flight carries
  location    \* what the last call of ResolveDownload returned

vars == <<options, seen, token, once, base, pc, purpose, url, via, sent, location>>

-------------------------------------------------------------------------------
\* The token: its source, and the host it is a token for.

NoToken == [from |-> "none", host |-> NoHost, file |-> 0]
Given   == [from |-> "option", host |-> NoHost, file |-> 0]
Bare(h) == [h EXCEPT !.port = ""]

Tokens  == {NoToken, Given}
  \cup [from : {"env"}, host : Hosts, file : {0}]
  \cup [from : {"file"}, host : Hosts, file : 1 .. NFiles]

\* Of the hosts in H: the host with its port, or else the host without it.
Known(h, H)   == {h, Bare(h)} \cap H # {}
Nearest(h, H) == IF h \in H THEN h ELSE Bare(h)

EnvHosts(env) == {h \in Hosts : EnvKey[h] \in env}
lookupTokenEnv(h, env, t) ==
  t = [from |-> "env", host |-> Nearest(h, EnvHosts(env)), file |-> 0]

Deciding(h, files) == {i \in 1 .. NFiles : files[i].broken \/ Known(h, files[i].hosts)}

\* Variant: a file that cannot be parsed is passed over.
lookupTokenFileSkips(h, files, t) ==
  LET D == {i \in Deciding(h, files) : ~files[i].broken} IN
    \/ D = {} /\ t = NoToken
    \/ \E i \in D :
         /\ \A j \in D : i <= j
         /\ t = [from |-> "file", host |-> Nearest(h, files[i].hosts), file |-> i]

\* The first file that is broken or knows the host decides; the error that a
\* broken one gives is dropped by WithCustomRegistry, which goes on without a token.
lookupTokenFile(h, files, t) ==
  \/ Deciding(h, files) = {} /\ t = NoToken
  \/ \E i \in Deciding(h, files) :
       /\ \A j \in Deciding(h, files) : i <= j
       /\ \/ files[i].broken /\ t = NoToken
          \/ /\ ~files[i].broken
             /\ t = [from |-> "file", host |-> Nearest(h, files[i].hosts), file |-> i]

ResolveTokenForHost(h, env, files, t) ==
  \/ Known(h, EnvHosts(env)) /\ lookupTokenEnv(h, env, t)
  \/ ~Known(h, EnvHosts(env)) /\ lookupTokenFile(h, files, t)

-------------------------------------------------------------------------------
\* The hosts that get it.

DefaultPort(scheme) == IF scheme = "https" THEN "443" ELSE "80"
PortOr(h, p)        == IF h.port = "" THEN p ELSE h.port

hostsMatch(scheme, req, cfg) ==
  \/ req = cfg
  \/ /\ req.name = cfg.name
     /\ LET d == DefaultPort(scheme) IN PortOr(req, d) = PortOr(cfg, d)

\* Variant: the host that discovery found is the one the token is for.
ScopeFound == IF options.scope # NoHost THEN options.scope ELSE base.host

\* applyBearer: WithBearerHost wins over the host of the input, which
\* LazyCustom.resolve passes first, and that over the host of the base URL.
Scope ==
  IF options.scope # NoHost THEN options.scope
  ELSE IF options.kind = "lazy" THEN options.url.host
  ELSE base.host

shouldAuth(u) == token # NoToken /\ hostsMatch(u.scheme, u.host, Scope)

\* Registry requests go through the client that applyBearer made, discovery
\* through the one it was given.
Authenticated == purpose = "request" /\ token # NoToken

\* Variant: the CheckRedirect of the client is forgotten.
MayFollowAny == Authenticated \/ via < (IF options.policy THEN OwnLimit ELSE MaxRequests)

\* Whether a redirect is followed.  The CheckRedirect of applyBearer asks the
\* client's own; having one, net/http does not count to MaxRequests itself.  (The
\* header it deletes was never set: RoundTrip sets it on a clone of the request.)
MayFollow ==
  /\ options.policy => via < OwnLimit
  /\ ~options.policy /\ ~Authenticated => via < MaxRequests

-------------------------------------------------------------------------------
\* The steps of one goroutine.

Unseen == [env |-> {}, files |-> [i \in 1 .. NFiles |-> [broken |-> FALSE, hosts |-> {}]]]

\* What NewCustom was given, or what WithBaseURL says.
BaseURL(u) == IF options.base # NoURL THEN options.base ELSE u

Init ==
  /\ options \in Options
  /\ seen = Unseen
  /\ token = NoToken
  /\ once = "fresh" /\ base = NoURL
  /\ pc = "new" /\ purpose = "none" /\ url = NoURL /\ via = 0
  /\ sent = NoToken /\ location = NoURL

\* WithCustomRegistry; NewCustom itself looks for no token.
Configure ==
  /\ pc = "new"
  /\ \E env \in SUBSET Keys, files \in [1 .. NFiles -> Files] :
       /\ seen' = [env |-> env, files |-> files]
       /\ \/ options.token /\ token' = Given
          \/ ~options.token /\ options.kind = "direct" /\ token' = NoToken
          \/ /\ ~options.token /\ options.kind = "lazy"
             /\ \E t \in Tokens :
                  ResolveTokenForHost(options.url.host, env, files, t) /\ token' = t
  /\ pc' = "configured"
  /\ UNCHANGED <<options, once, base, purpose, url, via, sent, location>>

\* The request is over, with an answer or an error.
Over ==
  /\ pc' = "idle" /\ purpose' = "none" /\ url' = NoURL /\ via' = 0
  /\ sent' = NoToken

Request(what, u) == pc' = "send" /\ purpose' = what /\ url' = u /\ via' = 0

\* Variant: the Custom that was made is not stored.
ResolvedUnset(u) ==
  /\ once' = "ok" /\ base' = base
  /\ Request("request", BaseURL(u))
  /\ sent' = NoToken

\* The outcome of sync.Once: NewCustom accepts the base URL ...
Resolved(u) ==
  /\ once' = "ok" /\ base' = BaseURL(u)
  /\ Request("request", BaseURL(u))
  /\ sent' = NoToken

\* ... or there is none that it accepts (also for its query, fragment, userinfo).
Unresolved ==
  /\ once' = "error"
  /\ Over
  /\ UNCHANGED base

\* ListVersions or ResolveDownload: the first one resolves the endpoint, by
\* discovery over https if the input is a host.
Ask ==
  /\ pc \in {"configured", "idle"}
  /\ \/ /\ once = "fresh" /\ ~options.path
        /\ Request("discovery", [scheme |-> "https", host |-> options.url.host])
        /\ UNCHANGED <<once, base, sent>>
     \/ once = "fresh" /\ options.path /\ (Resolved(options.url) \/ Unresolved)
     \/ /\ once = "ok"
        /\ Request("request", base)
        /\ UNCHANGED <<once, base, sent>>
     \/ once = "error" /\ Over /\ UNCHANGED <<once, base>>
  /\ seen' = Unseen /\ location' = NoURL
  /\ UNCHANGED <<options, token>>

Send ==
  /\ pc = "send"
  /\ sent' = IF purpose = "request" /\ shouldAuth(url) THEN token ELSE NoToken
  /\ via' = IF via < MaxRequests THEN via + 1 ELSE via
  /\ pc' = "wait"
  /\ UNCHANGED <<options, seen, token, once, base, purpose, url, location>>

Redirect ==
  /\ pc = "wait" /\ MayFollow
  /\ \E u \in URLs : url' = u
  /\ pc' = "send" /\ sent' = NoToken
  /\ UNCHANGED <<options, seen, token, once, base, purpose, via, location>>

\* fetchDiscovery: modules.v1 is a URL, or relative to the URL that answered.
Discovered ==
  /\ pc = "wait" /\ purpose = "discovery"
  /\ \/ \E u \in URLs : Resolved(u)
     \/ Resolved(url)
     \/ Unresolved
  /\ UNCHANGED <<options, seen, token, location>>

\* ListVersions is answered, or there is an error: of the network, of the registry,
\* a redirect that is not followed, a download without a location.
Answered ==
  /\ pc = "wait" /\ purpose = "request"
  /\ Over
  /\ UNCHANGED <<options, seen, token, once, base, location>>

\* The X-Terraform-Get header or the body, which a 204 does not have; NoURL stands
\* for one that is missing, blank or does not parse.
preferred(status, header, body) ==
  LET content == IF status = 200 THEN body ELSE NoURL IN
    IF options.preferHeader
      THEN IF header # NoURL THEN header ELSE content
      ELSE IF content # NoURL THEN content ELSE header

\* A location that begins with "/", "./" or "../" is resolved against the endpoint.
ResolveReference(loc) ==
  CASE loc = Relative         -> base
    [] loc \in NetworkPaths   -> [base EXCEPT !.host = loc.host]
    [] OTHER                  -> loc

\* resolveDownload has found a location.
Located ==
  /\ pc = "wait" /\ purpose = "request"
  /\ \E status \in {200, 204}, header, body \in Locations \cup {NoURL} :
       LET loc == preferred(status, header, body) IN
         /\ loc # NoURL
         /\ location' = ResolveReference(loc)
  /\ Over
  /\ UNCHANGED <<options, seen, token, once, base>>

Work == Send \/ Redirect \/ Discovered \/ Answered \/ Located
Next == Configure \/ Ask \/ Work

Spec == Init /\ [][Next]_vars

\* Every request is answered in the end, be it by one more redirect.
FairSpec == Spec /\ WF_vars(Work)

-------------------------------------------------------------------------------

\* Type invariant of the registry client.
TypeOK ==
  /\ options \in Options
  /\ seen \in [env : SUBSET Keys, files : [1 .. NFiles -> Files]]
  /\ token \in Tokens
  /\ once \in {"fresh", "ok", "error"}
  /\ base \in URLs \cup {NoURL} /\ (once = "ok" => base \in URLs)
  /\ pc \in {"new", "configured", "idle", "send", "wait"}
  /\ purpose \in {"none", "discovery", "request"}
  /\ url \in URLs \cup {NoURL} /\ (pc \in {"send", "wait"} => url \in URLs)
  /\ via \in 0 .. MaxRequests
  /\ sent \in Tokens
  /\ location \in URLs \cup {NoURL}

Port(scheme, h) == PortOr(h, DefaultPort(scheme))

\* A token that the environment or a file holds for a host goes to that host only,
\* whatever discovery found and wherever requests were redirected: same name, and
\* same port unless it was held for the host without a port.  WithBearerHost may
\* say otherwise.  (README.md:236-239)
TokenReachesOwner ==
  sent.from \in {"env", "file"} /\ options.scope = NoHost =>
    /\ sent.host.name = url.host.name
    /\ \/ sent.host.port = ""
       \/ Port(url.scheme, sent.host) = Port(url.scheme, url.host)

\* "Tokens are resolved in the following order (first hit wins)" (README.md:206):
\* the option; the environment, host with port first; the files in order, each
\* with the port first, none read after one that does not parse.
FirstHitWins ==
  pc = "configured" /\ options.kind = "lazy" =>
    LET h == options.url.host
        inEnv(x)     == EnvKey[x] \in seen.env
        inFile(i, x) == x \in seen.files[i].hosts
        hit(i)       == inFile(i, h) \/ inFile(i, Bare(h))
        broken(i)    == seen.files[i].broken
    IN
    /\ options.token <=> token.from = "option"
    /\ ~options.token =>
       /\ token.from = "env" <=> inEnv(h) \/ inEnv(Bare(h))
       /\ token.from = "env" /\ token.host # h => token.host = Bare(h) /\ ~inEnv(h)
       /\ token.from = "file" =>
            /\ token.host = h \/ (token.host = Bare(h) /\ ~inFile(token.file, h))
            /\ inFile(token.file, token.host)
            /\ \A j \in 1 .. token.file : ~broken(j) /\ (hit(j) => j = token.file)
       /\ token = NoToken =>
            \A i \in 1 .. NFiles : hit(i) => \E j \in 1 .. i : broken(j)

\* Discovery, and a request of a client that has no token or a CheckRedirect of its
\* own, come to an end, whatever the other side redirects them to.
LimitedRequestsEnd ==
  /\ (pc = "send" /\ purpose = "discovery") ~> (purpose # "discovery")
  /\ (pc = "send" /\ (options.policy \/ token = NoToken)) ~> (pc = "idle")

\* "WithBearerToken composes with WithHTTPClient" (auth.go:19-20): with a token as
\* without, a request comes to an end.
RequestsEnd == (pc = "send") ~> (pc = "idle")
===============================================================================
