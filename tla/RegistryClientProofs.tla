------------------------- MODULE RegistryClientProofs -------------------------
(***************************************************************************)
(* The registry client for all hosts, environments, credentials files and  *)
(* configurations.                                                         *)
(***************************************************************************)
EXTENDS RegistryClient, TLAPS

\* hostsMatch compares what the two hosts stand for under the scheme of the request.
LEMMA HostsMatchIsSamePort ==
  ASSUME NEW scheme, NEW r \in Hosts, NEW c \in Hosts
  PROVE  hostsMatch(scheme, r, c) <=>
           r.name = c.name /\ Port(scheme, r) = Port(scheme, c)
BY DEF hostsMatch, Port

LEMMA BareIsHost == ASSUME NEW h \in Hosts PROVE Bare(h) \in Hosts
BY DEF Bare, Hosts

LEMMA NearestIsHost ==
  ASSUME NEW h \in Hosts, NEW H PROVE Nearest(h, H) \in {h, Bare(h)}
BY DEF Nearest

LEMMA TokenFromIsToken ==
  ASSUME NEW h \in Hosts, NEW i \in 1 .. NFiles
  PROVE  /\ [from |-> "env", host |-> h, file |-> 0] \in Tokens
         /\ [from |-> "file", host |-> h, file |-> i] \in Tokens
         /\ NoToken \in Tokens /\ Given \in Tokens
BY DEF Tokens

-------------------------------------------------------------------------------
\* A token looked up for a host is one for that host, or for it without its port.

TokenOf(t, h) == t.from \in {"env", "file"} => t.host \in {h, Bare(h)}

LEMMA ResolvedForHost ==
  ASSUME NEW h \in Hosts, NEW env, NEW files, NEW t,
         ResolveTokenForHost(h, env, files, t)
  PROVE  t \in Tokens /\ TokenOf(t, h) /\ t.from # "option"
<1>1. CASE Known(h, EnvHosts(env)) /\ lookupTokenEnv(h, env, t)
  <2>1. t = [from |-> "env", host |-> Nearest(h, EnvHosts(env)), file |-> 0]
    BY <1>1 DEF lookupTokenEnv
  <2>2. Nearest(h, EnvHosts(env)) \in {h, Bare(h)}
    BY NearestIsHost
  <2> QED BY <2>1, <2>2, BareIsHost DEF TokenOf, Tokens
<1>2. CASE ~Known(h, EnvHosts(env)) /\ lookupTokenFile(h, files, t)
  <2>1. CASE t = NoToken
    BY <2>1 DEF TokenOf, Tokens, NoToken
  <2>2. CASE t # NoToken
    <3>1. PICK i \in Deciding(h, files) :
            t = [from |-> "file", host |-> Nearest(h, files[i].hosts), file |-> i]
      BY <1>2, <2>2 DEF lookupTokenFile
    <3>2. i \in 1 .. NFiles
      BY DEF Deciding
    <3>3. Nearest(h, files[i].hosts) \in {h, Bare(h)}
      BY NearestIsHost
    <3> QED BY <3>1, <3>2, <3>3, BareIsHost DEF TokenOf, Tokens
  <2> QED BY <2>1, <2>2
<1> QED BY <1>1, <1>2 DEF ResolveTokenForHost

-------------------------------------------------------------------------------
\* The inductive invariant: types; a client asks only once it has its endpoint; its
\* token is one for the host of the input; what is in flight carries it or nothing.

StageInv ==
  /\ pc \in {"new", "configured", "idle"} => sent = NoToken
  /\ pc = "send" => sent = NoToken
  /\ pc \in {"send", "wait"} => purpose \in {"discovery", "request"}
  /\ purpose = "request" => once = "ok"

TokenInv ==
  /\ token.from \in {"env", "file"} =>
       options.kind = "lazy" /\ token.host \in {options.url.host, Bare(options.url.host)}
  /\ sent # NoToken => sent = token /\ purpose = "request" /\ shouldAuth(url)

IInv == TypeOK /\ StageInv /\ TokenInv

AllFacts == HostAssumption /\ KeyAssumption /\ EntryAssumption /\ OptionsAssumption
              /\ LimitAssumption

LEMMA OptionTypes ==
  ASSUME NEW o \in Options
  PROVE  /\ o.url \in URLs /\ o.url.host \in Hosts
         /\ o.base \in URLs \cup {NoURL}
BY OptionsAssumption DEF OptionRecords, URLs

LEMMA UnseenType == Unseen \in [env : SUBSET Keys, files : [1 .. NFiles -> Files]]
BY EntryAssumption DEF Unseen, Files

LEMMA InitIInv == ASSUME Init PROVE IInv
<1>1. TypeOK
  BY UnseenType, LimitAssumption DEF Init, TypeOK, Tokens
<1>2. StageInv /\ TokenInv
  BY DEF Init, StageInv, TokenInv, NoToken
<1> QED BY <1>1, <1>2 DEF IInv

LEMMA StepConfigure == ASSUME IInv, Configure PROVE IInv'
<1> USE DEF IInv, Configure
<1>1. PICK env \in SUBSET Keys, files \in [1 .. NFiles -> Files] :
        /\ seen' = [env |-> env, files |-> files]
        /\ \/ options.token /\ token' = Given
           \/ ~options.token /\ options.kind = "direct" /\ token' = NoToken
           \/ /\ ~options.token /\ options.kind = "lazy"
              /\ \E t \in Tokens :
                   ResolveTokenForHost(options.url.host, env, files, t) /\ token' = t
  OBVIOUS
<1>2. options.url.host \in Hosts
  BY OptionTypes DEF TypeOK
<1>3. /\ token' \in Tokens
      /\ token'.from \in {"env", "file"} =>
           /\ options.kind = "lazy"
           /\ token'.host \in {options.url.host, Bare(options.url.host)}
  <2>1. CASE token' \in {NoToken, Given}
    BY <2>1 DEF Tokens, NoToken, Given
  <2>2. CASE /\ options.kind = "lazy"
             /\ \E t \in Tokens :
                  ResolveTokenForHost(options.url.host, env, files, t) /\ token' = t
    BY <2>2, <1>2, ResolvedForHost DEF TokenOf
  <2> QED BY <1>1, <2>1, <2>2
<1>4. TypeOK'
  BY <1>1, <1>3 DEF TypeOK
<1>5. StageInv'
  BY DEF StageInv
<1>6. TokenInv'
  BY <1>3 DEF TokenInv, StageInv
<1> QED BY <1>4, <1>5, <1>6

\* A call that is over leaves nothing in flight.
LEMMA OverIInv ==
  ASSUME IInv, Over, options' = options, token' = token,
         seen' \in [env : SUBSET Keys, files : [1 .. NFiles -> Files]],
         once' \in {"ok", "error"} \/ once' = once, base' = base,
         once' = "ok" => once = "ok",
         location' \in URLs \cup {NoURL}
  PROVE  IInv'
<1>1. TypeOK'
  BY LimitAssumption DEF IInv, TypeOK, Over, Tokens
<1>2. StageInv' /\ TokenInv'
  BY DEF IInv, StageInv, TokenInv, Over
<1> QED BY <1>1, <1>2 DEF IInv

\* A request about to be sent carries nothing yet.
LEMMA RequestIInv ==
  ASSUME IInv, NEW what \in {"discovery", "request"}, NEW u \in URLs, Request(what, u),
         options' = options, token' = token, sent' = NoToken,
         seen' \in [env : SUBSET Keys, files : [1 .. NFiles -> Files]],
         once' \in {"fresh", "ok", "error"}, base' \in URLs \cup {NoURL},
         once' = "ok" => base' \in URLs,
         what = "request" => once' = "ok",
         location' \in URLs \cup {NoURL}
  PROVE  IInv'
<1>1. TypeOK'
  BY LimitAssumption DEF IInv, TypeOK, Request, Tokens
<1>2. StageInv' /\ TokenInv'
  BY DEF IInv, StageInv, TokenInv, Request
<1> QED BY <1>1, <1>2 DEF IInv

LEMMA ResolvedIInv ==
  ASSUME IInv, NEW u \in URLs, Resolved(u), options' = options, token' = token,
         location' \in URLs \cup {NoURL},
         seen' \in [env : SUBSET Keys, files : [1 .. NFiles -> Files]]
  PROVE  IInv'
<1>1. BaseURL(u) \in URLs
  BY OptionTypes DEF IInv, TypeOK, BaseURL
<1> QED BY <1>1, RequestIInv DEF Resolved

LEMMA StepAsk == ASSUME IInv, Ask PROVE IInv'
<1>1. /\ seen' \in [env : SUBSET Keys, files : [1 .. NFiles -> Files]]
      /\ options' = options /\ token' = token /\ location' = NoURL
      /\ sent = NoToken /\ options.url \in URLs
  BY UnseenType, OptionTypes DEF Ask, IInv, TypeOK, StageInv
<1>2. CASE /\ Request("discovery", [scheme |-> "https", host |-> options.url.host])
           /\ UNCHANGED <<once, base, sent>>
  <2>1. [scheme |-> "https", host |-> options.url.host] \in URLs
    BY OptionTypes DEF IInv, TypeOK, URLs
  <2> QED BY <1>1, <1>2, <2>1, RequestIInv DEF IInv, TypeOK
<1>3. CASE Resolved(options.url)
  BY <1>1, <1>3, ResolvedIInv
<1>4. CASE Unresolved
  BY <1>1, <1>4, OverIInv DEF Unresolved
<1>5. CASE once = "ok" /\ Request("request", base) /\ UNCHANGED <<once, base, sent>>
  <2>1. base \in URLs
    BY <1>5 DEF IInv, TypeOK
  <2> QED BY <1>1, <1>5, <2>1, RequestIInv
<1>6. CASE Over /\ UNCHANGED <<once, base>>
  BY <1>1, <1>6, OverIInv DEF IInv, TypeOK
<1> QED BY <1>2, <1>3, <1>4, <1>5, <1>6 DEF Ask

LEMMA StepSend == ASSUME IInv, Send PROVE IInv'
<1>1. TypeOK'
  BY LimitAssumption DEF IInv, TypeOK, Send, Tokens
<1>2. StageInv'
  BY DEF IInv, StageInv, Send
<1>3. shouldAuth(url)' <=> shouldAuth(url)
  BY DEF Send, shouldAuth, Scope
<1>4. TokenInv'
  BY <1>3 DEF IInv, StageInv, TokenInv, Send, shouldAuth
<1> QED BY <1>1, <1>2, <1>4 DEF IInv

LEMMA StepRedirect == ASSUME IInv, Redirect PROVE IInv'
<1>1. TypeOK'
  BY DEF IInv, TypeOK, Redirect, Tokens
<1>2. StageInv' /\ TokenInv'
  BY DEF IInv, StageInv, TokenInv, Redirect
<1> QED BY <1>1, <1>2 DEF IInv

LEMMA StepDiscovered == ASSUME IInv, Discovered PROVE IInv'
<1>1. /\ seen' \in [env : SUBSET Keys, files : [1 .. NFiles -> Files]]
      /\ options' = options /\ token' = token /\ url \in URLs
      /\ location' \in URLs \cup {NoURL}
  BY DEF Discovered, IInv, TypeOK
<1>2. CASE \E u \in URLs : Resolved(u)
  BY <1>1, <1>2, ResolvedIInv
<1>3. CASE Unresolved
  BY <1>1, <1>3, OverIInv DEF Unresolved
<1> QED BY <1>1, <1>2, <1>3 DEF Discovered

LEMMA StepAnswered == ASSUME IInv, Answered PROVE IInv'
BY OverIInv DEF Answered, IInv, TypeOK

\* Whatever the registry says, a location is a URL in the end.
LEMMA ResolvedReference ==
  ASSUME NEW loc \in Locations, base \in URLs
  PROVE  ResolveReference(loc) \in URLs
<1>1. CASE loc = Relative
  BY <1>1, HostAssumption DEF ResolveReference
<1>2. CASE loc # Relative /\ loc \in NetworkPaths
  BY <1>2 DEF ResolveReference, NetworkPaths, URLs
<1>3. CASE loc # Relative /\ loc \notin NetworkPaths
  BY <1>3 DEF ResolveReference, Locations
<1> QED BY <1>1, <1>2, <1>3

LEMMA StepLocated == ASSUME IInv, Located PROVE IInv'
<1>1. PICK loc \in Locations : location' = ResolveReference(loc)
  BY DEF Located, preferred
<1>2. base \in URLs
  BY DEF Located, IInv, StageInv, TypeOK
<1>3. location' \in URLs
  BY <1>1, <1>2, ResolvedReference
<1> QED BY <1>3, OverIInv DEF Located, IInv, TypeOK

LEMMA Inductive == IInv /\ [Next]_vars => IInv'
<1> SUFFICES ASSUME IInv, [Next]_vars PROVE IInv'
  OBVIOUS
<1>1. CASE Next
  BY <1>1, StepConfigure, StepAsk, StepSend, StepRedirect, StepDiscovered, StepAnswered,
     StepLocated
     DEF Next, Work
<1>2. CASE UNCHANGED vars
  BY <1>2 DEF vars, IInv, TypeOK, StageInv, TokenInv, shouldAuth, Scope
<1> QED BY <1>1, <1>2

LEMMA ClientInvariant == Spec => []IInv
BY InitIInv, Inductive, PTL DEF Spec

-------------------------------------------------------------------------------

\* Type correctness of the registry client.
THEOREM ClientTypeCorrect == Spec => []TypeOK
<1>1. IInv => TypeOK
  BY DEF IInv
<1> QED BY <1>1, ClientInvariant, PTL

\* A token held for a host goes to that host only (auth.go:104-165).
THEOREM TokensReachOwners == Spec => []TokenReachesOwner
<1>1. IInv => TokenReachesOwner
  <2> SUFFICES ASSUME IInv, sent.from \in {"env", "file"}, options.scope = NoHost
               PROVE  /\ sent.host.name = url.host.name
                      /\ \/ sent.host.port = ""
                         \/ Port(url.scheme, sent.host) = Port(url.scheme, url.host)
    BY DEF TokenReachesOwner
  <2> DEFINE h == options.url.host
  <2>1. sent # NoToken /\ sent = token /\ purpose = "request" /\ shouldAuth(url)
    BY DEF NoToken, IInv, TokenInv
  <2>2. options.kind = "lazy" /\ sent.host \in {h, Bare(h)}
    BY <2>1 DEF IInv, TokenInv
  <2>3. hostsMatch(url.scheme, url.host, h)
    BY <2>1, <2>2 DEF shouldAuth, Scope
  <2>4. h \in Hosts /\ url.host \in Hosts
    <3>1. url \in URLs
      BY <2>1 DEF IInv, StageInv, TypeOK
    <3> QED BY <3>1, OptionTypes DEF IInv, TypeOK, URLs
  <2>5. url.host.name = h.name /\ Port(url.scheme, url.host) = Port(url.scheme, h)
    BY <2>3, <2>4, HostsMatchIsSamePort
  <2>6. Bare(h).name = h.name /\ Bare(h).port = ""
    BY <2>4 DEF Bare, Hosts
  <2> QED BY <2>2, <2>5, <2>6
<1> QED BY <1>1, ClientInvariant, PTL

-------------------------------------------------------------------------------
\* What "first hit wins" says of one lookup.
Hit(h, files, i) == h \in files[i].hosts \/ Bare(h) \in files[i].hosts

InOrder(h, env, files, t) ==
  /\ t.from = "env" <=> (EnvKey[h] \in env \/ EnvKey[Bare(h)] \in env)
  /\ t.from = "env" /\ t.host # h => t.host = Bare(h) /\ EnvKey[h] \notin env
  /\ t.from = "file" =>
       /\ t.host = h \/ (t.host = Bare(h) /\ h \notin files[t.file].hosts)
       /\ t.host \in files[t.file].hosts
       /\ \A j \in 1 .. t.file : ~files[j].broken /\ (Hit(h, files, j) => j = t.file)
  /\ t = NoToken =>
       \A i \in 1 .. NFiles : Hit(h, files, i) => \E j \in 1 .. i : files[j].broken

LEMMA LookupInOrder ==
  ASSUME NEW h \in Hosts, NEW env, NEW files, NEW t,
         ResolveTokenForHost(h, env, files, t)
  PROVE  InOrder(h, env, files, t)
<1> USE DEF Hit, InOrder
<1>0. Bare(h) \in Hosts
  BY BareIsHost
<1>1. Known(h, EnvHosts(env)) <=> (EnvKey[h] \in env \/ EnvKey[Bare(h)] \in env)
  BY <1>0 DEF Known, EnvHosts
<1>2. CASE Known(h, EnvHosts(env)) /\ lookupTokenEnv(h, env, t)
  <2>1. t.from = "env" /\ t # NoToken /\ t.host = Nearest(h, EnvHosts(env))
    BY <1>2 DEF lookupTokenEnv, NoToken
  <2>2. t.host # h => t.host = Bare(h) /\ EnvKey[h] \notin env
    BY <2>1 DEF Nearest, EnvHosts
  <2> QED BY <1>1, <1>2, <2>1, <2>2
<1>3. CASE ~Known(h, EnvHosts(env)) /\ lookupTokenFile(h, files, t)
  <2>1. \A i \in 1 .. NFiles : Known(h, files[i].hosts) <=> Hit(h, files, i)
    BY DEF Known
  <2>2. CASE Deciding(h, files) = {} /\ t = NoToken
    BY <1>1, <1>3, <2>1, <2>2 DEF Deciding, NoToken
  <2>3. CASE Deciding(h, files) # {}
    <3>1. PICK i \in Deciding(h, files) :
            /\ \A j \in Deciding(h, files) : i <= j
            /\ \/ files[i].broken /\ t = NoToken
               \/ /\ ~files[i].broken
                  /\ t = [from |-> "file", host |-> Nearest(h, files[i].hosts), file |-> i]
      BY <1>3, <2>3 DEF lookupTokenFile
    <3>2. i \in 1 .. NFiles /\ (files[i].broken \/ Known(h, files[i].hosts))
      BY DEF Deciding
    <3>3. \A j \in 1 .. i : j # i => ~files[j].broken /\ ~Hit(h, files, j)
      BY <3>1, <3>2, <2>1, LimitAssumption DEF Deciding
    <3>4. CASE files[i].broken /\ t = NoToken
      <4>1. t.from = "none"
        BY <3>4 DEF NoToken
      <4>2. \A x \in 1 .. NFiles : Hit(h, files, x) => i \in 1 .. x
        BY <3>1, <3>2, <2>1, LimitAssumption DEF Deciding
      <4> QED BY <1>1, <1>3, <3>4, <4>1, <4>2
    <3>5. CASE /\ ~files[i].broken
               /\ t = [from |-> "file", host |-> Nearest(h, files[i].hosts), file |-> i]
      <4>1. /\ t.from = "file" /\ t.file = i /\ t # NoToken
            /\ t.host = Nearest(h, files[i].hosts)
        BY <3>5 DEF NoToken
      <4>2. /\ t.host = h \/ (t.host = Bare(h) /\ h \notin files[i].hosts)
            /\ t.host \in files[i].hosts
        BY <3>2, <3>5, <4>1 DEF Nearest, Known
      <4>3. \A j \in 1 .. i : ~files[j].broken /\ (Hit(h, files, j) => j = i)
        BY <3>3, <3>5
      <4> QED BY <1>1, <1>3, <4>1, <4>2, <4>3
    <3> QED BY <3>1, <3>4, <3>5
  <2> QED BY <1>3, <2>2, <2>3 DEF lookupTokenFile
<1> QED BY <1>2, <1>3 DEF ResolveTokenForHost

\* The token is the first one in the documented order (token.go:38-55, server.go:137-140).
THEOREM TokensInOrder == Spec => []FirstHitWins
<1>1. Init => FirstHitWins
  BY DEF Init, FirstHitWins
<1>2. IInv /\ FirstHitWins /\ [Next]_vars => FirstHitWins'
  <2> SUFFICES ASSUME IInv, FirstHitWins, [Next]_vars PROVE FirstHitWins'
    OBVIOUS
  <2>1. CASE Configure
    <3>1. PICK env \in SUBSET Keys, files \in [1 .. NFiles -> Files] :
            /\ seen' = [env |-> env, files |-> files]
            /\ \/ options.token /\ token' = Given
               \/ ~options.token /\ options.kind = "direct" /\ token' = NoToken
               \/ /\ ~options.token /\ options.kind = "lazy"
                  /\ \E t \in Tokens :
                       ResolveTokenForHost(options.url.host, env, files, t) /\ token' = t
      BY <2>1 DEF Configure
    <3>2. options.url.host \in Hosts /\ options' = options
      BY <2>1, OptionTypes DEF IInv, TypeOK, Configure
    <3>3. CASE options.token
      BY <3>1, <3>2, <3>3 DEF FirstHitWins, Given
    <3>4. CASE ~options.token /\ options.kind = "lazy"
      <4>1. ResolveTokenForHost(options.url.host, env, files, token')
        BY <3>1, <3>4
      <4>2. token'.from # "option"
        BY <4>1, <3>2, ResolvedForHost
      <4>3. InOrder(options.url.host, env, files, token')
        BY <3>2, <4>1, LookupInOrder
      <4>4. seen'.env = env /\ seen'.files = files
        BY <3>1
      <4> QED BY <3>2, <3>4, <4>2, <4>3, <4>4 DEF FirstHitWins, InOrder, Hit
    <3> QED BY <3>2, <3>3, <3>4 DEF FirstHitWins
  <2>2. CASE Ask \/ Work
    BY <2>2 DEF Ask, Work, Send, Redirect, Discovered, Answered, Located, Resolved,
                Unresolved,
                Over, Request, FirstHitWins
  <2>3. CASE UNCHANGED vars
    BY <2>3 DEF vars, FirstHitWins
  <2> QED BY <2>1, <2>2, <2>3 DEF Next
<1> QED BY <1>1, <1>2, ClientInvariant, PTL DEF Spec
===============================================================================
