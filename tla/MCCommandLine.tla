---------------------------- MODULE MCCommandLine ----------------------------
(* Invocations in five slices, each of which varies the flags that one part *)
(* of the code looks at.                                                    *)
EXTENDS CommandLine, TLC

CONSTANTS t1, t2

MCGiven == {"", " ", "./mod", ".terraform/mod", "file::mod", "file://mod/x", "file:///mod",
            "git::https://x", "https://x", "C:/mod", "github.com/x", " ./mod"}
MCConcrete  == {"1.0.0", "2.0.0"}
MCPublished == {"2.0.0"}
MCForbidden == {"a/b", "h:8443", "x/y"}
MCDots      == {".", ".."}
MCStrings ==
  MCGiven \cup MCConcrete \cup MCForbidden \cup MCDots \cup
  {"default", "acme", "vpc", " vpc", "aws", "a_b", "h_8443", "H:8443", " h:8443", "x_y",
   " 1.0.0", "~> 1", "k", "key", "env"}

MCTrimSpace ==
  (" " :> "") @@ (" vpc" :> "vpc") @@ (" h:8443" :> "h:8443") @@ (" 1.0.0" :> "1.0.0")
    @@ (" ./mod" :> "./mod") @@ [s \in MCStrings |-> s]
MCToLower     == ("H:8443" :> "h:8443") @@ [s \in MCStrings |-> s]
MCUnderscored == ("a/b" :> "a_b") @@ ("h:8443" :> "h_8443") @@ ("x/y" :> "x_y")
                   @@ [s \in MCStrings |-> s]
MCDigest      == [s \in MCStrings |-> s]

MCInputs      == {"h:8443", "H:8443", "h_8443", "k"}
MCEndpointKey == ("h:8443" :> "h:8443") @@ ("H:8443" :> "h:8443") @@
                 ("h_8443" :> "h_8443") @@ ("k" :> "k")

Form(getter, scheme, lead, uri) ==
  [getter |-> getter, scheme |-> scheme, lead |-> lead, uri |-> uri]
MCShape ==
  ("./mod"          :> Form("none", "none", "dot", "path"))     @@
  (".terraform/mod" :> Form("none", "none", "dot", "path"))     @@
  ("file::mod"      :> Form("file", "none", "plain", "path"))   @@
  ("file://mod/x"   :> Form("none", "file", "plain", "host"))   @@
  ("file:///mod"    :> Form("none", "file", "plain", "path"))   @@
  ("git::https://x" :> Form("other", "none", "plain", "path"))  @@
  ("https://x"      :> Form("none", "other", "plain", "path"))  @@
  ("C:/mod"         :> Form("none", "none", "drive", "path"))   @@
  [s \in MCGiven   |-> Form("none", "none", "plain", "path")]

MCBase == <<"cache", "entry">>
MCDotDotNames == {"..x"}
MCComponents  == {".", "..", "..x", "a", "cache", "entry"}
Typed         == UNION {[1..n -> {".", "..", "..x", "a"}] : n \in 0..3}
Plain         == [kind |-> "relative", parts |-> <<"a">>]
MCPaths ==
  [kind : {"relative"}, parts : Typed] \cup
  {[kind |-> k, parts |-> <<"a">>] : k \in {"absolute", "backslash", "volume"}}

Usual ==
  [command |-> "schema", source |-> "", namespace |-> "acme", name |-> "vpc",
   system |-> "aws", version |-> "1.0.0", submodule |-> Root, registry |-> "opentofu",
   url |-> "", token |-> Unset, env |-> "", force |-> FALSE]

\* What validation looks at.
Validation ==
  {[Usual EXCEPT !.command = c, !.source = s, !.namespace = n, !.version = v, !.url = u] :
     c \in {"schema", "versions"}, s \in {"", " ", "git::https://x"},
     n \in {"", " ", "acme", "a/b", ".."},
     v \in {"", "1.0.0", " 1.0.0"}, u \in {"", "h:8443"}} \cup
  {[Usual EXCEPT !.command = c, !.source = s, !.namespace = "", !.name = "",
                 !.system = "", !.version = v, !.url = u] :
     c \in {"schema", "versions"}, s \in MCGiven, v \in {"", " 1.0.0", "~> 1"},
     u \in {"", "h:8443"}}
\* The registry and its token.
Tokens ==
  {[Usual EXCEPT !.command = c, !.source = s, !.registry = r, !.url = u,
                 !.token = t, !.env = e] :
     c \in {"schema", "submodules"}, s \in {"", " "}, r \in {"opentofu", "custom"},
     u \in {"", "H:8443", " h:8443", "x/y"},
     t \in {Unset, "key", "env"}, e \in {"", "env"}}
\* What directories and keys are made of.
Layout ==
  {[Usual EXCEPT !.command = c, !.name = n, !.registry = r, !.url = u,
                 !.force = f, !.version = v] :
     c \in {"schema", "submodules", "library"}, n \in {"vpc", " vpc", " ", "default"},
     r \in {"terraform", "other"}, u \in {"", "h:8443", "h_8443", "k"}, f \in BOOLEAN,
     v \in {"", "1.0.0"}}
\* Paths of submodules.
Submodules ==
  {[Usual EXCEPT !.command = c, !.submodule = p] : c \in {"schema", "library"}, p \in MCPaths}
\* Sources, as a program gives them.
SourceCalls ==
  {[Usual EXCEPT !.command = "library", !.source = s] : s \in MCGiven}

MCFlags == Validation \cup Tokens \cup Layout \cup Submodules \cup SourceCalls
===============================================================================
