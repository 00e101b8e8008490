--------------------------- MODULE MCRegistryClient ---------------------------
(* The configured host, with and without ports, one of them the default of  *)
(* https, and a host of somebody else.  Two of the hosts share a variable.  *)
EXTENDS RegistryClient, TLC

CONSTANTS home, away, k1, k2, k3

H(n, p)  == [name |-> n, port |-> p]
U(h)     == [scheme |-> "https", host |-> h]
MCNames  == {home, away}
MCPorts  == {"443", "8443"}
MCKeys   == {k1, k2, k3}
MCEnvKey ==
  [h \in [name : MCNames, port : MCPorts \cup {""}] |->
     IF h.name = away \/ h.port = "443" THEN k3 ELSE IF h.port = "" THEN k1 ELSE k2]
MCEntries == SUBSET {H(home, ""), H(home, "8443")} \cup {{H(home, "443")}}

Plain == [kind |-> "lazy", url |-> U(H(home, "")), path |-> FALSE, token |-> FALSE,
          scope |-> NoHost, base |-> NoURL, policy |-> FALSE, preferHeader |-> FALSE]
MCOptions ==
  {Plain,
   [Plain EXCEPT !.policy = TRUE, !.url = U(H(home, "443"))],
   [Plain EXCEPT !.url = U(H(home, "8443")), !.token = TRUE, !.policy = TRUE],
   [Plain EXCEPT !.url = U(H(home, "8443"))],
   [Plain EXCEPT !.path = TRUE, !.base = U(H(away, ""))],
   [Plain EXCEPT !.scope = H(away, "443")],
   [Plain EXCEPT !.kind = "direct", !.path = TRUE, !.token = TRUE],
   [Plain EXCEPT !.kind = "direct", !.path = TRUE, !.policy = TRUE,
                 !.preferHeader = TRUE]}
===============================================================================
