-------------------------- MODULE MCRedirectPolicy --------------------------
(***************************************************************************)
(* RedirectPolicy on a small web: an application's host written in two     *)
(* ways and with a trailing dot, the loopback addresses, one of them       *)
(* written in two ways, and the name localhost; URIs with and without ://  *)
(* before the host, one with it further back.                              *)
(***************************************************************************)
EXTENDS RedirectPolicy, FiniteSets, FiniteSetsExt

CONSTANTS v4, v6, local, app, dotted, noHost, none, noTail

MCSpellings == {"127.0.0.1", "127.1", "[::1]", "localhost", "app", "APP", "app.", "[app"}
MCHosts == {v4, v6, local, app, dotted}

MCParsed == [s \in MCSpellings |->
    CASE s \in {"127.0.0.1", "127.1"} -> v4
      [] s = "[::1]" -> v6
      [] s = "localhost" -> local
      [] s \in {"app", "APP"} -> app
      [] s = "app." -> dotted
      [] s = "[app" -> noHost]

MCUndotted == [h \in MCHosts |-> IF h = dotted THEN app ELSE h]

MCPorts == {80, 443, 8080}
MCMarks == {"://", ":/"}
MCTails == {"", "/", "/cb", "/x?a=://h/cb"}
MCRootTails == {"", "/"}

MCRawTail ==
    [u \in Uris |-> IF u.mark = "://"              THEN u.tail
                    ELSE IF u.tail = "/x?a=://h/cb" THEN "/cb"
                    ELSE noTail]

\* A clean URI, and the same with one slash before its host.
Uri(scheme, host, port, tail) ==
    [scheme |-> scheme, mark |-> "://", host |-> host, port |-> port, tail |-> tail,
     userinfo |-> FALSE, fragment |-> FALSE, odd |-> FALSE]
OneSlash(u) == [u EXCEPT !.mark = ":/"]
Secure == Uri("https", "app", none, "/cb")
Loop == Uri("http", "127.0.0.1", none, "/cb")

\* Entries that are well formed, and near misses of each kind.
MCEntries ==
    [kind: {"uri"},
     value: {Secure, Uri("https", "APP", none, "/cb"), Uri("https", "app", 443, "/cb"),
             Uri("https", "app.", 8080, "/cb"), Uri("http", "app", none, "/cb"),
             Uri("http", "127.1", 8080, "/cb"), Uri("http", "localhost", 8080, "/cb"),
             Uri("other", "app", none, "/cb"), [Secure EXCEPT !.userinfo = TRUE],
             [Secure EXCEPT !.odd = TRUE], OneSlash(Secure)}]
    \cup
    [kind: {"origin"},
     value: {Uri("https", "app", none, ""), Uri("https", "app", 443, "/"),
             Uri("https", "app.", 8080, ""), Uri("http", "app", none, ""), Secure,
             [Secure EXCEPT !.tail = "/", !.fragment = TRUE]}]
    \cup
    [kind: {"loopback"},
     value: {Loop, Uri("http", "127.1", 80, ""), Uri("http", "[::1]", none, "/cb"),
             Uri("http", "127.0.0.1", 8080, "/cb"), Uri("http", "localhost", none, "/cb"),
             Uri("https", "127.0.0.1", none, "/cb"), [Loop EXCEPT !.fragment = TRUE],
             Uri("http", "app", none, "/cb"), OneSlash(Loop),
             OneSlash(Uri("http", "127.0.0.1", none, "/x?a=://h/cb"))}]
=============================================================================
