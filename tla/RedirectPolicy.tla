--------------------------- MODULE RedirectPolicy ---------------------------
(***************************************************************************)
(* Which redirect URIs a relay sends authorization results to, and which   *)
(* browser origins may call its token endpoint: the matchers of a relay's  *)
(* redirect policy (model.rs), as configuration compiles and validates     *)
(* them and as the endpoints ask them.                                     *)
(*                                                                         *)
(* A URI is a record of how it is written, because one matcher compares    *)
(* what is written, another what Url::parse makes of it and the third a    *)
(* little of both: letters, IP spellings and default ports that differ in  *)
(* writing may be one host and one port, and Url::parse finds the host of  *)
(* an http URI whether :, :/ or :// comes before it, where what the code   *)
(* cuts out of the text itself starts from the first ://.                  *)
(***************************************************************************)
EXTENDS Naturals, Sequences

CONSTANTS Spellings,  \* ways to write a host, and the letters of the scheme before it
          Hosts,      \* hosts
          Parsed,     \* Parsed[s]: the host Url::parse finds in s, or Refused
          Refused,    \* Url::parse gives an error
          Undotted,   \* Undotted[h]: h without the trailing dot of its name
          LoopbackV4, LoopbackV6, Localhost,  \* 127.0.0.1, ::1, and the name
          Ports,      \* port numbers
          None,       \* no port
          Marks,      \* ways to separate the scheme from the host: "://" and others
          Tails,      \* paths with their queries, as they are written
          RootTails,  \* those that Url::parse takes for the path / and no query
          RawTail,    \* raw_path_and_query, for each URI
          NoTail,     \* its None
          Entries,    \* what operators write into redirect policies
          MaxEntries  \* bound: how many entries a policy has

Uris == [scheme: {"http", "https", "other"}, mark: Marks, host: Spellings,
         port: Ports \cup {None}, tail: Tails,
         userinfo: BOOLEAN, fragment: BOOLEAN,
         odd: BOOLEAN]  \* has whitespace, a backslash or a character outside ASCII

Matchers == [kind: {"uri", "origin", "loopback"}, value: Uris]

ASSUME RedirectAssumption ==
    /\ Parsed \in [Spellings -> Hosts \cup {Refused}] /\ Refused \notin Hosts
    /\ Undotted \in [Hosts -> Hosts]
    /\ {LoopbackV4, LoopbackV6, Localhost} \subseteq Hosts
    /\ Localhost \notin {LoopbackV4, LoopbackV6}
    /\ Ports \subseteq Nat /\ None \notin Nat
    /\ "://" \in Marks
    /\ RootTails \subseteq Tails /\ RootTails # {}
    /\ RawTail \in [Uris -> Tails \cup {NoTail}] /\ NoTail \notin Tails
    /\ \A u \in Uris : u.mark = "://" => RawTail[u] = u.tail
    /\ Entries \subseteq Matchers /\ MaxEntries \in Nat

VARIABLES policy,          \* the redirect_policy of the relay in force
          allowLocalhost   \* allow_localhost_loopback, read when the process starts

policyVars == <<policy, allowLocalhost>>

-----------------------------------------------------------------------------
\* What Url::parse says of a URI.
Parses(u) == Parsed[u.host] # Refused
Host(u) == Parsed[u.host]
KnownDefault(scheme) ==
    CASE scheme = "http" -> 80 [] scheme = "https" -> 443 [] OTHER -> None
Port(u) == IF u.port = KnownDefault(u.scheme) THEN None ELSE u.port
PortOrKnownDefault(u) == IF u.port = None THEN KnownDefault(u.scheme) ELSE u.port

SameOrigin(a, b) ==
    /\ a.scheme = b.scheme
    /\ Undotted[Host(a)] = Undotted[Host(b)]
    /\ PortOrKnownDefault(a) = PortOrKnownDefault(b)

IsIpLoopback(u) == Host(u) \in {LoopbackV4, LoopbackV6}

ValidRedirectUrl(u) == u.scheme \in {"http", "https"} /\ ~u.fragment /\ ~u.userinfo

\* Mutant: any http URI will do.
ValidExactUriCleartext(u) == ~u.odd /\ Parses(u) /\ ValidRedirectUrl(u)

ValidExactUri(u) ==
    /\ ~u.odd /\ Parses(u) /\ ValidRedirectUrl(u)
    /\ u.scheme = "https" \/ (u.scheme = "http" /\ IsIpLoopback(u))

ValidLoopbackUri(u) ==
    /\ ~u.odd /\ Parses(u)
    /\ u.scheme = "http" /\ IsIpLoopback(u) /\ Port(u) = None
    /\ ~u.fragment /\ ~u.userinfo

\* Mutant: without the demand for https.
ValidOriginAnyScheme(u) == Parses(u) /\ ValidRedirectUrl(u) /\ u.tail \in RootTails

\* Origin::parse, and RedirectMatcher::origin's demand for https.
ValidOrigin(u) ==
    /\ Parses(u) /\ ValidRedirectUrl(u) /\ u.tail \in RootTails
    /\ u.scheme = "https"

-----------------------------------------------------------------------------
\* Relay::validate, as far as the policy goes.
ValidMatcher(m) ==
    CASE m.kind = "uri" -> ValidExactUri(m.value)
      [] m.kind = "origin" -> ValidOrigin(m.value)
      [] m.kind = "loopback" -> ValidLoopbackUri(m.value)

Identity(m) ==
    IF m.kind = "origin" THEN <<m.kind, m.value.scheme, Host(m.value), Port(m.value)>>
                         ELSE <<m.kind, m.value>>

ValidPolicy(p) ==
    /\ p # <<>>
    /\ \A i \in DOMAIN p : ValidMatcher(p[i])
    /\ \A i, j \in DOMAIN p : i # j => Identity(p[i]) # Identity(p[j])

LoopbackHostMatches(base, u, localhost) ==
    Host(base) = Host(u) \/ (localhost /\ Host(u) = Localhost)

\* Relay::redirect_allowed.
RedirectMatches(m, u, localhost) ==
    CASE m.kind = "uri" -> ValidExactUri(m.value) /\ m.value = u
      [] m.kind = "origin" -> m.value.scheme = "https" /\ SameOrigin(m.value, u)
      [] m.kind = "loopback" ->
           /\ ValidLoopbackUri(m.value)
           /\ u.scheme = "http" /\ LoopbackHostMatches(m.value, u, localhost)
           /\ RawTail[m.value] # NoTail /\ RawTail[u] = RawTail[m.value]

RedirectAllowed(p, u, localhost) ==
    /\ ~u.odd /\ Parses(u) /\ ValidRedirectUrl(u)
    /\ \E i \in DOMAIN p : RedirectMatches(p[i], u, localhost)

\* Mutant: an exact URI stands for its host, whatever the port.
CorsMatchesHost(m, o, localhost) ==
    CASE m.kind = "uri" -> /\ ValidExactUri(m.value) /\ m.value.scheme = o.scheme
                           /\ Undotted[Host(m.value)] = Undotted[Host(o)]
      [] m.kind = "origin" -> m.value.scheme = "https" /\ SameOrigin(m.value, o)
      [] m.kind = "loopback" ->
           /\ ValidLoopbackUri(m.value)
           /\ o.scheme = "http" /\ LoopbackHostMatches(m.value, o, localhost)

\* allowed_cors_origin and Relay::cors_origin_allowed, for an Origin header o.
CorsMatches(m, o, localhost) ==
    CASE m.kind = "uri" -> ValidExactUri(m.value) /\ SameOrigin(m.value, o)
      [] m.kind = "origin" -> m.value.scheme = "https" /\ SameOrigin(m.value, o)
      [] m.kind = "loopback" ->
           /\ ValidLoopbackUri(m.value)
           /\ o.scheme = "http" /\ LoopbackHostMatches(m.value, o, localhost)

CorsOriginAllowed(p, o, localhost) ==
    /\ Parses(o) /\ ValidRedirectUrl(o) /\ o.tail \in RootTails
    /\ \E i \in DOMAIN p : CorsMatches(p[i], o, localhost)

-----------------------------------------------------------------------------
Policies == UNION {[1..n -> Entries] : n \in 0..MaxEntries}

PolicyInit ==
    /\ policy \in Policies /\ ValidPolicy(policy)
    /\ allowLocalhost \in BOOLEAN

\* Mutant: what was compiled is not validated.
DeployUnchecked(p) == policy' = p /\ UNCHANGED allowLocalhost

\* A configuration is compiled and comes into force, if it is valid.
Deploy(p) ==
    /\ ValidPolicy(p)
    /\ policy' = p
    /\ UNCHANGED allowLocalhost

\* The process starts again with the option set or not.
Restart(option) ==
    /\ allowLocalhost' = option
    /\ UNCHANGED policy

PolicyNext ==
    \/ \E p \in Policies : Deploy(p)
    \/ \E option \in BOOLEAN : Restart(option)

PolicySpec == PolicyInit /\ [][PolicyNext]_policyVars

-----------------------------------------------------------------------------
\* What is in force is a policy that validation accepts.
PolicyTypeOK ==
    /\ policy \in Seq(Matchers) /\ ValidPolicy(policy)
    /\ allowLocalhost \in BOOLEAN

Redirects == {u \in Uris : RedirectAllowed(policy, u, allowLocalhost)}

\* No relay sends a code in the clear across the network: an accepted redirect
\* is https, or stays on this machine, at an IP address unless the option says
\* that the name localhost is as good.
NoCleartextAbroad ==
    \A u \in Redirects :
        u.scheme = "https" \/ IsIpLoopback(u) \/ (allowLocalhost /\ Host(u) = Localhost)

\* The origin a browser names when a page at u calls the token endpoint.
OriginHeader(u, root) == [u EXCEPT !.mark = "://", !.tail = root]

\* An application in the browser that may receive a code may also redeem it:
\* what redirect_allowed accepts, cors_origin_allowed serves.
RedirectsMayRedeem ==
    \A u \in Redirects, root \in RootTails :
        CorsOriginAllowed(policy, OriginHeader(u, root), allowLocalhost)

\* An entry that no redirect matches: a loopback entry in which raw_path_and_query
\* finds nothing.
Dead(m) == m.kind = "loopback" /\ RawTail[m.value] = NoTail

\* Conversely CORS does not broaden the redirects: each origin it serves has a
\* page the relay would send a code to, or is served for a dead entry alone.
CorsOnlyForRedirects ==
    \A o \in Uris :
        CorsOriginAllowed(policy, o, allowLocalhost) =>
            \/ \E u \in Redirects : SameOrigin(u, o)
            \/ \A i \in DOMAIN policy :
                  CorsMatches(policy[i], o, allowLocalhost) => Dead(policy[i])

\* The two functions that decide from the same entries disagree about nothing but
\* the origins of dead entries.
CorsAgreesWithRedirects == RedirectsMayRedeem /\ CorsOnlyForRedirects

\* What validation accepts in a policy, redirect_allowed accepts in a request:
\* there are no entries that never match but the dead ones.
OnlyDeadNeverMatch ==
    \A i \in DOMAIN policy :
        (\E u \in Redirects : RedirectMatches(policy[i], u, allowLocalhost))
            <=> ~Dead(policy[i])
=============================================================================
