------------------------------- MODULE Hostnames -------------------------------
(***************************************************************************)
(* Which hostnames a Gateway's listener and a route serve together         *)
(* (hostname.go), and whether a certificate covers one of them             *)
(* (certificate.go), as the page of a route reports it                     *)
(* (gwapi_listener_tls_cert_check).                                        *)
(*                                                                         *)
(* A pattern is a name, or the wildcard of one; a name is the sequence of  *)
(* its labels in lower case: the code compares with EqualFold.             *)
(***************************************************************************)
EXTENDS Sequences, SequencesExt

CONSTANTS
    DnsLabels,
    Names,      \* the names in patterns
    Hosts       \* the hosts a client may ask for: all names, or those long enough

\* A name may be asked for, and so may one with another label before it.
ASSUME HostsAssumption ==
    /\ Names \subseteq Seq(DnsLabels) /\ Hosts \subseteq Seq(DnsLabels) /\ Hosts # {}
    /\ \A n \in Names : n \in Hosts /\ \E l \in DnsLabels : <<l>> \o n \in Hosts

Pattern(wildcard, name) == [wildcard |-> wildcard, name |-> name]
Patterns == [wildcard : BOOLEAN, name : Names]

\* Host is a strict subdomain of suffix.
hostnameUnder(host, suffix) == IsStrictSuffix(suffix, host)

\* The patterns that are as narrow as the narrower of two; none if they are disjoint.
\* Mutation: a wildcard that is deeper than the other is taken to be disjoint from it.
narrowerSameDepth(a, b) ==
    CASE ~a.wildcard /\ ~b.wildcard -> IF a.name = b.name THEN {a} ELSE {}
      [] a.wildcard /\ ~b.wildcard  -> IF hostnameUnder(b.name, a.name) THEN {b} ELSE {}
      [] ~a.wildcard /\ b.wildcard  -> IF hostnameUnder(a.name, b.name) THEN {a} ELSE {}
      [] OTHER                      -> IF a.name = b.name THEN {a} ELSE {}

narrowerHostname(a, b) ==
    CASE ~a.wildcard /\ ~b.wildcard -> IF a.name = b.name THEN {a} ELSE {}
      [] a.wildcard /\ ~b.wildcard  -> IF hostnameUnder(b.name, a.name) THEN {b} ELSE {}
      [] ~a.wildcard /\ b.wildcard  -> IF hostnameUnder(a.name, b.name) THEN {a} ELSE {}
      [] OTHER -> IF a.name = b.name \/ hostnameUnder(a.name, b.name) THEN {a}
                  ELSE IF hostnameUnder(b.name, a.name) THEN {b} ELSE {}

\* A listener has at most one hostname.
hostnameIntersections(listener, route) ==
    IF route = {} \/ listener = {} THEN route
    ELSE UNION {narrowerHostname(l, r) : l \in listener, r \in route}

-----------------------------------------------------------------------------
(* Certificates: [dns |-> names, ip |-> has it addresses, cn |-> {name} or {}]. *)

Certificates == [dns : SUBSET Patterns, ip : BOOLEAN, cn : SUBSET Patterns]

hasSAN(cert)    == cert.dns # {} \/ cert.ip
certNames(cert) == IF hasSAN(cert) THEN cert.dns ELSE cert.cn

\* A certificate's wildcard is one label.  (x509.VerifyHostname does the same.)
certNameCoversHost(certName, host) ==
    IF certName.wildcard THEN host # <<>> /\ Tail(host) = certName.name ELSE host = certName.name

certNameIntersectsWildcard(certName, suffix) ==
    \/ certName.wildcard /\ certName.name = suffix
    \/ hostnameUnder(certName.name, suffix)

certServesHostname(cert, hostname) ==
    \E certName \in certNames(cert) :
        IF hostname.wildcard THEN certNameIntersectsWildcard(certName, hostname.name)
        ELSE certNameCoversHost(certName, hostname.name)

\* MatchesHostname of parseTLSSecretCertificate.
MatchesHostname(cert, hostnames) ==
    hostnames = {} \/ \E hostname \in hostnames : certServesHostname(cert, hostname)

\* What the page of a route says of a listener's certificate.  pinned: the route
\* names the listener (sectionName); if not, the listener has the route's protocol.
CertCheck(listener, route, pinned, cert) ==
    LET both  == hostnameIntersections(listener, route)
        check == IF pinned /\ both = {} THEN route ELSE both
    IN  IF ~pinned /\ route # {} /\ listener # {} /\ both = {} THEN "not attached"
        ELSE IF MatchesHostname(cert, check) THEN "ok" ELSE "hostname mismatch"

-----------------------------------------------------------------------------
(* Properties. *)

\* A wildcard of the Gateway API accepts the subdomains of any depth, that of a
\* certificate those one label down (RFC 6125).
Accepts(p) == {h \in Hosts : IF p.wildcard THEN IsStrictSuffix(p.name, h) ELSE h = p.name}
Covers(p)  == {h \in Hosts : IF p.wildcard THEN IsStrictSuffix(p.name, h) /\ Len(h) = Len(p.name) + 1
                                           ELSE h = p.name}

\* No hostname at all stands for every host.
AcceptsAny(patterns) == IF patterns = {} THEN Hosts ELSE UNION {Accepts(p) : p \in patterns}

\* The page reports a mismatch if and only if there is no host at all that both
\* the listener and the route serve and the certificate covers: wildcards on all
\* three sides mean what they mean to their own side.  A route that pins no host
\* leaves the check to the Gateway's page; a route attached by name to a
\* listener that serves none of its hosts is judged by its own
\* (certificate.go:136-181, hostname.go:47-110, gatewayapi_common.tmpl:66-75).
MismatchIsReal(listener, route, pinned, cert, said) ==
    LET served  == AcceptsAny(listener) \cap AcceptsAny(route)
        wanted  == IF pinned /\ served = {} THEN AcceptsAny(route) ELSE served
        covered == UNION {Covers(p) : p \in IF cert.dns # {} \/ cert.ip THEN cert.dns ELSE cert.cn}
    IN  /\ said = "not attached" <=> served = {} /\ ~pinned
        /\ said = "hostname mismatch" <=>
                (pinned \/ served # {}) /\ route # {} /\ wanted \cap covered = {}
===============================================================================
