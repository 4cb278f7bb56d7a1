-------------------------------- MODULE Http --------------------------------
(* HTTPClient, and its cookie jar by itself.                               *)
EXTENDS HTTPClient

CONSTANTS
  cookies_Host, Name, Age, Date, MaxTime, MaxSet

VARIABLES
  part,  \* the component that runs: it is chosen at the start
  jar, lent, now, made, last, host, secure, tls, oldSecure, line,
  doing, it, nowGmt, cookie, found, text, sent, put

J == INSTANCE CookieJar WITH
  Host <- cookies_Host

ASSUME CookieAssumption == J!ConstantsOK

cookiesVars == <<
  jar, lent, now, made, last, host, secure, tls, oldSecure, line,
  doing, it, nowGmt, cookie, found, text, sent, put>>

Part == {"request", "cookies"}
allVars == <<part, vars, cookiesVars>>

PartsInit ==
  /\ part \in Part
  /\ Init /\ J!Init

\* One component moves, with its own steps; the others rest.
PartsNext ==
  \/ part = "request" /\ Next /\ UNCHANGED <<part, cookiesVars>>
  \/ part = "cookies" /\ J!Next /\ UNCHANGED <<part, vars>>

PartsSpec ==
  /\ PartsInit /\ [][PartsNext]_allVars
  /\ WF_vars(part = "request" /\ Request)

\* The jar holds one cookie for a domain and name, and a request carries all
\* those for its host that have not run out, as they were set last, the secure
\* ones over TLS; unless its Cookie line is an earlier request's, which stays in
\* _headers when there are no cookies for this one, or _secure an earlier begin()'s.
CookiesAreCurrent == part = "cookies" => J!CookiesAreCurrent
=============================================================================
