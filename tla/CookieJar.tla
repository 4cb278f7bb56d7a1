------------------------------- MODULE CookieJar -------------------------------
(***************************************************************************)
(* The cookies of HTTPClient: a jar that the sketch lends to its clients,  *)
(* which setCookie() fills from Set-Cookie headers and                     *)
(* generateCookieString() reads for every request, and the Cookie line of  *)
(* _headers that the request then carries.  A host or domain is the        *)
(* sequence of its labels.  The build has no strptime(): parseHttpTime()   *)
(* never reads a date, so that an expires attribute has no effect and      *)
(* cookie.date keeps whatever the stack held.  Path and HttpOnly are kept  *)
(* and never used.  A Cookie header of the sketch's own is left out.       *)
(***************************************************************************)
EXTENDS Integers, Sequences

CONSTANTS Host,    \* the hosts that the sketch asks
          Name,    \* the names of their cookies
          Age,     \* the values of Max-Age
          Date,    \* what an uninitialised time_t may hold
          MaxTime, \* bound: the clock
          MaxSet   \* bound: cookies that are set

\* What the constants have to be; the module of a run assumes it.
ConstantsOK ==
  /\ \A h \in Host : h # <<>>
  /\ Age \subseteq Int /\ Date \subseteq Int /\ MaxTime \in Nat /\ MaxSet \in Nat

VARIABLES jar,       \* the vector of Cookies behind _cookieJar
          lent,      \* _cookieJar # nullptr
          now,       \* time(NULL)
          made,      \* cookies set so far; the number is also the value of the last
          last,      \* history: for each domain and name the value that was set last
          host,      \* _host
          secure,    \* _secure
          tls,       \* the connection of the request is a secure one
          oldSecure, \* history: _secure is that of an earlier begin()
          line,      \* the cookies of the Cookie line in _headers, {} without one
          doing,     \* the loop that runs: "set", "generate", or "idle"
          it, nowGmt, cookie, found, text, \* its locals; text: cookieString
          sent,      \* the cookies of the last request, when they were chosen, and
                     \* whether the line was made for it
          put        \* the cookie that was just accepted, if any

session == <<host, secure, tls, oldSecure>>
locals == <<doing, it, nowGmt, cookie, found, text>>
vars == <<jar, lent, now, made, last, session, line, locals, sent, put>>

NoAge == <<>>
NoCookie == <<>>
NoRequest == [cookies |-> {}, at |-> 0, fresh |-> FALSE]
noLocals == doing' = "idle" /\ it' = 0 /\ nowGmt' = 0 /\ cookie' = NoCookie /\ found' = FALSE /\ text' = {}
quiet == sent' = NoRequest /\ put' = <<>>

\* A client after begin(client, url) of an http URL.
Init ==
  /\ jar = <<>> /\ lent = TRUE /\ now = 0 /\ made = 0 /\ last = <<>>
  /\ host \in Host /\ secure = FALSE /\ tls = FALSE /\ oldSecure = FALSE /\ line = {}
  /\ doing = "idle" /\ it = 0 /\ nowGmt = 0 /\ cookie = NoCookie /\ found = FALSE /\ text = {}
  /\ sent = NoRequest /\ put = <<>>

Tick ==
  /\ now < MaxTime /\ now' = now + 1 /\ quiet
  /\ UNCHANGED <<jar, lent, made, last, session, line, locals>>

------------------------------------------------------------------------------
(* The sketch.                                                             *)

\* begin(client, url) keeps _headers unless it finds the other API in use; the
\* others clear them.  Without a client, an http URL leaves _secure as it is.
begin(api, h, t) ==
  /\ doing = "idle" /\ host' = h /\ tls' = t
  /\ secure' = IF api = "own" THEN secure \/ t ELSE t
  /\ oldSecure' = (secure' /\ ~t)
  /\ line' \in IF api = "url" THEN {line, {}} ELSE {{}}
  /\ quiet /\ UNCHANGED <<jar, lent, now, made, last, locals>>

\* end(), and a redirect to a path
clear ==
  /\ doing = "idle" /\ line' = {}
  /\ quiet /\ UNCHANGED <<jar, lent, now, made, last, session, locals>>

\* A redirect to a URL, of the same protocol, keeps _headers.
setURL(h) ==
  /\ doing = "idle" /\ host' = h
  /\ quiet /\ UNCHANGED <<jar, lent, now, made, last, secure, tls, oldSecure, line, locals>>

\* and resetCookieJar()
setCookieJar ==
  /\ doing = "idle" /\ lent' = ~lent
  /\ quiet /\ UNCHANGED <<jar, now, made, last, session, line, locals>>

clearAllCookies ==
  /\ doing = "idle" /\ lent /\ jar' = <<>>
  /\ quiet /\ UNCHANGED <<lent, now, made, last, session, line, locals>>

------------------------------------------------------------------------------
(* The jar is changed while it is iterated.                                *)

\* String::indexOf(): the text occurs anywhere in the host.
within(d, h) == \E i \in 0 .. Len(h) - Len(d) : SubSeq(h, i + 1, i + Len(d)) = d

\* Without a domain attribute: the last two labels.
defaultDomain(h) == SubSeq(h, IF Len(h) > 2 THEN Len(h) - 1 ELSE 1, Len(h))

\* max_age.duration is 0 when there is no Max-Age.
duration(c) == IF c.age = NoAge THEN 0 ELSE c.age[1]

expired(c, t) == c.age # NoAge /\ c.date + duration(c) < t

\* A cookie that replaces one of the jar deletes it instead.
deletes(c, t) == expired(c, t) \/ duration(c) <= 0

same(c, d) == c.domain = d.domain /\ c.name = d.name

erase(s, i) == [k \in 1 .. Len(s) - 1 |-> IF k < i THEN s[k] ELSE s[k + 1]]

\* mutant: c-- is forgotten, and the cookie behind the erased one is skipped
skipsNext(i) == i + 1

\* c-- after erase(c), and the ++c of the loop: the iterator stays where it is.
afterErase(i) == (i - 1) + 1

\* A header without ';' is no cookie, nor one for a domain outside the host.
setCookie(hd, c) ==
  /\ doing = "idle" /\ made < MaxSet /\ made' = made + 1 /\ quiet
  /\ IF ~lent \/ ~hd.semicolon \/ (hd.domain # <<>> /\ ~within(hd.domain, host)) THEN UNCHANGED locals
     ELSE /\ doing' = "set" /\ it' = 1 /\ found' = FALSE /\ nowGmt' = now /\ UNCHANGED text
          /\ cookie' = [c EXCEPT !.value = made + 1,
                                 !.domain = IF hd.domain = <<>> THEN defaultDomain(host) ELSE hd.domain]
  /\ UNCHANGED <<jar, lent, now, last, session, line>>

setNext ==
  /\ doing = "set" /\ it \in 1 .. Len(jar)
  /\ IF ~same(jar[it], cookie) THEN it' = it + 1 /\ UNCHANGED <<jar, found>>
     ELSE /\ found' = TRUE
          /\ IF deletes(cookie, nowGmt) THEN jar' = erase(jar, it) /\ it' = afterErase(it)
             ELSE jar' = [jar EXCEPT ![it] = cookie] /\ it' = it + 1
  /\ quiet /\ UNCHANGED <<lent, now, made, last, session, line, doing, nowGmt, cookie, text>>

setEnd ==
  /\ doing = "set" /\ it = Len(jar) + 1
  /\ jar' = IF found \/ (cookie.age # NoAge /\ duration(cookie) <= 0) THEN jar ELSE Append(jar, cookie)
  /\ LET key == <<cookie.domain, cookie.name>> IN
       last' = [k \in DOMAIN last \cup {key} |-> IF k = key THEN cookie.value ELSE last[k]]
  /\ noLocals /\ sent' = NoRequest /\ put' = <<cookie>>
  /\ UNCHANGED <<lent, now, made, session, line>>

forHost(c) == within(c.domain, host) /\ (~c.secure \/ secure)

\* The request goes out with _headers: a line is replaced when there are cookies
\* for this request, and stays when there are none.
addHeader(cookies, t) ==
  /\ line' = IF cookies = {} THEN line ELSE cookies
  /\ sent' = [cookies |-> line', at |-> t, fresh |-> lent /\ (cookies # {} \/ line = {})]
  /\ put' = <<>> /\ noLocals

sendRequest ==
  /\ doing = "idle"
  /\ IF lent
     THEN /\ doing' = "generate" /\ it' = 1 /\ nowGmt' = now /\ text' = {} /\ quiet
          /\ UNCHANGED <<cookie, found, line>>
     ELSE addHeader({}, now)
  /\ UNCHANGED <<jar, lent, now, made, last, session>>

generateNext ==
  /\ doing = "generate" /\ it \in 1 .. Len(jar)
  /\ IF expired(jar[it], nowGmt) THEN jar' = erase(jar, it) /\ it' = afterErase(it) /\ UNCHANGED text
     ELSE /\ text' = IF forHost(jar[it]) THEN text \cup {jar[it]} ELSE text
          /\ it' = it + 1 /\ UNCHANGED jar
  /\ quiet /\ UNCHANGED <<lent, now, made, last, session, line, doing, nowGmt, cookie, found>>

generateEnd ==
  /\ doing = "generate" /\ it = Len(jar) + 1 /\ addHeader(text, nowGmt)
  /\ UNCHANGED <<jar, lent, now, made, last, session>>

Domains == {SubSeq(h, i, Len(h)) : h \in Host, i \in 1 .. 2}
Header == [semicolon : BOOLEAN, domain : {<<>>} \cup Domains]
Cookie == [name : Name, domain : {<<>>}, value : {0}, age : {NoAge} \cup {<<a>> : a \in Age},
           date : Date, secure : BOOLEAN]

Next ==
  \/ Tick \/ clear \/ setCookieJar \/ clearAllCookies
  \/ \E h \in Host : setURL(h) \/ \E api \in {"url", "parts", "own"}, t \in BOOLEAN : begin(api, h, t)
  \/ \E hd \in Header, c \in Cookie : setCookie(hd, c)
  \/ setNext \/ setEnd \/ sendRequest \/ generateNext \/ generateEnd
Spec == Init /\ [][Next]_vars

------------------------------------------------------------------------------
\* The jar never holds two cookies of the same domain and name, in whatever
\* order they are set, replaced, deleted and run out.
OnePerName == \A i, j \in DOMAIN jar : same(jar[i], jar[j]) => i = j

\* A request carries all cookies of the jar for its host that have not run out
\* by their own date, and no other; each is the one that was set last under its
\* name, and the secure ones go over TLS.  Excepted are a line that an earlier
\* request left in _headers and for which there was no other, and a _secure
\* that an earlier begin() left.
SentIsCurrent ==
  sent.fresh =>
    /\ sent.cookies = {jar[i] : i \in {j \in DOMAIN jar : forHost(jar[j]) /\ ~expired(jar[j], sent.at)}}
    /\ \A c \in sent.cookies :
         c.value = last[<<c.domain, c.name>>] /\ (c.secure => tls \/ oldSecure)

\* The jar holds one cookie for a domain and name, and a request carries those
\* that are for its host as they were set last.
CookiesAreCurrent == OnePerName /\ SentIsCurrent

\* The comment in setCookie(): a cookie that is set again overwrites the one
\* in the jar; without Max-Age nothing asks for it to be deleted.
SetAgainKept == put # <<>> /\ put[1].age = NoAge => \E i \in DOMAIN jar : jar[i] = put[1]
===============================================================================
