------------------------------ MODULE Requests ------------------------------
(***************************************************************************)
(* The requests of the store lane: one process after the other, each with  *)
(* one agent and one jar, which it loads from the file with its first      *)
(* request and writes back, through a temporary file, after every answer.  *)
(* The agent follows redirects itself, hop by hop. A URL is a scheme, a    *)
(* host and a path; joining a location to one that has just been asked     *)
(* for always succeeds.                                                    *)
(***************************************************************************)
EXTENDS CookieJar

CONSTANTS
  Urls,        \* what the store asks for, and what answers redirect to
  Calls,       \* the requests: [method, body, url, stop, cookie, range]
  SetCookies,  \* the headers that answers set cookies with
  Locations,   \* the targets of redirects
  Files,       \* cookie files that the first process may find
  MaxHops, MaxTime, MaxSends   \* bounds: of a chain, in the code; of the clock and of the requests, here

\* split_url: an URL without a host is asked for by nobody.
AnyUrl == [scheme : STRING, host : Host, path : Path]
Call == [method : STRING, body : BOOLEAN, url : Urls, stop : BOOLEAN, cookie : BOOLEAN, range : BOOLEAN]
Location == [kind : {"absolute"}, url : AnyUrl] \union [kind : {"rooted", "relative"}, path : Path]

ASSUME RequestsAssumption ==
  /\ Urls # {} /\ Urls \subseteq AnyUrl /\ Calls \subseteq Call
  /\ SetCookies \subseteq SetCookie /\ Locations \subseteq Location
  /\ Files \subseteq Seq(Text) /\ <<Comment, Comment>> \notin Files

VARIABLES
  now,
  file,     \* cookies.txt
  tmp,      \* cookies.tmp
  agent,    \* the agent of the process is built, and the file was read
  jar,
  unsaved,  \* the last attempt to save the jar failed
  place,       \* where the process is
  req, url, hop,
  sent,     \* the request that went out last
  res,      \* its answer
  sends,    \* requests made so far
  heard     \* history: what the file and then the answers said of cookies, [cookie, gone, by], in their order

webVars == <<now, file, tmp, agent, jar, unsaved, place, req, url, hop, sent, res, sends, heard>>

NoFile == <<>>
Torn == <<Comment, Comment>>
NoCall == [method |-> "none", body |-> FALSE, url |-> CHOOSE u \in Urls : TRUE, stop |-> FALSE, cookie |-> FALSE, range |-> FALSE]
NoRes == [status |-> 0, location |-> [kind |-> "none"], set |-> <<>>]
NoneSent == [url |-> NoCall.url, cookies |-> <<>>, range |-> FALSE, time |-> 0]

WebInit ==
  /\ now = 1 /\ file \in Files /\ tmp = NoFile
  /\ agent = FALSE /\ jar = <<>> /\ unsaved = FALSE /\ place = "idle"
  /\ req = NoCall /\ url = NoCall.url /\ hop = 0 /\ sent = NoneSent /\ res = NoRes /\ sends = 0 /\ heard = <<>>

\* Nothing of a call is of use any more; and it returns.
Forget == req' = NoCall /\ url' = NoCall.url /\ hop' = 0 /\ res' = NoRes /\ sent' = NoneSent
Return == place' = "idle" /\ Forget

\* What is heard: a row of the file, which no host has said, and what the host that answered says of a
\* cookie, which counts for the host that was asked first.
FromFile(c) == [cookie |-> c, gone |-> FALSE, by |-> <<>>]
Saying(h) == LET a == Attributes(h.attrs, now) IN
            [cookie |-> CookieOf(h.pair, a, req.url.host), gone |-> a.deleted, by |-> url.host]
Told(before, headers) ==
  LET upto[n \in 0..Len(headers)] ==
        IF n = 0 THEN before
        ELSE IF headers[n].pair = <<>> THEN upto[n - 1] ELSE Append(upto[n - 1], Saying(headers[n])) IN
  upto[Len(headers)]

-----------------------------------------------------------------------------
(* agent and dispatch.                                                       *)

\* The first request of the process builds the agent and loads the jar.
Send ==
  /\ place = "idle" /\ sends < MaxSends
  /\ \E c \in Calls : req' = c /\ url' = c.url
  /\ jar' = IF agent THEN jar ELSE LoadFile(jar, file, now)
  /\ heard' = IF agent THEN heard ELSE [i \in DOMAIN jar' |-> FromFile(jar'[i])]
  /\ agent' = TRUE /\ place' = "ask" /\ hop' = 0 /\ sends' = sends + 1
  /\ UNCHANGED <<now, file, tmp, unsaved, sent, res>>

Supported == req.method \in {"GET", "DELETE", "POST"} \/ (req.method = "PUT" /\ req.body)
Unsupported == place = "ask" /\ ~Supported /\ Return
               /\ UNCHANGED <<now, file, tmp, agent, jar, unsaved, sends, heard>>

\* What the answers of a server look like; only those that redirect may say where to. What an answer
\* that is followed says of cookies is lost.
Answers ==
  LET Sets == {<<>>} \union {<<h>> : h \in SetCookies} IN
  {[status |-> s, location |-> [kind |-> "none"], set |-> <<>>] : s \in {302, 304}}
  \union {[status |-> 200, location |-> [kind |-> "none"], set |-> c] : c \in Sets}
  \union {[status |-> 302, location |-> l, set |-> c] : l \in Locations, c \in Sets}

\* A variant that computes the header once, for the URL that was asked for first.
CookiesOfFirst == IF req.cookie THEN <<>> ELSE CookieHeader(jar, req.url, now)

\* The header is computed for each hop; the caller's own takes its place.
Cookies == IF req.cookie THEN <<>> ELSE CookieHeader(jar, url, now)

\* A hop: the caller's headers, its range among them, go along unchanged.
Exchange ==
  /\ place = "ask" /\ Supported
  /\ sent' = [url |-> url, cookies |-> Cookies, range |-> req.range, time |-> now]
  /\ res' \in Answers /\ place' = "answer"
  /\ UNCHANGED <<now, file, tmp, agent, jar, unsaved, req, url, hop, sends, heard>>

\* The server is not reached.
Unreachable ==
  /\ place = "ask" /\ Supported /\ Return
  /\ UNCHANGED <<now, file, tmp, agent, jar, unsaved, sends, heard>>

\* url_join: an absolute, a rooted or a relative location.
Joined(base, l) ==
  CASE l.kind = "absolute" -> l.url
    [] l.kind = "rooted"   -> [base EXCEPT !.path = l.path]
    [] l.kind = "relative" -> [base EXCEPT !.path = (IF @ = Root THEN Root ELSE Front(@)) \o l.path]

Final ==
  \/ req.stop
  \/ res.status \notin 300..399 \/ res.status = 304
  \/ res.location.kind = "none"

Follow ==
  /\ place = "answer" /\ ~Final
  /\ IF hop = MaxHops THEN Return
     ELSE /\ hop' = hop + 1 /\ url' = Joined(url, res.location) /\ place' = "ask"
          /\ res' = NoRes /\ sent' = NoneSent /\ UNCHANGED req
  /\ UNCHANGED <<now, file, tmp, agent, jar, unsaved, sends, heard>>

-----------------------------------------------------------------------------
(* send: the cookies of the last answer count for the host that was asked    *)
(* first; the jar is saved before the body is read and after it.             *)

Accept ==
  /\ place = "answer" /\ Final
  /\ jar' = RetainLive(AddedAll(jar, res.set, req.url.host, now), now)
  /\ heard' = Told(heard, res.set)
  /\ place' = "save" /\ Forget
  /\ UNCHANGED <<now, file, tmp, agent, unsaved, sends>>

Saves == {"save", "resave"}
AfterSave == IF place \in {"save", "rename"} THEN place' = "body" /\ UNCHANGED <<req, url, hop, sent, res>> ELSE Return

\* An empty jar is never written.
SkipSave ==
  /\ place \in Saves /\ jar = <<>> /\ AfterSave
  /\ UNCHANGED <<now, file, tmp, agent, jar, unsaved, sends, heard>>

WriteTmp ==
  /\ place \in Saves /\ jar # <<>>
  /\ tmp' = Lines(jar) /\ place' = (IF place = "save" THEN "rename" ELSE "rerename")
  /\ UNCHANGED <<now, file, agent, jar, unsaved, req, url, hop, sent, res, sends, heard>>

\* The rename, or the failure of either step, which nobody is told of.
Rename ==
  /\ place \in {"rename", "rerename"}
  /\ file' = tmp /\ tmp' = NoFile /\ unsaved' = FALSE /\ AfterSave
  /\ UNCHANGED <<now, agent, jar, sends, heard>>

SaveFails ==
  /\ place \in Saves \union {"rename", "rerename"} /\ jar # <<>>
  /\ tmp' = (IF place \in Saves THEN Torn ELSE NoFile) /\ unsaved' = TRUE
  /\ (IF place \in {"save", "rename"} THEN place' = "body" /\ UNCHANGED <<req, url, hop, sent, res>> ELSE Return)
  /\ UNCHANGED <<now, file, agent, jar, sends, heard>>

\* The body, which may break off.
Body ==
  /\ place = "body"
  /\ \/ place' = "resave" /\ UNCHANGED <<req, url, hop, sent, res>>
     \/ Return
  /\ UNCHANGED <<now, file, tmp, agent, jar, unsaved, sends, heard>>

\* raw_request: the agent of the SAP lane has no jar.
RawRequest ==
  /\ place = "idle" /\ sends < MaxSends /\ sends' = sends + 1
  /\ \E u \in Urls : sent' = [url |-> u, cookies |-> <<>>, range |-> FALSE, time |-> now]
  /\ place' = "raw"
  /\ UNCHANGED <<now, file, tmp, agent, jar, unsaved, req, url, hop, res, heard>>

RawAnswered == place = "raw" /\ Return /\ UNCHANGED <<now, file, tmp, agent, jar, unsaved, sends, heard>>

-----------------------------------------------------------------------------
\* The process ends, or is killed, and the next one starts; what it was writing is cut short.
Restart ==
  /\ agent /\ agent' = FALSE /\ jar' = <<>> /\ unsaved' = FALSE /\ heard' = <<>>
  /\ tmp' \in {tmp} \union (IF place \in Saves /\ jar # <<>> THEN {Torn} ELSE {})
  /\ Return
  /\ UNCHANGED <<now, file, sends>>

Tick == now < MaxTime /\ now' = now + 1
        /\ UNCHANGED <<file, tmp, agent, jar, unsaved, place, req, url, hop, sent, res, sends, heard>>

WebNext ==
  \/ Send \/ Unsupported \/ Exchange \/ Unreachable \/ Follow \/ Accept \/ SkipSave \/ WriteTmp \/ Rename
  \/ SaveFails \/ Body \/ RawRequest \/ RawAnswered \/ Restart \/ Tick

-----------------------------------------------------------------------------
Under(host, domain) == \E k \in 0..Len(host) : SubSeq(host, k + 1, Len(host)) = domain
Below(path, prefix) ==
  LET p == IF prefix # Root /\ Last(prefix) = Empty THEN Front(prefix) ELSE prefix IN
  /\ \E k \in 0..Len(path) : SubSeq(path, 1, k) = p
  /\ p # prefix => Len(path) > Len(p)

\* The last word on a cookie: nobody has set or deleted it since. A file may have rows of one name.
LastWord(i) == \A j \in i + 1..Len(heard) : heard[j].by = <<>> \/ ~SameKey(heard[j].cookie, heard[i].cookie)
Valid(c, to, time) ==
  /\ Below(to.path, c.path) /\ (c.secure => to.scheme = "https")
  /\ c.expires = 0 \/ c.expires > time
\* Where a cookie has to go: to the hosts of its domain, or to the one host that has set it.
Owed(said, to) == IF said.cookie.dot THEN Under(to.host, said.cookie.host)
                  ELSE to.host = said.cookie.host /\ said.by \in {<<>>, said.cookie.host}

(***************************************************************************)
(* On every hop of a chain of redirects, whatever was set, replaced,       *)
(* deleted and read from the file before: a cookie goes along only if it   *)
(* is the last word on its name, domain and path, if it is not late, if    *)
(* the hop's path is below its own and, for a secure one, the hop is one   *)
(* of https, and never outside its domain or beyond the host that was      *)
(* asked when it was set; every such cookie of the hop's domain or host    *)
(* does go along; and the range is asked for on every hop (http.rs: "a     *)
(* suffix cookie must not follow the redirect off apple.com"). Whether a   *)
(* cookie without a domain also goes below its host is left open: the code *)
(* sends it, and its comments (cookie_jar.rs) say that only an exact match *)
(* counts.                                                                 *)
(***************************************************************************)
ScopeKept ==
  place = "answer" /\ ~req.cookie =>
    /\ \A c \in ToSet(sent.cookies) :
         /\ Valid(c, sent.url, sent.time) /\ Under(sent.url.host, c.host)
         /\ \E i \in DOMAIN heard : heard[i].cookie = c /\ ~heard[i].gone /\ LastWord(i)
    /\ \A i \in DOMAIN heard :
         /\ ~heard[i].gone /\ LastWord(i)
         /\ Owed(heard[i], sent.url) /\ Valid(heard[i].cookie, sent.url, sent.time)
         => heard[i].cookie \in ToSet(sent.cookies)
    /\ sent.range = req.range

(***************************************************************************)
(* A session survives the process: whenever a process is between two       *)
(* requests, the next one would send the same cookies, in the same order,  *)
(* to every URL, and no kill in the middle of a save cuts the file short.  *)
(* Not so when the jar is empty, which is never written, or the last save  *)
(* failed (cookie_jar.rs: "0 is the common case and must round-trip").     *)
(***************************************************************************)
SessionSurvives ==
  /\ file # Torn
  /\ place = "idle" /\ agent /\ jar # <<>> /\ ~unsaved =>
       \A u \in Urls : CookieHeader(Loaded(file, now), u, now) = CookieHeader(jar, u, now)
=============================================================================
