----------------------------- MODULE CookieJar -----------------------------
(***************************************************************************)
(* The cookie jar of the store lane and the Netscape file it is kept in.   *)
(* A host is the sequence of its labels, a path the sequence of its        *)
(* segments, the last of them empty when the path ends in a slash; names   *)
(* and hosts are taken without their case. A jar is a sequence of cookies, *)
(* a file a sequence of lines.                                             *)
(***************************************************************************)
EXTENDS Sieve

Word == STRING \union {Empty}
Root == <<>>
Path == Seq(Word)
Host == Seq(STRING) \ {<<>>}

\* The row of the file, and the flag that its prefix stands for.
Cookie == [name : Word \ {Empty}, value : Word, dot : BOOLEAN, host : Host, path : Path,
           secure : BOOLEAN, httpOnly : BOOLEAN, expires : Nat]

\* A cookie is for its domain and whatever lies under it, with or without a leading dot.
DomainMatches(c, host) == IsSuffix(c.host, host)

PathMatches(cookiePath, path) ==
  \/ cookiePath = Root
  \/ IF Last(cookiePath) = Empty
     THEN Len(path) >= Len(cookiePath) /\ IsPrefix(Front(cookiePath), path)
     ELSE IsPrefix(cookiePath, path)

Matches(c, url) ==
  /\ c.secure => url.scheme = "https"
  /\ DomainMatches(c, url.host)
  /\ PathMatches(c.path, url.path)

Live(c, now) == c.expires = 0 \/ c.expires > now

\* A header that sets a cookie: its name and value, unless it has no `=`, and its attributes.
Attribute == ({"domain"} \X Seq(STRING)) \union ({"path"} \X Path) \union ({"max-age"} \X Int)
             \union ({"secure", "httponly", "expires", "samesite"} \X Word)
SetCookie == [pair : {<<>>} \union ((Word \ {Empty}) \X Word), attrs : Seq(Attribute)]

\* Where attributes of one name stand; the last of several wins.
Said(attrs, key) == {i \in DOMAIN attrs : attrs[i][1] = key}
LastOf(attrs, S, none) == IF S = {} THEN none ELSE attrs[Max(S)][2]

\* An empty domain says nothing; nothing takes a deletion back.
Attributes(attrs, now) ==
  LET domains == {i \in Said(attrs, "domain") : attrs[i][2] # <<>>}
      lives == {i \in Said(attrs, "max-age") : attrs[i][2] > 0}
      ends == Said(attrs, "expires") IN
  [dot |-> domains # {}, host |-> LastOf(attrs, domains, <<>>),
   path |-> LastOf(attrs, Said(attrs, "path"), Root),
   secure |-> Said(attrs, "secure") # {}, httpOnly |-> Said(attrs, "httponly") # {},
   expires |-> IF \E i \in lives : \A j \in ends : j < i THEN now + LastOf(attrs, lives, 0) ELSE 0,
   deleted |-> Said(attrs, "max-age") # lives]

SameKey(c, d) == c.name = d.name /\ c.dot = d.dot /\ c.host = d.host /\ c.path = d.path

CookieOf(pair, a, host) ==
  [name |-> pair[1], value |-> pair[2], dot |-> a.dot,
   host |-> IF a.host = <<>> THEN host ELSE a.host, path |-> a.path,
   secure |-> a.secure, httpOnly |-> a.httpOnly, expires |-> a.expires]

RemoveMatching(jar, c) == Keep(jar, {d \in ToSet(jar) : ~SameKey(c, d)})

AddFromSetCookie(jar, h, host, now) ==
  IF h.pair = <<>> THEN jar
  ELSE LET a == Attributes(h.attrs, now)  c == CookieOf(h.pair, a, host) IN
       IF a.deleted THEN RemoveMatching(jar, c) ELSE Append(RemoveMatching(jar, c), c)

\* What a request for url carries, in the order the cookies were set.
CookieHeader(jar, url, now) ==
  Keep(jar, {c \in ToSet(jar) : Live(c, now) /\ Matches(c, url)})

RetainLive(jar, now) == Keep(jar, {c \in ToSet(jar) : Live(c, now)})

\* What the headers of an answer make of a jar, one after the other.
AddedAll(jar, headers, host, now) ==
  LET upto[n \in 0..Len(headers)] ==
        IF n = 0 THEN jar ELSE AddFromSetCookie(upto[n - 1], headers[n], host, now) IN
  upto[Len(headers)]

\* A line of a file; only those of the form "row" have the seven columns.
Text == [form : {"row", "short", "comment"}, name : Word, value : Word, dot : BOOLEAN, host : Seq(STRING), path : Path,
         secure : BOOLEAN, httpOnly : BOOLEAN, expires : Int]

\* A variant that takes the prefix of a cookie for scripts only for a comment.
PrefixIsComment(line, now) ==
  /\ line.form = "row" /\ ~line.httpOnly
  /\ line.expires = 0 \/ line.expires > now

\* A line that is read: a row with its seven columns, a name and a domain, that has not expired.
Readable(line, now) ==
  /\ line.form = "row" /\ line.name # Empty /\ line.host # <<>>
  /\ line.expires = 0 \/ line.expires > now

CookieOn(line) ==
  [name |-> line.name, value |-> line.value, dot |-> line.dot, host |-> line.host, path |-> line.path,
   secure |-> line.secure, httpOnly |-> line.httpOnly, expires |-> line.expires]

Loaded(file, now) ==
  LET rows == Keep(file, {line \in ToSet(file) : Readable(line, now)}) IN
  [i \in DOMAIN rows |-> CookieOn(rows[i])]

\* load_netscape_file: a file without a live cookie leaves the jar as it was.
LoadFile(jar, file, now) == LET loaded == Loaded(file, now) IN IF loaded = <<>> THEN jar ELSE loaded

Line(c) ==
  [form |-> "row", name |-> c.name, value |-> c.value, dot |-> c.dot, host |-> c.host, path |-> c.path,
   secure |-> c.secure, httpOnly |-> c.httpOnly, expires |-> c.expires]
Comment == [form |-> "comment", name |-> Empty, value |-> Empty, dot |-> FALSE, host |-> <<>>, path |-> Root,
            secure |-> FALSE, httpOnly |-> FALSE, expires |-> 0]

\* save_netscape_file: what it writes for a jar that is not empty.
Lines(jar) == <<Comment>> \o [i \in DOMAIN jar |-> Line(jar[i])]
=============================================================================
