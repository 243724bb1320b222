------------------------------ MODULE ShortCode ------------------------------
(***************************************************************************)
(* services/gateway/internal/service/shortcode.go: a candidate code is the *)
(* beginning of the base 62 encoding of a hash of the canonical URL.       *)
(* CreateShortURL writes the number of the attempt behind the URL before   *)
(* Generate takes it apart, so the number ends up in the URL's last part.  *)
(*                                                                         *)
(* A URL is an https URL in its parts; `upper' says that its host is not   *)
(* written in lower case.                                                  *)
(***************************************************************************)
EXTENDS Naturals, Sequences

CONSTANTS
  Hosts,        \* host names, in lower case
  Literals,     \* the hosts that are IPv6 literals, [::1]
  HashURL(_),   \* the number a canonical URL is hashed to
  Base,         \* 62
  CodeLength    \* SHORT_CODE_LENGTH

Ports == {"", ":443"}
Paths == {"", "/", "/p", "/p/"}

URLs == [host : Hosts, upper : BOOLEAN, port : Ports, path : Paths,
         query : BOOLEAN, fragment : BOOLEAN]

ASSUME ShortCodeAssumption ==
  /\ Literals \subseteq Hosts
  /\ Base \in Nat /\ Base > 1
  /\ CodeLength \in Nat

\* The part of the URL that the number of the attempt is written behind.
LastPart(url) ==
  IF url.fragment THEN "fragment"
  ELSE IF url.query THEN "query"
  ELSE IF url.path # "" THEN "path"
  ELSE IF url.port # "" THEN "port"
  ELSE "host"

TrimSlash(path) ==
  CASE path = "/" -> "" [] path = "/p/" -> "/p" [] OTHER -> path

\* Digits behind an IPv6 literal are not a host that url.Parse takes.
Parses(url) == ~(url.host \in Literals /\ LastPart(url) = "host")

\* The URL followed by the number n, without its fragment, a slash at the end
\* of the path and the default port; a number written behind one of the last
\* two makes something else of it.
Canonicalize(url, n) ==
  LET last == LastPart(url) IN
  [host   |-> url.host,
   port   |-> IF last = "port" THEN url.port ELSE "",
   path   |-> IF last = "path" THEN url.path ELSE TrimSlash(url.path),
   query  |-> url.query,
   number |-> IF last = "fragment" THEN <<>> ELSE <<last, n>>]

Digits == 0 .. Base - 1

\* The digits of num, the most significant first.
EncodeBase62[num \in Nat] ==
  IF num < Base THEN <<num>>
  ELSE Append(EncodeBase62[num \div Base], num % Base)

Encoded(url, n) == EncodeBase62[HashURL(Canonicalize(url, n))]

\* The error of Generate.
GenerateErr(url, n) ==
  IF ~Parses(url) THEN "ErrInvalidURL"
  ELSE IF Len(Encoded(url, n)) < CodeLength THEN "ErrShortCodeGeneration"
  ELSE "nil"

\* The code that Generate returns when it returns no error.
Generate(url, n) == SubSeq(Encoded(url, n), 1, CodeLength)

\* What a code looks like: only a code of one digit can begin with 0.
GeneratedCodes ==
  {c \in [1 .. CodeLength -> Digits] : CodeLength > 1 => c[1] # 0}
=============================================================================
