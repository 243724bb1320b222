----------------------------- MODULE URLService -----------------------------
(***************************************************************************)
(* The URL service (services/gateway/internal/service/url_service.go) and  *)
(* the HTTP handlers above it (api/handler.go).  A request is a process    *)
(* that makes one call of the repository at a time: CreateShortURL inserts *)
(* under its alias, or under one candidate code after the other until one  *)
(* is free; Redirect and GetURL fetch and then check the expiry; DeleteURL *)
(* deletes.  `status' is what the handler answers.                         *)
(*                                                                         *)
(* The repository is what CachedURLRepository promises: an INSERT or       *)
(* DELETE is atomic and may fail after it has committed, and GetByCode     *)
(* answers with a value that the row has had, from the cache or not, or    *)
(* with an error.                                                          *)
(***************************************************************************)
EXTENDS ShortCode

CONSTANTS
  Reqs,       \* requests, each with a uuid of its own for the row it inserts
  LongURLs,   \* the URLs that clients shorten
  Aliases,    \* the custom aliases that they ask for
  Codes,      \* every alias and every code that Generate can return
  Retries,    \* SHORT_CODE_MAX_RETRIES
  ExpiresIn,  \* the values of expires_in, in days
  MaxTime,    \* bound: the last day
  None,       \* no row
  NoAlias,    \* no custom alias
  Never       \* no expiry

Rows == [by : Reqs, url : LongURLs, expires : Nat \cup {Never}]

ASSUME URLServiceAssumption ==
  /\ LongURLs \subseteq URLs
  /\ Retries \in Nat
  /\ ExpiresIn \subseteq Nat
  /\ MaxTime \in Nat
  /\ None \notin Rows
  /\ NoAlias \notin Codes
  /\ Aliases \subseteq Codes /\ GeneratedCodes \subseteq Codes
  /\ \A url \in LongURLs, n \in 0 .. Retries - 1 : HashURL(Canonicalize(url, n)) \in Nat

VARIABLES
  time,      \* the day
  rows,      \* the row of each code
  pc,        \* where each request is
  op,        \* what it is: create, get, redirect or delete
  code,      \* the alias it asks for, or the code it names or is given
  row,       \* the row it inserts, or the one it has fetched
  attempt,   \* the attempts of the loop that have ended
  status,    \* the status code of the response, 0 before it
  once,      \* history: every value the row of a code has had
  deleted,   \* history: <<code, row>> that a DELETE has removed
  faulted,   \* history: requests that met an error of the database
  gone       \* history: rows that a request was told have expired

vars == <<time, rows, pc, op, code, row, attempt, status, once, deleted,
          faulted, gone>>

table == <<rows, once, deleted>>

Statuses == {0, 200, 201, 204, 301, 400, 404, 409, 410, 500}

TypeOK ==
  /\ time \in 0 .. MaxTime
  /\ rows \in [Codes -> Rows \cup {None}]
  /\ pc \in [Reqs -> {"new", "insert", "fetch", "check", "delete", "done"}]
  /\ op \in [Reqs -> {"none", "create", "get", "redirect", "delete"}]
  /\ code \in [Reqs -> Codes \cup {NoAlias}]
  /\ row \in [Reqs -> Rows \cup {None}]
  /\ attempt \in [Reqs -> 0 .. Retries]
  /\ status \in [Reqs -> Statuses]
  /\ once \in [Codes -> SUBSET (Rows \cup {None})]
  /\ deleted \subseteq Codes \X Rows
  /\ faulted \subseteq Reqs
  /\ gone \subseteq Rows

Init ==
  /\ time = 0
  /\ rows = [c \in Codes |-> None]
  /\ pc = [r \in Reqs |-> "new"]
  /\ op = [r \in Reqs |-> "none"]
  /\ code = [r \in Reqs |-> NoAlias]
  /\ row = [r \in Reqs |-> None]
  /\ attempt = [r \in Reqs |-> 0]
  /\ status = [r \in Reqs |-> 0]
  /\ once = [c \in Codes |-> {None}]
  /\ deleted = {}
  /\ faulted = {}
  /\ gone = {}

-----------------------------------------------------------------------------
\* The handlers' switches: the response to an error of the service.

CreateStatus(err) ==
  CASE err = "ErrInvalidURL" -> 400
    [] err = "ErrCodeExists" -> 409
    [] OTHER -> 500

ReadStatus(err) ==
  CASE err = "ErrURLNotFound" -> 404
    [] err = "ErrURLExpired" -> 410
    [] OTHER -> 500

DeleteStatus(err) == IF err = "ErrURLNotFound" THEN 404 ELSE 500

Answer(r, s) ==
  /\ pc' = [pc EXCEPT ![r] = "done"]
  /\ status' = [status EXCEPT ![r] = s]

-----------------------------------------------------------------------------
\* The statements of the repository.

Put(c, v) ==
  /\ rows' = [rows EXCEPT ![c] = v]
  /\ once' = [once EXCEPT ![c] = @ \cup {v}]

\* Mutated form: INSERT ... ON CONFLICT DO UPDATE.
UpsertRow(r, c) == Put(c, row[r]) /\ UNCHANGED <<deleted, faulted>>

\* The INSERT of r's row under the code c commits and returns.
InsertRow(r, c) ==
  /\ rows[c] = None
  /\ Put(c, row[r])
  /\ UNCHANGED <<deleted, faulted>>

\* The unique constraint refuses it.
Conflict(c) == rows[c] # None /\ UNCHANGED <<table, faulted>>

\* It returns another error, having committed or not.
InsertFails(r, c) ==
  /\ faulted' = faulted \cup {r}
  /\ \/ rows[c] = None /\ Put(c, row[r]) /\ UNCHANGED deleted
     \/ UNCHANGED table

RemoveRow(c) ==
  /\ rows[c] # None
  /\ deleted' = deleted \cup {<<c, rows[c]>>}
  /\ Put(c, None)

-----------------------------------------------------------------------------
\* POST /api/v1/shorten.

\* The handler does not accept the body.
InvalidBody(r) ==
  /\ pc[r] = "new"
  /\ op' = [op EXCEPT ![r] = "create"]
  /\ Answer(r, 400)
  /\ UNCHANGED <<time, table, code, row, attempt, faulted, gone>>

\* The service is called and computes the time of expiry.
CreateShortURL(r) ==
  /\ pc[r] = "new"
  /\ op' = [op EXCEPT ![r] = "create"]
  /\ \E url \in LongURLs, alias \in Aliases \cup {NoAlias}, days \in ExpiresIn :
       /\ row' = [row EXCEPT ![r] =
            [by |-> r, url |-> url,
             expires |-> IF days > 0 THEN time + days ELSE Never]]
       /\ code' = [code EXCEPT ![r] = alias]
  /\ pc' = [pc EXCEPT ![r] = "insert"]
  /\ UNCHANGED <<time, table, attempt, status, faulted, gone>>

CreateAlias(r) ==
  /\ pc[r] = "insert" /\ code[r] # NoAlias
  /\ \/ InsertRow(r, code[r]) /\ Answer(r, 201)
     \/ Conflict(code[r]) /\ Answer(r, CreateStatus("ErrCodeExists"))
     \/ InsertFails(r, code[r]) /\ Answer(r, CreateStatus("other"))
  /\ UNCHANGED <<time, op, code, row, attempt, gone>>

\* The loop goes on with the next candidate.
NextAttempt(r) ==
  /\ attempt' = [attempt EXCEPT ![r] = @ + 1]
  /\ UNCHANGED <<pc, code, status>>

\* Mutated form: one attempt too many.
MoreAttemptsIncl(r) == attempt[r] <= Retries

\* Mutated form: one attempt too few.
MoreAttemptsExcl(r) == attempt[r] + 1 < Retries

\* The condition of the loop.
MoreAttempts(r) == attempt[r] < Retries

\* Mutated form: every error is taken for a collision.
AttemptFailsRetry(r) == NextAttempt(r)

\* An error other than a collision ends the loop.
AttemptFails(r) ==
  /\ Answer(r, CreateStatus("other"))
  /\ UNCHANGED <<code, attempt>>

\* A round of the loop: the candidate is generated and tried; only a collision
\* leads to the next round.
Attempt(r) ==
  LET url == row[r].url
      err == GenerateErr(url, attempt[r])
      candidate == Generate(url, attempt[r])
  IN
  /\ pc[r] = "insert" /\ code[r] = NoAlias
  /\ MoreAttempts(r)
  /\ \/ /\ err # "nil"
        /\ Answer(r, CreateStatus(err))
        /\ UNCHANGED <<table, code, attempt, faulted>>
     \/ /\ err = "nil"
        /\ \/ /\ InsertRow(r, candidate)
              /\ Answer(r, 201)
              /\ code' = [code EXCEPT ![r] = candidate]
              /\ UNCHANGED attempt
           \/ Conflict(candidate) /\ NextAttempt(r)
           \/ InsertFails(r, candidate) /\ AttemptFails(r)
  /\ UNCHANGED <<time, op, row, gone>>

\* The loop has ended without a code.
GiveUp(r) ==
  /\ pc[r] = "insert" /\ code[r] = NoAlias
  /\ ~MoreAttempts(r)
  /\ Answer(r, CreateStatus("ErrShortCodeGeneration"))
  /\ UNCHANGED <<time, table, op, code, row, attempt, faulted, gone>>

-----------------------------------------------------------------------------
\* GET /api/v1/urls/:code, GET /:code and DELETE /api/v1/urls/:code.

Ask(r, o, l) ==
  /\ pc[r] = "new"
  /\ op' = [op EXCEPT ![r] = o]
  /\ \E c \in Codes : code' = [code EXCEPT ![r] = c]
  /\ pc' = [pc EXCEPT ![r] = l]
  /\ UNCHANGED <<time, table, row, attempt, status, faulted, gone>>

GetURL(r) == Ask(r, "get", "fetch")
Redirect(r) == Ask(r, "redirect", "fetch")
DeleteURL(r) == Ask(r, "delete", "delete")

\* The repository answers getAndValidateURL.
GetByCode(r) ==
  /\ pc[r] = "fetch"
  /\ \/ \E v \in once[code[r]] \ {None} :
          /\ row' = [row EXCEPT ![r] = v]
          /\ pc' = [pc EXCEPT ![r] = "check"]
          /\ UNCHANGED <<status, faulted>>
     \/ /\ None \in once[code[r]]
        /\ Answer(r, ReadStatus("ErrURLNotFound"))
        /\ UNCHANGED <<row, faulted>>
     \/ /\ Answer(r, ReadStatus("other"))
        /\ faulted' = faulted \cup {r}
        /\ UNCHANGED row
  /\ UNCHANGED <<time, table, op, code, attempt, gone>>

\* Mutated form: Redirect takes what the repository answers as it is.
ExpiredGetOnly(r) == op[r] = "get" /\ row[r].expires # Never /\ row[r].expires < time

Expired(r) == row[r].expires # Never /\ row[r].expires < time

\* The response with the link: the metadata, or the redirection.
Served(r) == IF op[r] = "get" THEN 200 ELSE 301

\* getAndValidateURL checks the expiry and the handler answers.
Validate(r) ==
  /\ pc[r] = "check"
  /\ IF Expired(r)
       THEN Answer(r, ReadStatus("ErrURLExpired")) /\ gone' = gone \cup {row[r]}
       ELSE Answer(r, Served(r)) /\ UNCHANGED gone
  /\ UNCHANGED <<time, table, op, code, row, attempt, faulted>>

\* Mutated form: the number of rows that the DELETE affected is not looked at.
DeleteMissingUnchecked(r) == rows[code[r]] = None /\ Answer(r, 204)

\* The DELETE affects no row.
DeleteMissing(r) ==
  /\ rows[code[r]] = None
  /\ Answer(r, DeleteStatus("ErrURLNotFound"))

\* The DELETE removes a row, finds none, or fails, having committed or not.
Delete(r) ==
  /\ pc[r] = "delete"
  /\ \/ RemoveRow(code[r]) /\ Answer(r, 204) /\ UNCHANGED faulted
     \/ DeleteMissing(r) /\ UNCHANGED <<table, faulted>>
     \/ /\ RemoveRow(code[r]) \/ UNCHANGED table
        /\ Answer(r, DeleteStatus("other"))
        /\ faulted' = faulted \cup {r}
  /\ UNCHANGED <<time, op, code, row, attempt, gone>>

NextDay ==
  /\ time < MaxTime
  /\ time' = time + 1
  /\ UNCHANGED <<table, pc, op, code, row, attempt, status, faulted, gone>>

Next ==
  \/ NextDay
  \/ \E r \in Reqs :
       \/ InvalidBody(r)
       \/ CreateShortURL(r) \/ CreateAlias(r) \/ Attempt(r) \/ GiveUp(r)
       \/ GetURL(r) \/ Redirect(r) \/ GetByCode(r) \/ Validate(r)
       \/ DeleteURL(r) \/ Delete(r)

Spec == Init /\ [][Next]_vars

-----------------------------------------------------------------------------
Created(r) == op[r] = "create" /\ status[r] = 201

\* A link that was answered with 201 stays the row of its code until a DELETE
\* removes it: no other CreateShortURL, with an alias or a candidate that is
\* the same code, replaces it.
CreatedStays ==
  \A r \in Reqs : Created(r) =>
    \/ rows[code[r]] = row[r]
    \/ <<code[r], row[r]>> \in deleted

\* CreateShortURL leaves at most one row behind, however its statements fail
\* and whatever it collides with, and none when the answer is 400 or 409, or
\* 500 without an error of the database.
OneRowPerRequest ==
  \A r \in Reqs :
    LET inserted == {c \in Codes : \E v \in once[c] \ {None} : v.by = r} IN
    /\ \A c, d \in inserted : c = d
    /\ status[r] \in {400, 409} => inserted = {}
    /\ status[r] = 500 /\ r \notin faulted => inserted = {}

\* A request that used up its attempts met a row of another request under each
\* of the candidates that its URL has.
GivesUpOnlyWhenTaken ==
  \A r \in Reqs :
    op[r] = "create" /\ code[r] = NoAlias /\ status[r] = 500 /\ r \notin faulted
    /\ (\A n \in 0 .. Retries - 1 : GenerateErr(row[r].url, n) = "nil")
      => \A n \in 0 .. Retries - 1 :
           \E v \in once[Generate(row[r].url, n)] \ {None} : v.by # r

\* Of the requests that delete a code, no more are answered with 204 than rows
\* of the code were removed: two of them never both delete the same row.
DeletesCounted ==
  \A c \in Codes :
    LET answered == {r \in Reqs : op[r] = "delete" /\ code[r] = c /\ status[r] = 204}
        removed == {x \in deleted : x[1] = c}
    IN \E f \in [answered -> removed] : \A r, s \in answered : f[r] = f[s] => r = s

\* Once a request was answered that a link has expired, no request is answered
\* with the link again, from the cache, the database or a value fetched before.
GoneStaysGone ==
  [][\A r \in Reqs :
       status[r] = 0 /\ status'[r] \in {200, 301} => row'[r] \notin gone]_vars

\* What TestCreateShortURL_ServerCollisionRetry says of the retries: a request
\* finds a different code unless as many codes as it has attempts are taken.
RetryFindsAnother ==
  \A r \in Reqs :
    op[r] = "create" /\ code[r] = NoAlias /\ status[r] = 500 /\ r \notin faulted
    /\ (\A n \in 0 .. Retries - 1 : GenerateErr(row[r].url, n) = "nil")
      => \E f \in [0 .. Retries - 1 -> {c \in Codes : once[c] # {None}}] :
           \A m, n \in DOMAIN f : f[m] = f[n] => m = n
=============================================================================
