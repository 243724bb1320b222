------------------------------ MODULE LinkStore ------------------------------
(***************************************************************************)
(* What the repository of the gateway promises to the URL service, with no *)
(* cache in sight.  A call changes the row of its code at most once, and   *)
(* is answered with an error or with a value that the row has had since    *)
(* the code was last at rest, that is, since no call for it was under way: *)
(* an answer may be stale only while calls overlap.  The answers for a     *)
(* code that has become doubtful may be any value that the row ever had.   *)
(* Without faults that takes a row that changes while two calls for its    *)
(* code are under way; with faults it still takes a call for the code.     *)
(***************************************************************************)
CONSTANTS
  Codes, Links, Procs, NotFound, Failed, NoAnswer,
  Faulty    \* commands to the cache are lost or late, or statements fail

VARIABLES
  rows,      \* the row of each code
  once,      \* every value it has had
  recent,    \* the values it has had since the code was last at rest
  doubtful,  \* the codes that a fault or a race makes exempt
  at,        \* where each call is
  code,      \* what it is for
  answer     \* what it is answered

vars == <<rows, once, recent, doubtful, at, code, answer>>

Init ==
  /\ rows = [c \in Codes |-> NotFound]
  /\ once = [c \in Codes |-> {NotFound}]
  /\ recent = once
  /\ doubtful = {}
  /\ at = [p \in Procs |-> "idle"]
  /\ code \in [Procs -> Codes]
  /\ answer = [p \in Procs |-> NoAnswer]

\* A call for c is under way.
Busy(c) == \E p \in Procs : at[p] # "idle" /\ code[p] = c

\* So are two.
Overlap(c) ==
  \E p, q \in Procs :
    p # q /\ at[p] # "idle" /\ at[q] # "idle" /\ code[p] = c /\ code[q] = c

\* What makes a code doubtful.
Doubt(c) == Busy(c)' /\ (Faulty \/ (rows'[c] # rows[c] /\ Overlap(c)'))

\* Rest forgets what the row was.
Track ==
  /\ recent' = [c \in Codes |->
                  IF Busy(c)' THEN recent[c] \cup {rows'[c]} ELSE {rows'[c]}]
  /\ doubtful' \subseteq doubtful \cup {c \in Codes : Doubt(c)}

\* What a call for c may be answered.
Answers(c) ==
  recent[c] \cup {Failed} \cup (IF c \in doubtful THEN once[c] ELSE {})

\* The row of c becomes v.
Put(c, v) ==
  /\ rows' = [rows EXCEPT ![c] = v]
  /\ once' = [once EXCEPT ![c] = @ \cup {v}]

Change(c) ==
  \/ UNCHANGED <<rows, once>>
  \/ rows[c] = NotFound /\ \E u \in Links \ UNION {once[d] : d \in Codes} : Put(c, u)
  \/ rows[c] # NotFound /\ Put(c, NotFound)

\* p calls for c, and may be answered at once.
Call(p, c) ==
  /\ at[p] = "idle"
  /\ Change(c)
  /\ code' = [code EXCEPT ![p] = c]
  /\ \/ at' = [at EXCEPT ![p] = "asked"] /\ UNCHANGED answer
     \/ /\ at' = [at EXCEPT ![p] = "answered"]
        /\ \E v \in Answers(c)' : answer' = [answer EXCEPT ![p] = v]
  /\ Track

\* Calls for the same code are answered alike.
Answer(S, v) ==
  /\ \A p \in S : at[p] = "asked" /\ v \in Answers(code[p])'
  /\ at' = [p \in Procs |-> IF p \in S THEN "answered" ELSE at[p]]
  /\ answer' = [p \in Procs |-> IF p \in S THEN v ELSE answer[p]]
  /\ UNCHANGED <<rows, once, code>>
  /\ Track

Return(p) ==
  /\ at[p] = "answered"
  /\ at' = [at EXCEPT ![p] = "idle"]
  /\ answer' = [answer EXCEPT ![p] = NoAnswer]
  /\ \E c \in Codes : code' = [code EXCEPT ![p] = c]
  /\ UNCHANGED <<rows, once>>
  /\ Track

Idle == UNCHANGED <<rows, once, at, code, answer>> /\ Track

Next ==
  \/ \E p \in Procs, c \in Codes : Call(p, c)
  \/ \E S \in SUBSET Procs :
       S # {} /\ \E v \in UNION {Answers(c)' : c \in Codes} : Answer(S, v)
  \/ \E p \in Procs : Return(p)
  \/ Idle

Spec == Init /\ [][Next]_vars
=============================================================================
