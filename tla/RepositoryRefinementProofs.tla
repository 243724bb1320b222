--------------------- MODULE RepositoryRefinementProofs ---------------------
(***************************************************************************)
(* CachedURLRepository implements LinkStore, for every set of codes,       *)
(* links, handlers and gateways and every combination of faults.           *)
(***************************************************************************)
EXTENDS RepositoryRefinement, CachedURLRepositoryProofs

\* What a handler ends with is a value or an error, never "no entry".
HasAnswer ==
  \A p \in Procs : pc[p] \in {"finish", "del", "reply"} => val[p] # Empty

\* An entry, and what a handler holds, are values that the row has had since
\* its code was last at rest, unless the code was suspect since then.
Fresh ==
  /\ suspect \subseteq tainted /\ tainted \subseteq Codes
  /\ \A c \in Codes : db[c] \in recent[c]
  /\ \A c \in Codes \ tainted : redis[c] \in recent[c] \cup {Empty}
  /\ \A p \in Procs :
       pc[p] # "idle" /\ code[p] \notin tainted =>
         val[p] \in recent[code[p]] \cup {Empty, Failed}

-----------------------------------------------------------------------------
\* Where the values in the hands of the handlers come from.
Provenance ==
  \A q \in Procs : pc'[q] # "idle" =>
    \/ val'[q] \in {db[code'[q]], db'[code'[q]], redis[code'[q]], Empty, Failed}
    \/ \E r \in Procs :
         pc[r] # "idle" /\ code[r] = code'[q] /\ val'[q] = val[r]

\* Where the entries come from.
EntryProvenance ==
  \A c \in Codes :
    \/ redis'[c] \in {redis[c], Empty}
    \/ \E r \in Procs : pc[r] # "idle" /\ code[r] = c /\ redis'[c] = val[r]
    \/ c \in suspect'

\* A handler that moves with a value that it has just read or written.
LEMMA ProvenanceGo ==
  ASSUME TypeOK, NEW p \in Procs, NEW l, NEW v, Go(p, l, v),
         \A q \in Procs : q # p => code'[q] = code[q],
         l # "idle" =>
           \/ v \in {db[code'[p]], db'[code'[p]], redis[code'[p]], Empty, Failed}
           \/ pc[p] # "idle" /\ code'[p] = code[p] /\ v = val[p]
  PROVE  Provenance
<1>1. \A q \in Procs : /\ pc'[q] = IF q = p THEN l ELSE pc[q]
                       /\ val'[q] = IF q = p THEN v ELSE val[q]
  BY DEF TypeOK, Go
<1> QED
  BY <1>1 DEF Provenance

\* Every step hands out values that it has read, written or been given.
LEMMA ProvenanceStep == TypeInv /\ [Next]_vars => Provenance
<1> SUFFICES ASSUME TypeInv, [Next]_vars PROVE Provenance
  OBVIOUS
<1>0. TypeOK
  BY DEF TypeInv
<1> USE <1>0
<1>1. ASSUME NEW p \in Procs, NEW c \in Codes,
             \/ GetByCode(p, c) \/ CreateConflict(p, c) \/ Delete(p, c)
             \/ DeleteMissing(p, c) \/ DeleteFails(p, c)
             \/ \E u \in Links : Create(p, c, u) \/ CreateFails(p, c, u)
      PROVE  Provenance
  <2>1. code' = [code EXCEPT ![p] = c] /\ code'[p] = c
    BY <1>1 DEF GetByCode, CreateConflict, Delete, DeleteMissing, DeleteFails,
                Create, CreateFails, TypeOK
  <2>2. \A q \in Procs : q # p => code'[q] = code[q]
    BY <2>1 DEF TypeOK
  <2>3. \E l, v : /\ Go(p, l, v)
                  /\ v \in {db[c], db'[c], redis[c], Empty, Failed}
    BY <1>1 DEF GetByCode, CreateConflict, Delete, DeleteMissing, DeleteFails,
                Create, CreateFails, CacheReads, Commit, TypeOK
  <2> QED
    BY <2>1, <2>2, <2>3, ProvenanceGo
<1>2. ASSUME NEW p \in Procs, ReCheck(p) \/ Query(p) \/ Reply(p) PROVE Provenance
  <2>1. \A q \in Procs : q # p => code'[q] = code[q]
    BY <1>2 DEF ReCheck, Query, Reply, TypeOK
  <2>2. \E l, v : /\ Go(p, l, v)
                  /\ l # "idle" => v \in {db[code'[p]], redis[code'[p]], Empty, Failed}
    BY <1>2 DEF ReCheck, Query, Reply
  <2> QED
    BY <2>1, <2>2, ProvenanceGo
<1>3. ASSUME NEW p \in Procs,
             \/ JoinFlight(p) \/ RewriteCache(p)
             \/ CreateCacheSet(p) \/ DeleteCacheDel(p)
      PROVE  Provenance
  <2>1. /\ pc[p] # "idle" /\ UNCHANGED <<code, val>>
        /\ \E l : pc' = [pc EXCEPT ![p] = l]
    BY <1>3 DEF JoinFlight, RewriteCache, CreateCacheSet, DeleteCacheDel
  <2>2. \A q \in Procs : pc'[q] # "idle" => pc[q] # "idle"
    BY <2>1 DEF TypeOK
  <2> QED
    BY <2>1, <2>2 DEF Provenance
<1>4. ASSUME NEW p \in Procs, EndFlight(p) PROVE Provenance
  BY <1>4 DEF EndFlight, Waiters, Provenance
<1>5. ASSUME UNCHANGED <<pc, code, val>> PROVE Provenance
  BY <1>5 DEF Provenance
<1> QED
  BY <1>1, <1>2, <1>3, <1>4, <1>5 DEF Next, Step, Expire, Land, vars

\* An entry changes to what a handler for that code holds, to nothing, or by
\* a late command, and then the code is suspect.
LEMMA EntryStep == TypeInv /\ CoherenceInv /\ [Next]_vars => EntryProvenance
<1> SUFFICES ASSUME TypeInv, CoherenceInv, [Next]_vars PROVE EntryProvenance
  OBVIOUS
<1>0. TypeOK
  BY DEF TypeInv
<1> USE <1>0
<1>1. ASSUME NEW p \in Procs,
             RewriteCache(p) \/ CreateCacheSet(p) \/ DeleteCacheDel(p)
      PROVE  EntryProvenance
  <2>1. /\ pc[p] # "idle" /\ code[p] \in Codes
        /\ \E e \in {val[p], Empty} :
             Execute(code[p], e) \/ UNCHANGED redis
    BY <1>1 DEF RewriteCache, CreateCacheSet, DeleteCacheDel, CacheWrite, TypeOK
  <2> QED
    BY <2>1 DEF Execute, EntryProvenance, TypeOK
<1>2. ASSUME NEW c \in Codes, Expire(c) PROVE EntryProvenance
  BY <1>2 DEF Expire, Execute, EntryProvenance, TypeOK
<1>3. ASSUME NEW m \in late, Land(m) PROVE EntryProvenance
  <2>1. m.code \in suspect'
    BY <1>3 DEF Land, CoherenceInv, TypeOK
  <2>2. \A c \in Codes : c # m.code => redis'[c] = redis[c]
    BY <1>3 DEF Land, Execute, TypeOK
  <2> QED
    BY <2>1, <2>2 DEF EntryProvenance
<1>4. ASSUME UNCHANGED redis PROVE EntryProvenance
  BY <1>4 DEF EntryProvenance
<1> QED
  BY <1>1, <1>2, <1>3, <1>4
     DEF Next, Step, GetByCode, CreateConflict, Delete, DeleteMissing,
         DeleteFails, Create, CreateFails, JoinFlight, ReCheck, Query, EndFlight,
         Reply, vars

-----------------------------------------------------------------------------
\* HasAnswer is inductive.
LEMMA HasAnswerStep == TypeInv /\ HasAnswer /\ [Next]_vars => HasAnswer'
<1> SUFFICES ASSUME TypeInv, HasAnswer, [Next]_vars PROVE HasAnswer'
  OBVIOUS
<1>0. TypeOK
  BY DEF TypeInv
<1> USE <1>0
<1>a. ASSUME NEW p \in Procs, NEW l, NEW v, Go(p, l, v),
             l \in {"finish", "del", "reply"} => v # Empty
      PROVE  HasAnswer'
  BY <1>a DEF HasAnswer, Go, TypeOK
<1>b. ASSUME NEW v \in Rows \cup {Failed} PROVE v # Empty
  BY <1>b, ValuesAssumption DEF Rows, Entries
<1>1. ASSUME NEW p \in Procs, NEW c \in Codes,
             \/ GetByCode(p, c) \/ CreateConflict(p, c) \/ Delete(p, c)
             \/ DeleteMissing(p, c) \/ DeleteFails(p, c)
             \/ \E u \in Links : Create(p, c, u) \/ CreateFails(p, c, u)
      PROVE  HasAnswer'
  <2>1. \E l, v : Go(p, l, v) /\ (l \in {"finish", "del", "reply"} => v # Empty)
    BY <1>1, <1>b, ValueSets
       DEF GetByCode, CreateConflict, Delete, DeleteMissing, DeleteFails,
           Create, CreateFails
  <2> QED
    BY <2>1, <1>a
<1>2. ASSUME NEW p \in Procs, ReCheck(p) \/ Query(p) \/ Reply(p)
      PROVE  HasAnswer'
  <2>1. \E l, v : Go(p, l, v) /\ (l \in {"finish", "del", "reply"} => v # Empty)
    BY <1>2, <1>b DEF ReCheck, Query, Reply
  <2> QED
    BY <2>1, <1>a
<1>3. ASSUME NEW p \in Procs,
             RewriteCache(p) \/ CreateCacheSet(p) \/ DeleteCacheDel(p)
      PROVE  HasAnswer'
  <2>1. val[p] # Empty
    BY <1>3, <1>b
       DEF RewriteCache, CreateCacheSet, DeleteCacheDel, TypeInv, HasAnswer
  <2> QED
    BY <1>3, <2>1
       DEF RewriteCache, CreateCacheSet, DeleteCacheDel, HasAnswer, TypeOK
<1>4. ASSUME NEW p \in Procs, JoinFlight(p) PROVE HasAnswer'
  BY <1>4 DEF JoinFlight, HasAnswer, TypeOK
<1>5. ASSUME NEW p \in Procs, EndFlight(p) PROVE HasAnswer'
  BY <1>5 DEF EndFlight, Waiters, HasAnswer
<1>6. ASSUME UNCHANGED <<pc, val>> PROVE HasAnswer'
  BY <1>6 DEF HasAnswer
<1> QED
  BY <1>1, <1>2, <1>3, <1>4, <1>5, <1>6 DEF Next, Step, Expire, Land, vars

\* Fresh is inductive: while a code is in use the history only grows, and when
\* it comes to rest, the entry is the row or absent, or the code is suspect.
LEMMA FreshStep ==
  ASSUME TypeInv, TypeInv', CoherenceInv, CoherenceInv', Fresh, HNext
  PROVE  Fresh'
<1>0. TypeOK /\ TypeOK'
  BY DEF TypeInv
<1>1. Provenance /\ EntryProvenance
  BY ProvenanceStep, EntryStep DEF HNext
<1>2. \A c \in Codes : recent'[c] = IF Busy(c)' THEN recent[c] \cup {db'[c]}
                                                ELSE {db'[c]}
  BY DEF HNext
<1>3. tainted' = suspect' \cup {c \in tainted : Busy(c)'}
  BY DEF HNext
<1>4. suspect' \subseteq tainted' /\ tainted' \subseteq Codes
  BY <1>0, <1>3 DEF Fresh, TypeOK
<1>5. \A c \in Codes : db'[c] \in recent'[c]
  BY <1>2
<1>6. ASSUME NEW c \in Codes \ tainted', Busy(c)'
      PROVE  c \notin tainted /\ recent[c] \subseteq recent'[c]
  BY <1>2, <1>3, <1>6
<1>7. ASSUME NEW r \in Procs, pc[r] # "idle", code[r] \notin tainted
      PROVE  val[r] \in recent[code[r]] \cup {Empty, Failed}
  BY <1>7 DEF Fresh
<1>8. ASSUME NEW c \in Codes \ tainted' PROVE redis'[c] \in recent'[c] \cup {Empty}
  <2>1. CASE ~Busy(c)'
    <3>1. redis'[c] \in {db'[c], Empty}
      BY <1>3, <2>1 DEF CoherenceInv, CoherentUnlessSuspect, Busy
    <3> QED
      BY <1>5, <3>1
  <2>2. CASE Busy(c)'
    <3>1. redis'[c] # Failed
      BY <1>0, ValuesAssumption DEF TypeOK
    <3>2. c \notin tainted /\ recent[c] \subseteq recent'[c] /\ c \notin suspect'
      BY <1>3, <1>6, <2>2
    <3>3. redis[c] \in recent[c] \cup {Empty}
      BY <3>2 DEF Fresh
    <3> QED
      BY <1>1, <1>7, <3>1, <3>2, <3>3 DEF EntryProvenance
  <2> QED
    BY <2>1, <2>2
<1>9. ASSUME NEW q \in Procs, NEW c \in Codes, code'[q] = c,
             pc'[q] # "idle", c \notin tainted'
      PROVE  val'[q] \in recent'[c] \cup {Empty, Failed}
  <2>1. Busy(c)'
    BY <1>9 DEF Busy
  <2>2. c \notin tainted /\ recent[c] \subseteq recent'[c]
    BY <1>6, <1>9, <2>1
  <2>3. /\ db[c] \in recent[c] /\ db'[c] \in recent'[c]
        /\ redis[c] \in recent[c] \cup {Empty}
    BY <1>5, <2>2 DEF Fresh
  <2> QED
    BY <1>1, <1>7, <1>9, <2>2, <2>3 DEF Provenance
<1>10. \A q \in Procs : code'[q] \in Codes
  BY <1>0 DEF TypeOK
<1> QED
  BY <1>4, <1>5, <1>8, <1>9, <1>10 DEF Fresh

-----------------------------------------------------------------------------
\* How a code becomes suspect.

\* Only a fault leaves a command behind.
LateIsFault == late # {} => Faults # {}

LEMMA LateStep == LateIsFault /\ [Next]_vars => LateIsFault'
<1> SUFFICES ASSUME LateIsFault, [Next]_vars, late' # {} PROVE Faults # {}
  BY DEF LateIsFault
<1>1. ASSUME late' \subseteq late PROVE Faults # {}
  BY <1>1 DEF LateIsFault
<1>2. ASSUME NEW c, NEW e, CacheWrite(c, e) PROVE Faults # {}
  BY <1>1, <1>2 DEF CacheWrite
<1> QED
  BY <1>1, <1>2
     DEF Next, Step, GetByCode, CreateConflict, Delete, DeleteMissing, DeleteFails,
         Create, CreateFails, JoinFlight, ReCheck, Query, RewriteCache, EndFlight,
         CreateCacheSet, DeleteCacheDel, Reply, Expire, Land, vars

\* Two requests for c are under way.
Overlap(c) ==
  \E p, q \in Procs :
    p # q /\ pc[p] # "idle" /\ pc[q] # "idle" /\ code[p] = c /\ code[q] = c

\* A code becomes suspect by a request for it that meets a fault or changes the
\* row under another one.
LEMMA SuspectStep ==
  ASSUME TypeOK, TypeOK', LateIsFault, Next, NEW c \in suspect' \ suspect
  PROVE  Busy(c)' /\ (Faults # {} \/ (db'[c] # db[c] /\ Overlap(c)'))
<1>1. ASSUME NEW p \in Procs, RewriteCache(p) \/ CreateCacheSet(p) \/ DeleteCacheDel(p)
      PROVE  Busy(c)' /\ Faults # {}
  <2>1. /\ code' = code /\ pc'[p] # "idle"
        /\ \E e : CacheWrite(code[p], e)
    BY <1>1 DEF RewriteCache, CreateCacheSet, DeleteCacheDel, TypeOK
  <2>2. c = code[p] /\ Faults # {}
    BY <2>1 DEF CacheWrite
  <2> QED
    BY <2>1, <2>2 DEF Busy
<1>2. ASSUME NEW p \in Procs, NEW d \in Codes,
             DeleteFails(p, d) \/ \E u \in Links : CreateFails(p, d, u)
      PROVE  Busy(c)' /\ Faults # {}
  <2>1. pc'[p] # "idle" /\ code'[p] = d /\ c = d /\ Faults # {}
    BY <1>2 DEF DeleteFails, CreateFails, Go, TypeOK
  <2> QED
    BY <2>1 DEF Busy
<1>3. ASSUME NEW p \in Procs, NEW d \in Codes,
             Delete(p, d) \/ \E u \in Links : Create(p, d, u)
      PROVE  Busy(c)' /\ (Faults # {} \/ (db'[c] # db[c] /\ Overlap(c)'))
  <2>1. /\ pc[p] = "idle" /\ pc'[p] # "idle" /\ code'[p] = d
        /\ c = d /\ WritePending(c)
        /\ \A q \in Procs : q # p => pc'[q] = pc[q] /\ code'[q] = code[q]
    BY <1>3 DEF Delete, Create, Go, TypeOK
  <2>2. db'[c] # db[c]
    BY <1>3, <2>1, ValuesAssumption DEF Delete, Create, Commit, TypeOK
  <2>3. CASE late # {}
    BY <2>1, <2>3 DEF LateIsFault, Busy
  <2>4. CASE late = {}
    <3>1. PICK q \in Procs : code[q] = c /\ pc[q] \in {"fill", "set", "del"}
      BY <2>1, <2>4 DEF WritePending
    <3>2. q # p /\ pc'[q] # "idle" /\ code'[q] = c
      BY <2>1, <3>1
    <3> QED
      BY <2>1, <2>2, <3>2 DEF Busy, Overlap
  <2> QED
    BY <2>3, <2>4
<1>4. ASSUME suspect' \subseteq suspect PROVE FALSE
  BY <1>4
<1> QED
  BY <1>1, <1>2, <1>3, <1>4
     DEF Next, Step, GetByCode, CreateConflict, DeleteMissing, JoinFlight, ReCheck,
         Query, EndFlight, Reply, Expire, Land

\* The invariant of the refinement.
RefinementInv ==
  TypeInv /\ AnswerInv /\ CoherenceInv /\ HasAnswer /\ LateIsFault /\ Fresh

\* It holds at the start.
LEMMA RefinementInit == HInit => RefinementInv
<1> SUFFICES ASSUME HInit PROVE RefinementInv
  OBVIOUS
<1>1. Init /\ recent = [c \in Codes |-> {NotFound}] /\ tainted = {}
  BY DEF HInit
<1>2. TypeInv
  BY <1>1, TypeInit
<1>3. AnswerInv
  BY <1>1, AnyCodeType DEF Init, AnswerInv, EveryAnswerWasOnceTrue
<1>4. CoherenceInv
  BY <1>1 DEF Init, CoherenceInv, CoherentUnlessSuspect
<1>5. HasAnswer
  BY <1>1 DEF Init, HasAnswer
<1>6. Fresh
  BY <1>1, AnyCodeType DEF Init, Fresh
<1>7. LateIsFault
  BY <1>1 DEF Init, LateIsFault
<1> QED
  BY <1>2, <1>3, <1>4, <1>5, <1>6, <1>7 DEF RefinementInv

\* Every step keeps it.
LEMMA RefinementStep == RefinementInv /\ [HNext]_hvars => RefinementInv'
<1> SUFFICES ASSUME RefinementInv, [HNext]_hvars PROVE RefinementInv'
  OBVIOUS
<1>1. [Next]_vars
  BY DEF HNext, hvars
<1>2. TypeInv' /\ AnswerInv' /\ CoherenceInv' /\ HasAnswer' /\ LateIsFault'
  BY <1>1, TypeStep, AnswerStep, CoherenceStep, HasAnswerStep, LateStep
     DEF RefinementInv
<1>3. CASE HNext
  BY <1>2, <1>3, FreshStep DEF RefinementInv
<1>4. CASE UNCHANGED hvars
  BY <1>2, <1>4 DEF RefinementInv, Fresh, hvars, vars
<1> QED
  BY <1>3, <1>4

-----------------------------------------------------------------------------
\* The steps of the repository as steps of the store.

\* An answer is one that the store may give.
Answerable ==
  \A p \in Procs, c \in Codes :
    pc[p] = "reply" /\ code[p] = c => val[p] \in Store!Answers(c)

\* The invariant makes every answer one that the store may give.
LEMMA AnswerableNext == ASSUME RefinementInv' PROVE Answerable'
<1> SUFFICES ASSUME NEW p \in Procs, NEW c \in Codes,
                    pc'[p] = "reply", code'[p] = c
             PROVE  val'[p] \in Store!Answers(c)'
  BY DEF Answerable
<1>1. val'[p] # Empty
  BY DEF RefinementInv, HasAnswer
<1>2. val'[p] \in once'[c] \cup {Empty, Failed}
  BY DEF RefinementInv, AnswerInv, EveryAnswerWasOnceTrue
<1>3. c \notin tainted' => val'[p] \in recent'[c] \cup {Empty, Failed}
  BY DEF RefinementInv, Fresh
<1> QED
  BY <1>1, <1>2, <1>3 DEF Store!Answers

\* Where a handler is, for the store.
LEMMA WhereIs ==
  \A p \in Procs :
    /\ pc[p] = "idle" => Where[p] = "idle"
    /\ pc[p] = "reply" => Where[p] = "answered"
    /\ pc[p] \notin {"idle", "reply"} => Where[p] = "asked"
BY DEF Where

\* The same after a step.
LEMMA WhereNext ==
  \A p \in Procs :
    /\ pc'[p] = "idle" => Where'[p] = "idle"
    /\ pc'[p] = "reply" => Where'[p] = "answered"
    /\ pc'[p] \notin {"idle", "reply"} => Where'[p] = "asked"
BY DEF Where

\* Both histories record the same, and a code becomes doubtful for a reason
\* that the store allows.
LEMMA TrackStep == ASSUME RefinementInv, RefinementInv', HNext PROVE Store!Track
<1>1. \A c \in Codes : /\ Busy(c)' <=> Store!Busy(c)'
                       /\ Overlap(c)' => Store!Overlap(c)'
  BY WhereNext DEF Busy, Overlap, Store!Busy, Store!Overlap
<1>2. tainted' = suspect' \cup {c \in tainted : Busy(c)'} /\ suspect \subseteq tainted
  BY DEF HNext, RefinementInv, Fresh
<1>3. suspect' \subseteq Codes
  BY DEF RefinementInv, TypeInv, TypeOK
<1>4. ASSUME NEW c \in suspect' \ suspect PROVE Store!Doubt(c)
  <2>1. Busy(c)' /\ (Faults # {} \/ (db'[c] # db[c] /\ Overlap(c)'))
    BY SuspectStep DEF RefinementInv, TypeInv, HNext
  <2> QED
    BY <1>1, <1>3, <2>1 DEF Store!Doubt
<1>5. tainted' \subseteq tainted \cup {c \in Codes : Store!Doubt(c)}
  BY <1>2, <1>3, <1>4
<1> QED
  BY <1>1, <1>5 DEF HNext, Store!Track

\* A handler that begins with a call and may be answered at once.
LEMMA CallStep ==
  ASSUME RefinementInv, RefinementInv', HNext,
         NEW p \in Procs, NEW c \in Codes, NEW l \in PCs, NEW v,
         pc[p] = "idle", l # "idle", code' = [code EXCEPT ![p] = c],
         Go(p, l, v), Store!Change(c)
  PROVE  Store!Call(p, c)
<1>1. \A q \in Procs : /\ pc'[q] = IF q = p THEN l ELSE pc[q]
                       /\ val'[q] = IF q = p THEN v ELSE val[q]
  BY DEF RefinementInv, TypeInv, TypeOK, Go
<1>2. Where[p] = "idle" /\ Answered[p] = Empty
  BY WhereIs DEF Answered
<1>3. CASE l = "reply"
  <2>1. Where' = [Where EXCEPT ![p] = "answered"]
    BY <1>1, <1>3 DEF Where
  <2>2. Answered' = [Answered EXCEPT ![p] = v]
    BY <1>1, <1>3 DEF Answered
  <2>3. code'[p] = c
    BY DEF RefinementInv, TypeInv, TypeOK
  <2>4. v \in Store!Answers(c)'
    BY <1>1, <1>3, <2>3, AnswerableNext DEF Answerable
  <2> QED
    BY <1>2, <2>1, <2>2, <2>4, TrackStep DEF Store!Call
<1>4. CASE l # "reply"
  <2>1. Where' = [Where EXCEPT ![p] = "asked"]
    BY <1>1, <1>4 DEF Where
  <2>2. Answered' = Answered
    BY <1>1, <1>4 DEF Answered
  <2> QED
    BY <1>2, <2>1, <2>2, TrackStep DEF Store!Call
<1> QED
  BY <1>3, <1>4

\* Handlers that are given their answer.
LEMMA AnswerStepOf ==
  ASSUME RefinementInv, RefinementInv', HNext,
         NEW S \in SUBSET Procs, NEW p \in S,
         \A q \in S : /\ pc[q] \notin {"idle", "reply"} /\ pc'[q] = "reply"
                      /\ code[q] = code[p] /\ val'[q] = val[p],
         \A q \in Procs \ S : pc'[q] = pc[q] /\ val'[q] = val[q],
         UNCHANGED <<db, once, code>>
  PROVE  Store!Next
<1>1. Where' = [q \in Procs |-> IF q \in S THEN "answered" ELSE Where[q]]
  BY DEF Where
<1>2. Answered' = [q \in Procs |-> IF q \in S THEN val[p] ELSE Answered[q]]
  BY DEF Answered
<1>3. code[p] \in Codes
  BY DEF RefinementInv, TypeInv, TypeOK
<1>4. PICK c \in Codes : c = code[p]
  BY <1>3
<1>5. val[p] \in Store!Answers(c)'
  BY <1>4, AnswerableNext DEF Answerable
<1>6. \A q \in S : Where[q] = "asked" /\ val[p] \in Store!Answers(code[q])'
  BY <1>4, <1>5, WhereIs DEF Store!Answers
<1>7. Store!Answer(S, val[p])
  BY <1>1, <1>2, <1>6, TrackStep DEF Store!Answer
<1> QED
  BY <1>5, <1>7 DEF Store!Next

\* A step that the store does not see.
LEMMA HiddenStep ==
  ASSUME RefinementInv, RefinementInv', HNext, UNCHANGED <<db, once, code>>,
         \A p \in Procs :
           pc'[p] = pc[p] \/ {pc[p], pc'[p]} \cap {"idle", "reply"} = {},
         \A p \in Procs : pc[p] = "reply" => val'[p] = val[p]
  PROVE  Store!Next
<1>1. UNCHANGED <<Where, Answered>>
  BY DEF Where, Answered
<1> QED
  BY <1>1, TrackStep DEF Store!Idle, Store!Next

\* Every step of the repository is a step of the store.
LEMMA StoreStep ==
  ASSUME RefinementInv, RefinementInv', HNext
  PROVE  Store!Next
<1>0. TypeOK /\ TypeInv /\ Next
  BY DEF RefinementInv, TypeInv, HNext
<1> USE <1>0
<1>1. ASSUME NEW p \in Procs, NEW c \in Codes,
             \/ GetByCode(p, c) \/ CreateConflict(p, c) \/ Delete(p, c)
             \/ DeleteMissing(p, c) \/ DeleteFails(p, c)
             \/ \E u \in Links : Create(p, c, u) \/ CreateFails(p, c, u)
      PROVE  Store!Next
  <2>1. /\ pc[p] = "idle" /\ code' = [code EXCEPT ![p] = c]
        /\ \E l \in PCs : \E v : l # "idle" /\ Go(p, l, v)
    BY <1>1 DEF GetByCode, CreateConflict, Delete, DeleteMissing, DeleteFails,
                Create, CreateFails, PCs
  <2>2. \/ UNCHANGED <<db, once>>
        \/ db[c] # NotFound /\ Commit(c, NotFound)
        \/ \E u \in Links : /\ db[c] = NotFound /\ Commit(c, u)
                             /\ \A d \in Codes : u \notin once[d]
    BY <1>1 DEF GetByCode, CreateConflict, Delete, DeleteMissing, DeleteFails,
                Create, CreateFails
  <2>3. Store!Change(c)
    BY <2>2 DEF Commit, Store!Change, Store!Put
  <2> QED
    BY <2>1, <2>3, CallStep DEF Store!Next
<1>2. ASSUME NEW p \in Procs, JoinFlight(p) \/ ReCheck(p) \/ Query(p)
      PROVE  Store!Next
  <2>1. /\ pc[p] \in {"enter", "recheck", "query"} /\ UNCHANGED <<db, once, code>>
        /\ \E l \in PCs \ {"idle", "reply"} : pc' = [pc EXCEPT ![p] = l]
        /\ \A q \in Procs : q # p => val'[q] = val[q]
    BY <1>2 DEF JoinFlight, ReCheck, Query, Go, PCs, TypeOK
  <2>2. \A q \in Procs :
          pc'[q] = pc[q] \/ {pc[q], pc'[q]} \cap {"idle", "reply"} = {}
    BY <2>1 DEF TypeOK
  <2> QED
    BY <2>1, <2>2, HiddenStep
<1>3. ASSUME NEW p \in Procs, RewriteCache(p) PROVE Store!Next
  <2>1. /\ pc[p] = "fill" /\ UNCHANGED <<db, once, code, val>>
        /\ pc' = [pc EXCEPT ![p] = "finish"]
    BY <1>3 DEF RewriteCache
  <2>2. \A q \in Procs :
          pc'[q] = pc[q] \/ {pc[q], pc'[q]} \cap {"idle", "reply"} = {}
    BY <2>1 DEF TypeOK
  <2> QED
    BY <2>1, <2>2, HiddenStep
<1>4. ASSUME NEW p \in Procs, EndFlight(p) PROVE Store!Next
  <2> DEFINE S == {p} \cup Waiters(p)
  <2>1. S \in SUBSET Procs /\ p \in S
    BY DEF Waiters
  <2>2. \A q \in S : /\ pc[q] \notin {"idle", "reply"} /\ pc'[q] = "reply"
                     /\ code[q] = code[p] /\ val'[q] = val[p]
    BY <1>4 DEF EndFlight, Waiters
  <2>3. \A q \in Procs \ S : pc'[q] = pc[q] /\ val'[q] = val[q]
    BY <1>4 DEF EndFlight
  <2>4. UNCHANGED <<db, once, code>>
    BY <1>4 DEF EndFlight
  <2> HIDE DEF S
  <2> QED
    BY <2>1, <2>2, <2>3, <2>4, AnswerStepOf
<1>5. ASSUME NEW p \in Procs, CreateCacheSet(p) \/ DeleteCacheDel(p)
      PROVE  Store!Next
  <2>1. /\ pc[p] \in {"set", "del"} /\ pc' = [pc EXCEPT ![p] = "reply"]
        /\ UNCHANGED <<db, once, code, val>>
    BY <1>5 DEF CreateCacheSet, DeleteCacheDel
  <2>2. \A q \in Procs : pc'[q] = IF q = p THEN "reply" ELSE pc[q]
    BY <2>1 DEF TypeOK
  <2> DEFINE S == {p}
  <2>3. S \in SUBSET Procs /\ p \in S
    OBVIOUS
  <2>4. \A q \in S : /\ pc[q] \notin {"idle", "reply"} /\ pc'[q] = "reply"
                     /\ code[q] = code[p] /\ val'[q] = val[p]
    BY <2>1, <2>2
  <2>5. \A q \in Procs \ S : pc'[q] = pc[q] /\ val'[q] = val[q]
    BY <2>1, <2>2
  <2> HIDE DEF S
  <2> QED
    BY <2>1, <2>3, <2>4, <2>5, AnswerStepOf
<1>6. ASSUME NEW p \in Procs, Reply(p) PROVE Store!Next
  <2>1. \A q \in Procs : /\ pc'[q] = IF q = p THEN "idle" ELSE pc[q]
                         /\ val'[q] = IF q = p THEN Empty ELSE val[q]
    BY <1>6 DEF Reply, Go, TypeOK
  <2>2. pc[p] = "reply" /\ code' = [code EXCEPT ![p] = AnyCode]
        /\ UNCHANGED <<db, once>>
    BY <1>6 DEF Reply
  <2>3. Where[p] = "answered" /\ Where' = [Where EXCEPT ![p] = "idle"]
    BY <2>1, <2>2 DEF Where
  <2>4. Answered' = [Answered EXCEPT ![p] = Empty]
    BY <2>1, <2>2 DEF Answered
  <2>5. Store!Return(p)
    BY <2>2, <2>3, <2>4, AnyCodeType, TrackStep DEF Store!Return
  <2> QED
    BY <2>5 DEF Store!Next
<1>7. ASSUME UNCHANGED <<db, once, code, pc, val>> PROVE Store!Next
  BY <1>7, HiddenStep
<1> QED
  BY <1>1, <1>2, <1>3, <1>4, <1>5, <1>6, <1>7 DEF Next, Step, Expire, Land

\* For any number of handlers, gateways and codes and any faults, the cached
\* repository behaves like a store without a cache: GetByCode, Create and
\* Delete change a row at most once, and what they return was the row at some
\* time since the code was last at rest, unless a race, a lost or late command
\* or an ambiguous statement has intervened.
THEOREM RepositoryImplementsStore == HSpec => ImplementsLinkStore
<1>1. HInit => Store!Init
  <2> SUFFICES ASSUME HInit PROVE Store!Init
    OBVIOUS
  <2>1. /\ Where = [p \in Procs |-> "idle"] /\ Answered = [p \in Procs |-> Empty]
        /\ code \in [Procs -> Codes]
    BY AnyCodeType DEF HInit, Init, Where, Answered
  <2> QED
    BY <2>1 DEF HInit, Init, Store!Init
<1>2. RefinementInv /\ RefinementInv' /\ [HNext]_hvars => [Store!Next]_(Store!vars)
  <2> SUFFICES ASSUME RefinementInv, RefinementInv', [HNext]_hvars
               PROVE  [Store!Next]_(Store!vars)
    OBVIOUS
  <2>1. CASE HNext
    BY <2>1, StoreStep
  <2>2. CASE UNCHANGED hvars
    BY <2>2 DEF hvars, vars, Store!vars, Where, Answered
  <2> QED
    BY <2>1, <2>2
<1>3. HSpec => []RefinementInv
  BY RefinementInit, RefinementStep, PTL DEF HSpec
<1> QED
  BY <1>1, <1>2, <1>3, PTL DEF HSpec, ImplementsLinkStore, Store!Spec

-----------------------------------------------------------------------------
\* Rows are changed while no other request for their code is under way.
WritesAlone == \A c \in Codes : db'[c] # db[c] => ~Overlap(c)'

\* What the comment on Delete says is true as long as the statements of Create
\* and Delete find no other request for their code under way, whatever starts
\* between a statement and its cache command: without faults, a row that
\* changes under a request is all that can leave a deleted link in the cache.
THEOREM DeleteInvalidatesAlone ==
  ASSUME Faults = {}
  PROVE  Spec /\ [][WritesAlone]_vars => []DeleteInvalidates
<1> DEFINE Inv == TypeInv /\ CoherenceInv /\ LateIsFault /\ suspect = {}
<1>1. Init => Inv
  BY TypeInit DEF Init, CoherenceInv, CoherentUnlessSuspect, LateIsFault
<1>2. Inv /\ [Next]_vars /\ [WritesAlone]_vars => Inv'
  <2> SUFFICES ASSUME Inv, [Next]_vars, [WritesAlone]_vars PROVE Inv'
    OBVIOUS
  <2>1. TypeInv' /\ CoherenceInv' /\ LateIsFault'
    BY TypeStep, CoherenceStep, LateStep
  <2>2. TypeOK /\ TypeOK'
    BY <2>1 DEF TypeInv
  <2>3. suspect' \subseteq Codes
    BY <2>2 DEF TypeOK
  <2>4. CASE UNCHANGED vars
    BY <2>1, <2>4 DEF vars
  <2>5. CASE Next /\ WritesAlone
    <3>1. ASSUME NEW c \in suspect' \ suspect PROVE FALSE
      <4>1. db'[c] # db[c] /\ Overlap(c)'
        BY <2>2, <2>5, <3>1, SuspectStep
      <4> QED
        BY <2>3, <2>5, <3>1, <4>1 DEF WritesAlone
    <3> QED
      BY <2>1, <3>1
  <2> QED
    BY <2>4, <2>5
<1>3. Inv => DeleteInvalidates
  <2> SUFFICES ASSUME Inv, Idle, NEW c \in Codes, db[c] = NotFound
               PROVE  redis[c] \notin Links
    BY DEF DeleteInvalidates
  <2>1. CoherentUnlessSuspect /\ c \notin suspect
    BY DEF CoherenceInv
  <2>2. redis[c] \in {NotFound, Empty}
    BY <2>1 DEF CoherentUnlessSuspect, Idle
  <2> QED
    BY <2>2, ValuesAssumption DEF Rows
<1> QED
  BY <1>1, <1>2, <1>3, PTL DEF Spec
=============================================================================
