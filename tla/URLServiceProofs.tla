-------------------------- MODULE URLServiceProofs --------------------------
(***************************************************************************)
(* The safety properties of URLService for any number of requests, URLs,   *)
(* codes, attempts and days, and any hash.                                 *)
(***************************************************************************)
EXTENDS URLService, WellFoundedInduction, SequenceTheorems, TLAPS

-----------------------------------------------------------------------------
\* Induction over the numbers, in the form of a least counterexample.

Smaller == {ss \in Nat \X Nat : ss[1] < ss[2]}

LEMMA LeastExists ==
  ASSUME NEW S \in SUBSET Nat, S # {}
  PROVE  \E n \in S : \A k \in Nat : k < n => k \notin S
<1>1. IsWellFoundedOn(Smaller, Nat)
  BY NatLessThanWellFounded, Zenon DEF OpToRel, Smaller
<1>2. PICK n \in S : \A k \in S : <<k, n>> \notin Smaller
  BY <1>1, WFMin
<1>3. \A k \in S : ~(k < n)
  BY <1>2 DEF Smaller
<1> QED
  BY <1>3

LEMMA Division ==
  ASSUME NEW n \in Nat
  PROVE  /\ n \div Base \in Nat /\ n % Base \in 0 .. Base - 1
         /\ n = Base * (n \div Base) + (n % Base)
         /\ n > 0 => n \div Base < n
         /\ n >= Base => n \div Base > 0
<1> DEFINE q == n \div Base
<1> USE ShortCodeAssumption
<1>1. q \in Nat /\ n % Base \in 0 .. Base - 1 /\ n = Base * q + (n % Base)
  <2>1. Base \in Nat \ {0}
    OBVIOUS
  <2> QED
    BY <2>1
<1> HIDE DEF q
<1>2. Base * q >= 2 * q
  <2>1. PICK b \in Nat : Base = b + 2
    <3>1. Base - 2 \in Nat /\ Base = (Base - 2) + 2
      OBVIOUS
    <3> QED
      BY <3>1
  <2>2. Base * q = b * q + 2 * q /\ b * q \in Nat
    BY <1>1, <2>1
  <2> QED
    BY <1>1, <2>2
<1>3. n > 0 => q < n
  <2>1. Base * q \in Nat
    BY <1>1
  <2> QED
    BY <1>1, <1>2, <2>1
<1>4. n >= Base => q > 0
  <2> SUFFICES ASSUME n >= Base, q = 0 PROVE FALSE
    BY <1>1
  <2>1. Base * q = 0
    OBVIOUS
  <2> QED
    BY <1>1, <2>1
<1> QED
  BY <1>1, <1>3, <1>4 DEF q

-----------------------------------------------------------------------------
\* The recursive definition of EncodeBase62 defines a function.

\* g satisfies the definition for the numbers up to n.
EncodesUpTo(g, n) ==
  \A k \in 0 .. n :
    g[k] = IF k < Base THEN <<k>> ELSE Append(g[k \div Base], k % Base)

LEMMA EncodesExists ==
  \A n \in Nat : \E g \in [0 .. n -> Seq(Digits)] : EncodesUpTo(g, n)
<1> DEFINE P(n) == \E g \in [0 .. n -> Seq(Digits)] : EncodesUpTo(g, n)
           S == {n \in Nat : ~P(n)}
<1> SUFFICES ASSUME S # {} PROVE FALSE
  OBVIOUS
<1>1. PICK n \in S : \A k \in Nat : k < n => k \notin S
  BY LeastExists
<1>2. n \in Nat /\ ~P(n)
  OBVIOUS
<1>3. CASE n = 0
  <2> DEFINE g == [k \in 0 .. 0 |-> <<k>>]
  <2>1. g \in [0 .. n -> Seq(Digits)]
    BY <1>3, ShortCodeAssumption DEF Digits
  <2>2. EncodesUpTo(g, n)
    BY <1>3, ShortCodeAssumption DEF EncodesUpTo
  <2> QED
    BY <1>2, <2>1, <2>2
<1>4. CASE n > 0
  <2>1. n - 1 \in Nat /\ n - 1 < n
    BY <1>2, <1>4
  <2>2. P(n - 1)
    BY <1>1, <2>1
  <2>3. PICK g \in [0 .. n - 1 -> Seq(Digits)] : EncodesUpTo(g, n - 1)
    BY <2>2
  <2> DEFINE last == IF n < Base THEN <<n>> ELSE Append(g[n \div Base], n % Base)
             h == [k \in 0 .. n |-> IF k = n THEN last ELSE g[k]]
  <2>4. n \div Base \in 0 .. n - 1 /\ n % Base \in Digits
    <3>1. n \div Base \in Nat /\ n \div Base < n /\ n % Base \in Digits
      BY <1>2, <1>4, Division, Zenon DEF Digits
    <3> QED
      BY <1>2, <3>1
  <2>5. last \in Seq(Digits)
    <3>1. CASE n < Base
      BY <1>2, <3>1, ShortCodeAssumption DEF Digits
    <3>2. CASE ~(n < Base)
      <4>1. g[n \div Base] \in Seq(Digits)
        BY <2>3, <2>4
      <4> QED
        BY <2>4, <3>2, <4>1
    <3> QED
      BY <3>1, <3>2
  <2>6. h \in [0 .. n -> Seq(Digits)]
    <3>1. \A k \in 0 .. n : k # n => k \in 0 .. n - 1
      BY <1>2
    <3> HIDE DEF last
    <3> QED
      BY <2>3, <2>5, <3>1
  <2>7. ASSUME NEW k \in 0 .. n
        PROVE  h[k] = IF k < Base THEN <<k>> ELSE Append(h[k \div Base], k % Base)
    <3> HIDE DEF last
    <3>1. CASE k = n
      <4>1. h[n] = last /\ h[n \div Base] = g[n \div Base]
        BY <1>2, <2>4
      <4> QED
        BY <3>1, <4>1 DEF last
    <3>2. CASE k # n
      <4>1. k \in 0 .. n - 1
        BY <1>2, <3>2
      <4>2. g[k] = IF k < Base THEN <<k>> ELSE Append(g[k \div Base], k % Base)
        BY <2>3, <4>1 DEF EncodesUpTo
      <4>3. h[k] = g[k]
        BY <3>2
      <4>4. ~(k < Base) => k \div Base \in 0 .. n /\ k \div Base # n
        <5> SUFFICES ASSUME ~(k < Base) PROVE k \div Base \in 0 .. n /\ k \div Base # n
          OBVIOUS
        <5>1. k \in Nat /\ k > 0
          BY <4>1, <1>2, ShortCodeAssumption
        <5>2. k \div Base \in Nat /\ k \div Base < k
          BY <5>1, Division, Zenon
        <5> QED
          BY <1>2, <4>1, <5>2
      <4>5. ~(k < Base) => h[k \div Base] = g[k \div Base]
        BY <4>4
      <4> HIDE DEF h
      <4> QED
        BY <4>2, <4>3, <4>5
    <3> QED
      BY <3>1, <3>2
  <2>8. EncodesUpTo(h, n)
    BY <2>7 DEF EncodesUpTo
  <2> QED
    BY <1>2, <2>6, <2>8
<1> QED
  BY <1>2, <1>3, <1>4

\* Two functions that satisfy it agree where both are defined.
LEMMA EncodesUnique ==
  ASSUME NEW m \in Nat, NEW n \in Nat, m <= n,
         NEW g, EncodesUpTo(g, m), NEW h, EncodesUpTo(h, n)
  PROVE  g[m] = h[m]
<1> DEFINE S == {k \in 0 .. m : g[k] # h[k]}
<1> SUFFICES ASSUME S # {} PROVE FALSE
  OBVIOUS
<1>1. PICK k \in S : \A j \in Nat : j < k => j \notin S
  <2>1. S \in SUBSET Nat
    OBVIOUS
  <2> QED
    BY <2>1, LeastExists
<1>2. k \in 0 .. m /\ k \in 0 .. n /\ g[k] # h[k]
  BY <1>1
<1>3. /\ g[k] = IF k < Base THEN <<k>> ELSE Append(g[k \div Base], k % Base)
      /\ h[k] = IF k < Base THEN <<k>> ELSE Append(h[k \div Base], k % Base)
  BY <1>2 DEF EncodesUpTo
<1>4. CASE k < Base
  BY <1>2, <1>3, <1>4
<1>5. CASE ~(k < Base)
  <2>1. k \div Base \in 0 .. m /\ k \div Base < k
    BY <1>2, <1>5, Division, ShortCodeAssumption
  <2>2. g[k \div Base] = h[k \div Base]
    BY <1>1, <2>1
  <2> QED
    BY <1>2, <1>3, <1>5, <2>2
<1> QED
  BY <1>4, <1>5

\* The equation of the definition.
LEMMA EncodeUnfolds ==
  /\ EncodeBase62 \in [Nat -> Seq(Digits)]
  /\ \A n \in Nat :
       EncodeBase62[n] = IF n < Base THEN <<n>>
                         ELSE Append(EncodeBase62[n \div Base], n % Base)
<1> DEFINE G(n) == CHOOSE g \in [0 .. n -> Seq(Digits)] : EncodesUpTo(g, n)
           F == [n \in Nat |-> G(n)[n]]
           Body(f) == [num \in Nat |-> IF num < Base THEN <<num>>
                                       ELSE Append(f[num \div Base], num % Base)]
<1>1. \A n \in Nat : G(n) \in [0 .. n -> Seq(Digits)] /\ EncodesUpTo(G(n), n)
  BY EncodesExists
<1> HIDE DEF G
<1>2. F \in [Nat -> Seq(Digits)]
  BY <1>1
<1>3. ASSUME NEW n \in Nat
      PROVE  F[n] = IF n < Base THEN <<n>> ELSE Append(F[n \div Base], n % Base)
  <2>1. G(n)[n] = IF n < Base THEN <<n>> ELSE Append(G(n)[n \div Base], n % Base)
    BY <1>1 DEF EncodesUpTo
  <2>2. ~(n < Base) => n \div Base \in Nat /\ n \div Base <= n
    BY Division, ShortCodeAssumption
  <2>3. ~(n < Base) => G(n \div Base)[n \div Base] = G(n)[n \div Base]
    BY <1>1, <2>2, EncodesUnique
  <2>4. ~(n < Base) => F[n \div Base] = G(n)[n \div Base]
    BY <2>2, <2>3
  <2>5. F[n] = G(n)[n]
    OBVIOUS
  <2> HIDE DEF F
  <2> QED
    BY <2>1, <2>4, <2>5
<1>4. F = Body(F)
  <2>1. \A n \in Nat : F[n] = Body(F)[n]
    BY <1>3
  <2>2. F = [n \in Nat |-> F[n]]
    OBVIOUS
  <2> QED
    BY <1>3
<1>5. EncodeBase62 = CHOOSE f : f = Body(f)
  BY DEF EncodeBase62
<1> HIDE DEF F
<1>6. EncodeBase62 = Body(EncodeBase62)
  <2> HIDE DEF Body
  <2> QED
    BY <1>4, <1>5
<1>7. \A n \in Nat :
        EncodeBase62[n] = IF n < Base THEN <<n>>
                          ELSE Append(EncodeBase62[n \div Base], n % Base)
  BY <1>6, Zenon
<1>8. \A n \in Nat : EncodeBase62[n] = F[n]
  <2>1. \A n \in Nat : EncodesUpTo(EncodeBase62, n)
    <3>1. \A n \in Nat : \A k \in 0 .. n : k \in Nat
      OBVIOUS
    <3> QED
      BY <1>7, <3>1, Zenon DEF EncodesUpTo
  <2>2. \A n \in Nat : EncodeBase62[n] = G(n)[n]
    BY <1>1, <2>1, EncodesUnique
  <2> QED
    BY <2>2 DEF F
<1>9. EncodeBase62 \in [Nat -> Seq(Digits)]
  <2>1. \A n \in Nat : EncodeBase62[n] \in Seq(Digits)
    BY <1>2, <1>8
  <2>2. EncodeBase62 = [n \in Nat |-> EncodeBase62[n]]
    <3>1. EncodeBase62 = [num \in Nat |-> IF num < Base THEN <<num>>
                            ELSE Append(EncodeBase62[num \div Base], num % Base)]
      BY <1>6
    <3> QED
      BY <1>7, <3>1
  <2> QED
    BY <2>1, <2>2
<1> QED
  BY <1>7, <1>9

-----------------------------------------------------------------------------
\* What the digits say.

\* There is a first digit, which is 0 only for the number 0, and a number of
\* at least Base has two digits or more.
LEMMA EncodeDigits ==
  ASSUME NEW n \in Nat
  PROVE  /\ Len(EncodeBase62[n]) > 0
         /\ n > 0 => EncodeBase62[n][1] # 0
         /\ n < Base <=> Len(EncodeBase62[n]) = 1
<1> DEFINE P(k) == /\ Len(EncodeBase62[k]) > 0
                   /\ k > 0 => EncodeBase62[k][1] # 0
                   /\ k < Base <=> Len(EncodeBase62[k]) = 1
           S == {k \in Nat : ~P(k)}
<1> SUFFICES ASSUME S # {} PROVE FALSE
  OBVIOUS
<1>1. PICK k \in S : \A j \in Nat : j < k => j \notin S
  <2>1. S \in SUBSET Nat
    OBVIOUS
  <2> QED
    BY <2>1, LeastExists
<1>2. k \in Nat /\ ~P(k)
  BY <1>1
<1>3. CASE k < Base
  <2>1. EncodeBase62[k] = <<k>>
    BY <1>2, <1>3, EncodeUnfolds
  <2>2. Len(<<k>>) = 1 /\ <<k>>[1] = k
    BY <1>2
  <2> QED
    BY <1>2, <1>3, <2>1, <2>2
<1>4. CASE ~(k < Base)
  <2> DEFINE q == k \div Base
             d == k % Base
             s == EncodeBase62[q]
  <2>1. EncodeBase62[k] = Append(s, d)
    BY <1>2, <1>4, EncodeUnfolds
  <2>2. k > 0 /\ k >= Base
    BY <1>2, <1>4, ShortCodeAssumption
  <2>3. q \in Nat /\ q < k /\ q > 0 /\ d \in Digits
    BY <1>2, <2>2, Division, Zenon DEF Digits
  <2>4. P(q)
    BY <1>1, <2>3
  <2>5. s \in Seq(Digits)
    BY <2>3, EncodeUnfolds
  <2> HIDE DEF s, q, d
  <2>6. Len(s) \in Nat /\ Len(s) > 0 /\ s[1] # 0
    BY <2>3, <2>4, <2>5 DEF s
  <2>7. Len(Append(s, d)) = Len(s) + 1 /\ Append(s, d)[1] = s[1]
    BY <2>3, <2>5, <2>6
  <2> QED
    BY <1>2, <1>4, <2>1, <2>6, <2>7
<1> QED
  BY <1>3, <1>4

\* The encoding of the hash loses nothing: different numbers have different
\* digits, so two candidates of a URL can only be the same when the hashes are
\* or when Generate cuts off the digits that tell them apart.
THEOREM EncodingIsInjective ==
  \A m, n \in Nat : EncodeBase62[m] = EncodeBase62[n] => m = n
<1> DEFINE S == {n \in Nat : \E m \in Nat : EncodeBase62[m] = EncodeBase62[n] /\ m # n}
<1> SUFFICES ASSUME S # {} PROVE FALSE
  OBVIOUS
<1>1. PICK n \in S : \A j \in Nat : j < n => j \notin S
  <2>1. S \in SUBSET Nat
    OBVIOUS
  <2> QED
    BY <2>1, LeastExists
<1>2. PICK m \in Nat : EncodeBase62[m] = EncodeBase62[n] /\ m # n
  BY <1>1
<1>3. n \in Nat
  BY <1>1
<1>4. n < Base <=> m < Base
  BY <1>2, <1>3, EncodeDigits
<1>5. CASE n < Base
  <2>1. EncodeBase62[n] = <<n>> /\ EncodeBase62[m] = <<m>>
    BY <1>2, <1>3, <1>4, <1>5, EncodeUnfolds
  <2>2. <<n>>[1] = n /\ <<m>>[1] = m
    OBVIOUS
  <2> QED
    BY <1>2, <2>1, <2>2
<1>6. CASE ~(n < Base)
  <2> DEFINE p == EncodeBase62[m \div Base]
             q == EncodeBase62[n \div Base]
  <2>1. EncodeBase62[n] = Append(q, n % Base) /\ EncodeBase62[m] = Append(p, m % Base)
    BY <1>2, <1>3, <1>4, <1>6, EncodeUnfolds
  <2>2. /\ n \div Base \in Nat /\ m \div Base \in Nat
        /\ n % Base \in Digits /\ m % Base \in Digits
    BY <1>2, <1>3, Division, Zenon DEF Digits
  <2>3. q \in Seq(Digits) /\ p \in Seq(Digits)
    BY <2>2, EncodeUnfolds
  <2>4. p = q /\ m % Base = n % Base
    <3> HIDE DEF p, q
    <3> DEFINE a == m % Base
               b == n % Base
    <3>1. Append(p, a) = Append(q, b) /\ a \in Digits /\ b \in Digits
      BY <1>2, <2>1, <2>2
    <3> HIDE DEF a, b
    <3>2. p = q /\ a = b
      BY <2>3, <3>1, AppendProperties
    <3> QED
      BY <3>2 DEF a, b
  <2>5. n > 0
    BY <1>3, <1>6, ShortCodeAssumption
  <2>6. n \div Base < n
    BY <1>3, <2>5, Division, Zenon
  <2>7. m \div Base = n \div Base
    BY <1>1, <2>2, <2>4, <2>6
  <2>8. /\ n = Base * (n \div Base) + (n % Base)
        /\ m = Base * (m \div Base) + (m % Base)
    BY <1>2, <1>3, Division, Zenon
  <2>9. m = n
    BY <2>4, <2>7, <2>8, Zenon
  <2> QED
    BY <1>2, <2>9
<1> QED
  BY <1>5, <1>6

\* A code that Generate returns has CodeLength digits, and the first is not 0.
LEMMA GenerateSound ==
  ASSUME NEW url, NEW n, HashURL(Canonicalize(url, n)) \in Nat,
         GenerateErr(url, n) = "nil"
  PROVE  Generate(url, n) \in GeneratedCodes
<1> DEFINE h == HashURL(Canonicalize(url, n))
           s == EncodeBase62[h]
<1>1. Generate(url, n) = SubSeq(s, 1, CodeLength) /\ ~(Len(s) < CodeLength)
  BY DEF GenerateErr, Generate, Encoded
<1>2. s \in Seq(Digits)
  BY EncodeUnfolds
<1>3. h < Base <=> Len(s) = 1
  BY EncodeDigits
<1>4. h > 0 => s[1] # 0
  BY EncodeDigits
<1> HIDE DEF s, h
<1>5. CodeLength \in Nat /\ Base \in Nat /\ Base > 1 /\ Len(s) \in Nat /\ CodeLength <= Len(s)
  BY <1>1, <1>2, ShortCodeAssumption
<1>6. /\ SubSeq(s, 1, CodeLength) \in [1 .. CodeLength -> Digits]
      /\ CodeLength > 1 => SubSeq(s, 1, CodeLength)[1] = s[1]
  <2>1. SubSeq(s, 1, CodeLength) = [i \in 1 .. CodeLength |-> s[i]]
    <3>1. SubSeq(s, 1, CodeLength) \in Seq(Digits) /\ Len(SubSeq(s, 1, CodeLength)) = CodeLength
      BY <1>2, <1>5
    <3>2. \A i \in 1 .. CodeLength : SubSeq(s, 1, CodeLength)[i] = s[i]
      BY <1>2, <1>5
    <3> QED
      BY <3>1, <3>2
  <2>2. \A i \in 1 .. CodeLength : s[i] \in Digits
    BY <1>2, <1>5
  <2>3. CodeLength > 1 => 1 \in 1 .. CodeLength
    BY <1>5
  <2> DEFINE c == SubSeq(s, 1, CodeLength)
  <2>4. c = [i \in 1 .. CodeLength |-> s[i]]
    BY <2>1
  <2> HIDE DEF c
  <2>5. c \in [1 .. CodeLength -> Digits]
    BY <2>2, <2>4
  <2>6. CodeLength > 1 => c[1] = s[1]
    BY <2>3, <2>4
  <2> QED
    BY <2>5, <2>6 DEF c
<1>7. CodeLength > 1 => s[1] # 0
  <2>1. h \in Nat
    BY DEF h
  <2> SUFFICES ASSUME CodeLength > 1 PROVE s[1] # 0
    OBVIOUS
  <2>2. Len(s) # 1
    <3> SUFFICES ASSUME Len(s) = 1 PROVE FALSE
      OBVIOUS
    <3>1. CodeLength <= 1
      BY <1>5
    <3> QED
      BY <1>5, <3>1
  <2>3. h > 0
    BY <1>3, <1>5, <2>1, <2>2
  <2> QED
    BY <1>4, <2>3
<1> QED
  BY <1>1, <1>6, <1>7 DEF GeneratedCodes

\* The number of the attempt tells the canonical URLs of the attempts apart,
\* unless the URL has a fragment: then it is cut off with the fragment, and
\* every attempt hashes the same.
THEOREM AttemptsDiffer ==
  \A url \in URLs, m, n \in Nat :
    Canonicalize(url, m) = Canonicalize(url, n) <=> url.fragment \/ m = n
<1> SUFFICES ASSUME NEW url \in URLs, NEW m \in Nat, NEW n \in Nat
             PROVE  Canonicalize(url, m) = Canonicalize(url, n) <=> url.fragment \/ m = n
  OBVIOUS
<1>1. url.fragment \in BOOLEAN
  BY DEF URLs
<1>2. CASE url.fragment
  <2>1. LastPart(url) = "fragment"
    BY <1>2 DEF LastPart
  <2> QED
    BY <1>2, <2>1 DEF Canonicalize
<1>3. CASE ~url.fragment
  <2> DEFINE last == LastPart(url)
  <2>1. last # "fragment"
    BY <1>3 DEF LastPart
  <2> HIDE DEF last
  <2>2. /\ Canonicalize(url, m).number = <<last, m>>
        /\ Canonicalize(url, n).number = <<last, n>>
    BY <2>1 DEF Canonicalize, last
  <2>3. <<last, m>> = <<last, n>> => m = n
    OBVIOUS
  <2>4. Canonicalize(url, m) = Canonicalize(url, n) => m = n
    BY <2>2, <2>3
  <2> QED
    BY <1>3, <2>4
<1> QED
  BY <1>1, <1>2, <1>3

-----------------------------------------------------------------------------
\* The service.

\* What is known of a request's own state: it is answered once, the row it is
\* about to insert is its own, and it names a code where it needs one.
OwnState ==
  \A r \in Reqs :
    /\ status[r] # 0 => pc[r] = "done"
    /\ pc[r] = "insert" => row[r] \in Rows /\ row[r].by = r
    /\ pc[r] \in {"fetch", "delete"} => code[r] \in Codes
    /\ pc[r] = "check" => row[r] \in Rows
    /\ Created(r) => row[r] \in Rows /\ code[r] \in Codes

\* A row of a request is in the table only after the request was answered
\* with 201, or with 500 after an error of the database, and under one code.
InsertedLast ==
  \A r \in Reqs, c \in Codes, v \in Rows :
    v \in once[c] /\ v.by = r =>
      /\ pc[r] = "done"
      /\ status[r] = 201 \/ (status[r] = 500 /\ r \in faulted)
      /\ \A d \in Codes, w \in Rows : w \in once[d] /\ w.by = r => d = c

IInv == TypeOK /\ OwnState /\ InsertedLast /\ CreatedStays

-----------------------------------------------------------------------------
\* The handlers' switches yield status codes that report an error.
LEMMA StatusRange ==
  ASSUME NEW err
  PROVE  /\ CreateStatus(err) \in Statuses \ {0, 200, 201, 204, 301}
         /\ ReadStatus(err) \in Statuses \ {0, 200, 201, 204, 301}
         /\ DeleteStatus(err) \in Statuses \ {0, 200, 201, 204, 301}
         /\ CreateStatus("other") = 500
BY DEF CreateStatus, ReadStatus, DeleteStatus, Statuses

\* A code that Generate returns for an attempt at a URL is one of Codes.
LEMMA GenerateIsCode ==
  \A url \in LongURLs, n \in 0 .. Retries - 1 :
    GenerateErr(url, n) = "nil" => Generate(url, n) \in Codes
BY GenerateSound, URLServiceAssumption

\* The code that an attempt tries is one of Codes.
LEMMA CandidateIsCode ==
  ASSUME NEW r \in Reqs, TypeOK, row[r] \in Rows, MoreAttempts(r),
         GenerateErr(row[r].url, attempt[r]) = "nil"
  PROVE  Generate(row[r].url, attempt[r]) \in Codes
<1>1. row[r].url \in LongURLs
  BY DEF Rows
<1>2. attempt[r] \in 0 .. Retries - 1
  BY URLServiceAssumption DEF TypeOK, MoreAttempts
<1>3. QED
  BY <1>1, <1>2, GenerateIsCode

\* What a round of the loop does, with the candidate named.
LEMMA AttemptCases ==
  ASSUME NEW r \in Reqs, TypeOK, OwnState, Attempt(r)
  PROVE  /\ pc[r] = "insert" /\ row[r] \in Rows /\ attempt[r] < Retries
         /\ UNCHANGED <<time, op, row, gone>>
         /\ \/ \E s \in {400, 500} :
                 Answer(r, s) /\ UNCHANGED <<table, code, attempt, faulted>>
            \/ \E c \in Codes :
                 /\ InsertRow(r, c) /\ Answer(r, 201)
                 /\ code' = [code EXCEPT ![r] = c]
                 /\ UNCHANGED attempt
            \/ UNCHANGED <<table, faulted>> /\ NextAttempt(r)
            \/ \E c \in Codes :
                 InsertFails(r, c) /\ Answer(r, 500) /\ UNCHANGED <<code, attempt>>
<1> DEFINE candidate == Generate(row[r].url, attempt[r])
           err == GenerateErr(row[r].url, attempt[r])
<1> HIDE DEF candidate, err
<1>1. pc[r] = "insert" /\ row[r] \in Rows /\ attempt[r] < Retries
  BY DEF Attempt, OwnState, MoreAttempts
<1>2. err = "nil" => candidate \in Codes
  BY <1>1, CandidateIsCode DEF Attempt, candidate, err
<1>3. /\ UNCHANGED <<time, op, row, gone>>
      /\ \/ /\ Answer(r, CreateStatus(err))
            /\ UNCHANGED <<table, code, attempt, faulted>>
         \/ /\ err = "nil" /\ InsertRow(r, candidate)
            /\ Answer(r, 201)
            /\ code' = [code EXCEPT ![r] = candidate]
            /\ UNCHANGED attempt
         \/ Conflict(candidate) /\ NextAttempt(r)
         \/ err = "nil" /\ InsertFails(r, candidate) /\ AttemptFails(r)
  BY DEF Attempt, candidate, err
<1>4. err # "ErrCodeExists" => CreateStatus(err) \in {400, 500}
  BY DEF CreateStatus
<1>5. err # "ErrCodeExists"
  BY DEF err, GenerateErr
<1>6. QED
  BY <1>1, <1>2, <1>3, <1>4, <1>5, StatusRange DEF Conflict, AttemptFails

\* Every step preserves the types, given what is known of the requests.
LEMMA TypeStep == TypeOK /\ OwnState /\ [Next]_vars => TypeOK'
<1> SUFFICES ASSUME TypeOK, OwnState, [Next]_vars PROVE TypeOK'
  OBVIOUS
<1>1. CASE UNCHANGED vars
  BY <1>1 DEF vars, TypeOK
<1>2. CASE NextDay
  BY <1>2, URLServiceAssumption DEF NextDay, TypeOK, table
<1>3. ASSUME NEW r \in Reqs, CreateShortURL(r) \/ InvalidBody(r) PROVE TypeOK'
  <2>1. CASE InvalidBody(r)
    BY <2>1 DEF InvalidBody, Answer, Statuses, TypeOK, table
  <2>2. CASE CreateShortURL(r)
    <3> DEFINE NewRow(url, days) ==
                 [by |-> r, url |-> url,
                  expires |-> IF days > 0 THEN time + days ELSE Never]
    <3>1. PICK url \in LongURLs, alias \in Aliases \cup {NoAlias}, days \in ExpiresIn :
            /\ row' = [row EXCEPT ![r] = NewRow(url, days)]
            /\ code' = [code EXCEPT ![r] = alias]
      BY <2>2 DEF CreateShortURL
    <3>2. time + days \in Nat
      BY URLServiceAssumption DEF TypeOK
    <3>3. NewRow(url, days) \in Rows
      BY <3>2 DEF Rows
    <3>4. alias \in Codes \cup {NoAlias}
      BY URLServiceAssumption
    <3> HIDE DEF NewRow
    <3>5. QED
      BY <2>2, <3>1, <3>3, <3>4 DEF CreateShortURL, TypeOK, table
  <2>3. QED
    BY <1>3, <2>1, <2>2
<1>4. ASSUME NEW r \in Reqs, CreateAlias(r) PROVE TypeOK'
  BY <1>4, StatusRange, URLServiceAssumption DEF CreateAlias, Answer, Statuses,
     InsertRow, InsertFails, Conflict, Put, OwnState, TypeOK, table
<1>5. ASSUME NEW r \in Reqs, Attempt(r) PROVE TypeOK'
  <2>1. row[r] \in Rows /\ attempt[r] < Retries /\ UNCHANGED <<time, op, row, gone>>
    BY <1>5, AttemptCases
  <2>2. CASE \E s \in {400, 500} :
               Answer(r, s) /\ UNCHANGED <<table, code, attempt, faulted>>
    BY <2>1, <2>2 DEF Answer, Statuses, TypeOK, table
  <2>3. CASE \E c \in Codes :
               /\ InsertRow(r, c) /\ Answer(r, 201)
               /\ code' = [code EXCEPT ![r] = c]
               /\ UNCHANGED attempt
    BY <2>1, <2>3 DEF Answer, Statuses, InsertRow, Put, TypeOK
  <2>4. CASE UNCHANGED <<table, faulted>> /\ NextAttempt(r)
    BY <2>1, <2>4, URLServiceAssumption DEF NextAttempt, TypeOK, table
  <2>5. CASE \E c \in Codes :
               InsertFails(r, c) /\ Answer(r, 500) /\ UNCHANGED <<code, attempt>>
    BY <2>1, <2>5 DEF InsertFails, Answer, Statuses, Put, TypeOK, table
  <2>6. QED
    BY <1>5, <2>2, <2>3, <2>4, <2>5, AttemptCases
<1>6. ASSUME NEW r \in Reqs, GiveUp(r) PROVE TypeOK'
  BY <1>6, StatusRange DEF GiveUp, Answer, TypeOK, table
<1>7. ASSUME NEW r \in Reqs, GetURL(r) \/ Redirect(r) \/ DeleteURL(r) PROVE TypeOK'
  BY <1>7 DEF GetURL, Redirect, DeleteURL, Ask, TypeOK, table
<1>8. ASSUME NEW r \in Reqs, GetByCode(r) PROVE TypeOK'
  BY <1>8, StatusRange DEF GetByCode, Answer, OwnState, TypeOK, table
<1>9. ASSUME NEW r \in Reqs, Validate(r) PROVE TypeOK'
  BY <1>9, StatusRange DEF Validate, Served, Answer, Statuses, OwnState, TypeOK, table
<1>10. ASSUME NEW r \in Reqs, Delete(r) PROVE TypeOK'
  BY <1>10, StatusRange DEF Delete, DeleteMissing, Answer, Statuses, RemoveRow, Put,
     OwnState, TypeOK, table
<1>11. QED
  BY <1>1, <1>2, <1>3, <1>4, <1>5, <1>6, <1>7, <1>8, <1>9, <1>10 DEF Next

\* Every step preserves what is known of a request's own state.
LEMMA OwnStateStep == TypeOK /\ OwnState /\ [Next]_vars => OwnState'
<1> SUFFICES ASSUME TypeOK, OwnState, [Next]_vars PROVE OwnState'
  OBVIOUS
<1>1. CASE UNCHANGED vars
  BY <1>1 DEF vars, OwnState, Created
<1>2. CASE NextDay
  BY <1>2 DEF NextDay, OwnState, Created
<1>3. ASSUME NEW r \in Reqs, CreateShortURL(r) \/ InvalidBody(r) PROVE OwnState'
  BY <1>3, URLServiceAssumption DEF CreateShortURL, InvalidBody, Answer, OwnState,
     Created, TypeOK, Rows
<1>4. ASSUME NEW r \in Reqs, CreateAlias(r) PROVE OwnState'
  BY <1>4, StatusRange DEF CreateAlias, Answer, OwnState, Created, TypeOK
<1>5. ASSUME NEW r \in Reqs, Attempt(r) PROVE OwnState'
  <2>1. pc[r] = "insert" /\ row[r] \in Rows /\ UNCHANGED <<op, row>>
    BY <1>5, AttemptCases
  <2>2. \/ \E s \in {400, 500} : Answer(r, s) /\ UNCHANGED code
        \/ \E c \in Codes : Answer(r, 201) /\ code' = [code EXCEPT ![r] = c]
        \/ UNCHANGED <<pc, code, status>>
    BY <1>5, AttemptCases DEF NextAttempt
  <2>3. QED
    BY <2>1, <2>2 DEF Answer, OwnState, Created, TypeOK
<1>6. ASSUME NEW r \in Reqs, GiveUp(r) PROVE OwnState'
  BY <1>6, StatusRange DEF GiveUp, Answer, OwnState, Created, TypeOK
<1>7. ASSUME NEW r \in Reqs, GetURL(r) \/ Redirect(r) \/ DeleteURL(r) PROVE OwnState'
  BY <1>7 DEF GetURL, Redirect, DeleteURL, Ask, OwnState, Created, TypeOK
<1>8. ASSUME NEW r \in Reqs, GetByCode(r) PROVE OwnState'
  BY <1>8, StatusRange DEF GetByCode, Answer, OwnState, Created, TypeOK
<1>9. ASSUME NEW r \in Reqs, Validate(r) PROVE OwnState'
  BY <1>9, StatusRange DEF Validate, Served, Answer, OwnState, Created, TypeOK
<1>10. ASSUME NEW r \in Reqs, Delete(r) PROVE OwnState'
  BY <1>10, StatusRange DEF Delete, DeleteMissing, Answer, OwnState, Created, TypeOK
<1>11. QED
  BY <1>1, <1>2, <1>3, <1>4, <1>5, <1>6, <1>7, <1>8, <1>9, <1>10 DEF Next

-----------------------------------------------------------------------------
\* The effects that a step can have on the table and on answered requests.

DoneStays ==
  /\ faulted \subseteq faulted'
  /\ \A s \in Reqs : pc[s] = "done" =>
       /\ pc'[s] = "done" /\ op'[s] = op[s] /\ status'[s] = status[s]
       /\ code'[s] = code[s] /\ row'[s] = row[s]

NoneCreated(R) == \A s \in R : pc[s] # "done" => ~Created(s)'

Inserts(r, c) ==
  /\ pc[r] = "insert" /\ rows[c] = None
  /\ Put(c, row[r]) /\ UNCHANGED <<deleted, row>>
  /\ pc'[r] = "done"
  /\ \/ status'[r] = 201 /\ code'[r] = c
     \/ status'[r] = 500 /\ r \in faulted'
  /\ NoneCreated(Reqs \ {r})

Effect ==
  \/ UNCHANGED table /\ NoneCreated(Reqs)
  \/ \E r \in Reqs, c \in Codes : Inserts(r, c)
  \/ \E c \in Codes : RemoveRow(c) /\ NoneCreated(Reqs)

\* A step leaves answered requests alone and has one of the effects.
LEMMA StepEffect == TypeOK /\ OwnState /\ [Next]_vars => DoneStays /\ Effect
<1> SUFFICES ASSUME TypeOK, OwnState, [Next]_vars PROVE DoneStays /\ Effect
  OBVIOUS
<1> USE DEF DoneStays, NoneCreated, Created, OwnState, TypeOK
<1>1. CASE UNCHANGED vars
  BY <1>1 DEF vars, Effect, table
<1>2. CASE NextDay
  BY <1>2 DEF NextDay, Effect, table
<1>3. ASSUME NEW r \in Reqs, CreateShortURL(r) \/ InvalidBody(r) PROVE DoneStays /\ Effect
  BY <1>3 DEF CreateShortURL, InvalidBody, Answer, Effect
<1>4. ASSUME NEW r \in Reqs, CreateAlias(r) PROVE DoneStays /\ Effect
  <2>0. code[r] \in Codes
    BY <1>4 DEF CreateAlias
  <2> PICK c \in Codes : c = code[r]
    BY <2>0
  <2>1. pc[r] = "insert" /\ code[r] = c /\ UNCHANGED <<op, code, row>>
    BY <1>4 DEF CreateAlias
  <2>2. CASE InsertRow(r, c) /\ Answer(r, 201)
    <3>1. Inserts(r, c)
      BY <2>1, <2>2 DEF InsertRow, Answer, Inserts
    <3>2. QED
      BY <2>1, <2>2, <3>1 DEF InsertRow, Answer, Effect
  <2>3. CASE Conflict(c) /\ Answer(r, CreateStatus("ErrCodeExists"))
    BY <2>1, <2>3, StatusRange DEF Conflict, Answer, Effect
  <2>4. CASE InsertFails(r, c) /\ Answer(r, CreateStatus("other"))
    <3>1. DoneStays /\ NoneCreated(Reqs)
      BY <2>1, <2>4, StatusRange DEF InsertFails, Answer
    <3>2. CASE UNCHANGED table
      BY <3>1, <3>2 DEF Effect
    <3>3. CASE rows[c] = None /\ Put(c, row[r]) /\ UNCHANGED deleted
      <4>1. Inserts(r, c)
        BY <2>1, <2>4, <3>1, <3>3, StatusRange DEF InsertFails, Answer, Inserts
      <4>2. QED
        BY <2>1, <3>1, <4>1 DEF Effect
    <3>4. QED
      BY <2>4, <3>2, <3>3 DEF InsertFails
  <2>5. QED
    BY <1>4, <2>1, <2>2, <2>3, <2>4 DEF CreateAlias
<1>5. ASSUME NEW r \in Reqs, Attempt(r) PROVE DoneStays /\ Effect
  <2>1. pc[r] = "insert" /\ row[r] \in Rows /\ UNCHANGED <<op, row>>
    BY <1>5, AttemptCases
  <2>2. CASE \E s \in {400, 500} :
               Answer(r, s) /\ UNCHANGED <<table, code, attempt, faulted>>
    BY <2>1, <2>2 DEF Answer, Effect
  <2>3. ASSUME NEW c \in Codes, InsertRow(r, c), Answer(r, 201),
               code' = [code EXCEPT ![r] = c]
        PROVE  DoneStays /\ Effect
    <3>1. Inserts(r, c)
      BY <2>1, <2>3 DEF InsertRow, Answer, Inserts
    <3>2. QED
      BY <2>1, <2>3, <3>1 DEF InsertRow, Answer, Effect
  <2>4. CASE UNCHANGED <<table, faulted>> /\ NextAttempt(r)
    BY <2>1, <2>4 DEF NextAttempt, Effect
  <2>5. ASSUME NEW c \in Codes, InsertFails(r, c), Answer(r, 500), UNCHANGED code
        PROVE  DoneStays /\ Effect
    <3>1. DoneStays /\ NoneCreated(Reqs)
      BY <2>1, <2>5 DEF InsertFails, Answer
    <3>2. CASE UNCHANGED table
      BY <3>1, <3>2 DEF Effect
    <3>3. CASE rows[c] = None /\ Put(c, row[r]) /\ UNCHANGED deleted
      <4>1. Inserts(r, c)
        BY <2>1, <2>5, <3>1, <3>3 DEF InsertFails, Answer, Inserts
      <4>2. QED
        BY <3>1, <4>1 DEF Effect
    <3>4. QED
      BY <2>5, <3>2, <3>3 DEF InsertFails
  <2>6. QED
    BY <1>5, <2>2, <2>3, <2>4, <2>5, AttemptCases
<1>6. ASSUME NEW r \in Reqs, GiveUp(r) PROVE DoneStays /\ Effect
  BY <1>6, StatusRange DEF GiveUp, Answer, Effect
<1>7. ASSUME NEW r \in Reqs, GetURL(r) \/ Redirect(r) \/ DeleteURL(r)
      PROVE  DoneStays /\ Effect
  BY <1>7 DEF GetURL, Redirect, DeleteURL, Ask, Effect
<1>8. ASSUME NEW r \in Reqs, GetByCode(r) PROVE DoneStays /\ Effect
  BY <1>8, StatusRange DEF GetByCode, Answer, Effect
<1>9. ASSUME NEW r \in Reqs, Validate(r) PROVE DoneStays /\ Effect
  BY <1>9, StatusRange DEF Validate, Served, Answer, Effect
<1>10. ASSUME NEW r \in Reqs, Delete(r) PROVE DoneStays /\ Effect
  BY <1>10, StatusRange DEF Delete, DeleteMissing, Answer, Effect
<1>11. QED
  BY <1>1, <1>2, <1>3, <1>4, <1>5, <1>6, <1>7, <1>8, <1>9, <1>10 DEF Next

-----------------------------------------------------------------------------
\* A link that was created is not replaced.
LEMMA CreatedStep ==
  TypeOK /\ OwnState /\ CreatedStays /\ [Next]_vars => CreatedStays'
<1> SUFFICES ASSUME TypeOK, OwnState, CreatedStays, [Next]_vars,
                    NEW s \in Reqs, Created(s)'
             PROVE  (rows[code[s]] = row[s] \/ <<code[s], row[s]>> \in deleted)'
  BY DEF CreatedStays
<1>1. DoneStays /\ Effect
  BY StepEffect
<1>2. ASSUME pc[s] = "done"
      PROVE  /\ code'[s] = code[s] /\ row'[s] = row[s]
             /\ code[s] \in Codes /\ row[s] \in Rows
             /\ rows[code[s]] = row[s] \/ <<code[s], row[s]>> \in deleted
  BY <1>1, <1>2 DEF DoneStays, Created, OwnState, CreatedStays
<1>3. CASE UNCHANGED table /\ NoneCreated(Reqs)
  BY <1>2, <1>3 DEF NoneCreated, table
<1>4. ASSUME NEW r \in Reqs, NEW c \in Codes, Inserts(r, c)
      PROVE  (rows[code[s]] = row[s] \/ <<code[s], row[s]>> \in deleted)'
  <2>1. CASE pc[s] = "done"
    <3>1. rows[code[s]] = row[s] => code[s] # c
      BY <1>2, <1>4, <2>1, URLServiceAssumption DEF Inserts
    <3>2. QED
      BY <1>2, <1>4, <2>1, <3>1 DEF Inserts, Put, TypeOK
  <2>2. CASE pc[s] # "done"
    <3>1. s = r
      BY <1>4, <2>2 DEF Inserts, NoneCreated
    <3>2. code'[s] = c /\ row'[s] = row[r]
      BY <1>4, <3>1 DEF Inserts, Created
    <3>3. rows'[c] = row[r]
      BY <1>4 DEF Inserts, Put, TypeOK
    <3>4. QED
      BY <3>2, <3>3
  <2>3. QED
    BY <2>1, <2>2
<1>5. ASSUME NEW c \in Codes, RemoveRow(c), NoneCreated(Reqs)
      PROVE  (rows[code[s]] = row[s] \/ <<code[s], row[s]>> \in deleted)'
  <2>1. pc[s] = "done"
    BY <1>5 DEF NoneCreated
  <2>2. CASE code[s] = c
    BY <1>2, <1>5, <2>1, <2>2 DEF RemoveRow, Put, TypeOK
  <2>3. CASE code[s] # c
    BY <1>2, <1>5, <2>1, <2>3 DEF RemoveRow, Put, TypeOK
  <2>4. QED
    BY <2>2, <2>3
<1>6. QED
  BY <1>1, <1>3, <1>4, <1>5 DEF Effect

\* A request inserts its row in its last step.
LEMMA InsertedStep ==
  TypeOK /\ OwnState /\ InsertedLast /\ [Next]_vars => InsertedLast'
<1> SUFFICES ASSUME TypeOK, OwnState, InsertedLast, [Next]_vars
             PROVE  InsertedLast'
  OBVIOUS
<1>1. DoneStays /\ Effect
  BY StepEffect
<1>2. ASSUME \A c \in Codes, v \in Rows : v \in once'[c] <=> v \in once[c]
      PROVE  InsertedLast'
  BY <1>1, <1>2 DEF DoneStays, InsertedLast
<1>3. CASE UNCHANGED table
  BY <1>2, <1>3 DEF table
<1>4. ASSUME NEW r \in Reqs, NEW c \in Codes, Inserts(r, c) PROVE InsertedLast'
  <2>1. row[r] \in Rows /\ row[r].by = r
    BY <1>4 DEF Inserts, OwnState
  <2>2. \A d \in Codes, w \in Rows :
          w \in once'[d] <=> w \in once[d] \/ (d = c /\ w = row[r])
    BY <1>4 DEF Inserts, Put, TypeOK
  <2>3. \A d \in Codes, w \in Rows : ~(w \in once[d] /\ w.by = r)
    BY <1>4 DEF Inserts, InsertedLast
  <2>4. pc'[r] = "done" /\ (status'[r] = 201 \/ (status'[r] = 500 /\ r \in faulted'))
    BY <1>4 DEF Inserts
  <2>5. SUFFICES ASSUME NEW s \in Reqs, NEW d \in Codes, NEW v \in Rows,
                        v \in once'[d], v.by = s
                 PROVE  /\ pc'[s] = "done"
                        /\ status'[s] = 201 \/ (status'[s] = 500 /\ s \in faulted')
                        /\ \A e \in Codes, w \in Rows :
                             w \in once'[e] /\ w.by = s => e = d
    BY DEF InsertedLast
  <2>6. CASE s = r
    BY <2>1, <2>2, <2>3, <2>4, <2>5, <2>6
  <2>7. CASE s # r
    BY <1>1, <2>1, <2>2, <2>5, <2>7 DEF DoneStays, InsertedLast
  <2>8. QED
    BY <2>6, <2>7
<1>5. ASSUME NEW c \in Codes, RemoveRow(c) PROVE InsertedLast'
  BY <1>2, <1>5, URLServiceAssumption DEF RemoveRow, Put, TypeOK
<1>6. QED
  BY <1>1, <1>3, <1>4, <1>5 DEF Effect

-----------------------------------------------------------------------------
\* The initial state.
LEMMA InitIInv == Init => IInv
<1> SUFFICES ASSUME Init PROVE IInv
  OBVIOUS
<1>1. TypeOK
  BY URLServiceAssumption DEF Init, TypeOK, Statuses
<1>2. OwnState /\ CreatedStays
  BY DEF Init, OwnState, CreatedStays, Created
<1>3. InsertedLast
  BY URLServiceAssumption DEF Init, InsertedLast
<1>4. QED
  BY <1>1, <1>2, <1>3 DEF IInv

\* The invariant is inductive.
LEMMA Inductive == Spec => []IInv
<1>1. IInv /\ [Next]_vars => IInv'
  BY TypeStep, OwnStateStep, InsertedStep, CreatedStep DEF IInv
<1>2. QED
  BY <1>1, InitIInv, PTL DEF Spec

\* The state of the requests and the table stays well typed; in particular a
\* candidate is only tried while attempts are left.
THEOREM ServiceTypeCorrect == Spec => []TypeOK
<1>1. IInv => TypeOK
  BY DEF IInv
<1>2. QED
  BY <1>1, Inductive, PTL

\* A link answered with 201 stays until it is deleted, for any number of
\* concurrent creators and deleters.
THEOREM LinksStay == Spec => []CreatedStays
<1>1. IInv => CreatedStays
  BY DEF IInv
<1>2. QED
  BY <1>1, Inductive, PTL

\* A create request leaves at most one row, and none when it is refused,
\* for any number of attempts and any collisions of the hash.
THEOREM NoSecondRow == Spec => []OneRowPerRequest
<1>1. IInv => OneRowPerRequest
  <2> SUFFICES ASSUME IInv, NEW r \in Reqs
               PROVE  LET inserted == {c \in Codes : \E v \in once[c] \ {None} : v.by = r}
                      IN  /\ \A c, d \in inserted : c = d
                          /\ status[r] \in {400, 409} => inserted = {}
                          /\ status[r] = 500 /\ r \notin faulted => inserted = {}
    BY DEF OneRowPerRequest
  <2> DEFINE inserted == {c \in Codes : \E v \in once[c] \ {None} : v.by = r}
  <2>1. \A c \in Codes : \A v \in once[c] \ {None} : v \in Rows
    BY DEF IInv, TypeOK
  <2>2. \A c \in inserted :
          /\ status[r] = 201 \/ (status[r] = 500 /\ r \in faulted)
          /\ \A d \in inserted : d = c
    BY <2>1 DEF IInv, InsertedLast
  <2>3. QED
    BY <2>2
<1>2. QED
  BY <1>1, Inductive, PTL

-----------------------------------------------------------------------------
\* The time of expiry of a row that a request was told has expired is past.
GoneExpired == \A v \in gone : v.expires # Never /\ v.expires < time

\* Time does not go back, and only Validate adds to gone.
LEMMA GoneStep == TypeOK /\ OwnState /\ GoneExpired /\ [Next]_vars => GoneExpired'
<1> SUFFICES ASSUME TypeOK, OwnState, GoneExpired, [Next]_vars PROVE GoneExpired'
  OBVIOUS
<1>1. CASE UNCHANGED <<time, gone>>
  BY <1>1 DEF GoneExpired
<1>2. CASE NextDay
  <2>1. \A v \in gone : v.expires # Never => v.expires \in Nat
    BY DEF TypeOK, Rows
  <2>2. time \in Nat /\ time' = time + 1 /\ gone' = gone
    BY <1>2, URLServiceAssumption DEF NextDay, TypeOK
  <2>3. QED
    BY <2>1, <2>2 DEF GoneExpired
<1>3. ASSUME NEW r \in Reqs, Validate(r) PROVE GoneExpired'
  BY <1>3 DEF Validate, Expired, GoneExpired
<1>4. QED
  BY <1>1, <1>2, <1>3 DEF Next, vars, CreateShortURL, InvalidBody, CreateAlias, Attempt,
     GiveUp, GetURL, Redirect, DeleteURL, Ask, GetByCode, Delete

\* A step that answers a read with a link answers with one that is not in gone.
LEMMA ServeStep ==
  ASSUME TypeOK, OwnState, GoneExpired, [Next]_vars,
         NEW s \in Reqs, status[s] = 0, status'[s] \in {200, 301}
  PROVE  row'[s] \notin gone
<1>1. ASSUME UNCHANGED status PROVE FALSE
  BY <1>1
<1>2. ASSUME NEW r \in Reqs, NEW e \in Statuses \ {200, 301}, Answer(r, e)
      PROVE  FALSE
  BY <1>2 DEF Answer, TypeOK
<1>3. ASSUME NEW r \in Reqs, Validate(r) PROVE row'[s] \notin gone
  <2>1. CASE Expired(r)
    BY <1>2, <1>3, <2>1, StatusRange DEF Validate
  <2>2. CASE ~Expired(r)
    <3>1. s = r /\ row' = row
      BY <1>3, <2>2 DEF Validate, Served, Answer, TypeOK
    <3>2. QED
      BY <2>2, <3>1 DEF Expired, GoneExpired
  <2>3. QED
    BY <2>1, <2>2
<1>4. ASSUME NEW r \in Reqs, CreateShortURL(r) \/ InvalidBody(r) PROVE FALSE
  BY <1>1, <1>2, <1>4 DEF CreateShortURL, InvalidBody, Statuses
<1>5. ASSUME NEW r \in Reqs, CreateAlias(r) PROVE FALSE
  BY <1>2, <1>5, StatusRange DEF CreateAlias, Statuses
<1>6. ASSUME NEW r \in Reqs, Attempt(r) PROVE FALSE
  <2>1. (\E e \in {201, 400, 500} : Answer(r, e)) \/ UNCHANGED status
    BY <1>6, AttemptCases DEF NextAttempt
  <2>2. QED
    BY <1>1, <1>2, <2>1 DEF Statuses
<1>7. ASSUME NEW r \in Reqs, GiveUp(r) PROVE FALSE
  BY <1>2, <1>7, StatusRange DEF GiveUp
<1>8. ASSUME NEW r \in Reqs, GetByCode(r) PROVE FALSE
  BY <1>1, <1>2, <1>8, StatusRange DEF GetByCode
<1>9. ASSUME NEW r \in Reqs, Delete(r) PROVE FALSE
  BY <1>2, <1>9, StatusRange DEF Delete, DeleteMissing, Statuses
<1>10. CASE NextDay \/ UNCHANGED vars
  BY <1>1, <1>10 DEF NextDay, vars
<1>11. ASSUME NEW r \in Reqs, GetURL(r) \/ Redirect(r) \/ DeleteURL(r)
       PROVE  FALSE
  BY <1>1, <1>11 DEF GetURL, Redirect, DeleteURL, Ask
<1>12. QED
  BY <1>3, <1>4, <1>5, <1>6, <1>7, <1>8, <1>9, <1>10, <1>11 DEF Next

\* A link that a request was told has expired is never served again.
THEOREM ExpiryIsFinal == Spec => GoneStaysGone
<1>1. Init => GoneExpired
  BY DEF Init, GoneExpired
<1>2. IInv /\ GoneExpired /\ [Next]_vars => GoneExpired'
  BY GoneStep DEF IInv
<1>3. IInv /\ GoneExpired /\ [Next]_vars =>
        [\A r \in Reqs :
           status[r] = 0 /\ status'[r] \in {200, 301} => row'[r] \notin gone]_vars
  BY ServeStep DEF IInv
<1>4. QED
  BY <1>1, <1>2, <1>3, Inductive, PTL DEF Spec, GoneStaysGone

-----------------------------------------------------------------------------
\* Table and history agree: a row that is there has not been deleted, and one
\* that was deleted was there.
TableInv ==
  \A c \in Codes :
    /\ rows[c] \in once[c]
    /\ rows[c] # None => <<c, rows[c]>> \notin deleted
    /\ \A v \in Rows : <<c, v>> \in deleted => v \in once[c]

\* An INSERT brings in a row that was never there, because it is its request's
\* only one.
LEMMA TableStep ==
  TypeOK /\ OwnState /\ InsertedLast /\ TableInv /\ [Next]_vars => TableInv'
<1> SUFFICES ASSUME TypeOK, OwnState, InsertedLast, TableInv, [Next]_vars,
                    NEW d \in Codes
             PROVE  /\ rows'[d] \in once'[d]
                    /\ rows'[d] # None => <<d, rows'[d]>> \notin deleted'
                    /\ \A v \in Rows : <<d, v>> \in deleted' => v \in once'[d]
  BY DEF TableInv
<1> DEFINE Goal == /\ rows'[d] \in once'[d]
                   /\ rows'[d] # None => <<d, rows'[d]>> \notin deleted'
                   /\ \A v \in Rows : <<d, v>> \in deleted' => v \in once'[d]
<1>1. Effect
  BY StepEffect
<1>2. CASE UNCHANGED table
  BY <1>2 DEF TableInv, table
<1>3. ASSUME NEW r \in Reqs, NEW c \in Codes, Inserts(r, c) PROVE Goal
  <2>1. row[r] \in Rows /\ row[r].by = r /\ pc[r] # "done"
    BY <1>3 DEF Inserts, OwnState
  <2>2. row[r] \notin once[c]
    BY <2>1 DEF InsertedLast
  <2>3. /\ rows' = [rows EXCEPT ![c] = row[r]]
        /\ once' = [once EXCEPT ![c] = @ \cup {row[r]}]
        /\ deleted' = deleted
    BY <1>3 DEF Inserts, Put
  <2>4. CASE d = c
    BY <2>1, <2>2, <2>3, <2>4 DEF TableInv, TypeOK
  <2>5. CASE d # c
    BY <2>3, <2>5 DEF TableInv, TypeOK
  <2>6. QED
    BY <2>4, <2>5
<1>4. ASSUME NEW c \in Codes, RemoveRow(c) PROVE Goal
  <2>1. /\ rows' = [rows EXCEPT ![c] = None]
        /\ once' = [once EXCEPT ![c] = @ \cup {None}]
        /\ deleted' = deleted \cup {<<c, rows[c]>>}
    BY <1>4 DEF RemoveRow, Put
  <2>2. CASE d = c
    BY <2>1, <2>2 DEF TableInv, TypeOK
  <2>3. CASE d # c
    BY <2>1, <2>3 DEF TableInv, TypeOK
  <2>4. QED
    BY <2>2, <2>3
<1>5. QED
  BY <1>1, <1>2, <1>3, <1>4 DEF Effect

\* Only a DELETE that has removed a row is answered with 204.
LEMMA DeleteEffect ==
  ASSUME TypeOK, OwnState, [Next]_vars
  PROVE  \/ \A s \in Reqs : status'[s] = 204 => pc[s] = "done"
         \/ \E r \in Reqs :
              /\ code[r] \in Codes /\ RemoveRow(code[r]) /\ UNCHANGED code
              /\ pc[r] # "done"
              /\ \A s \in Reqs : status'[s] = 204 => pc[s] = "done" \/ s = r
<1> DEFINE Goal ==
         \/ \A s \in Reqs : status'[s] = 204 => pc[s] = "done"
         \/ \E r \in Reqs :
              /\ code[r] \in Codes /\ RemoveRow(code[r]) /\ UNCHANGED code
              /\ pc[r] # "done"
              /\ \A s \in Reqs : status'[s] = 204 => pc[s] = "done" \/ s = r
<1>1. \A s \in Reqs : status[s] = 204 => pc[s] = "done"
  BY DEF OwnState
<1>2. ASSUME UNCHANGED status PROVE Goal
  BY <1>1, <1>2
<1>3. ASSUME NEW r \in Reqs, NEW e \in Statuses \ {204}, Answer(r, e) PROVE Goal
  BY <1>1, <1>3 DEF Answer, TypeOK
<1>4. ASSUME NEW r \in Reqs, Delete(r) PROVE Goal
  <2>1. CASE DeleteMissing(r)
    BY <1>3, <2>1, StatusRange DEF DeleteMissing
  <2>2. CASE Answer(r, DeleteStatus("other"))
    BY <1>3, <2>2, StatusRange
  <2>3. CASE RemoveRow(code[r]) /\ Answer(r, 204)
    <3>1. code[r] \in Codes /\ UNCHANGED code /\ pc[r] # "done"
      BY <1>4 DEF Delete, OwnState
    <3>2. \A s \in Reqs : status'[s] = 204 => pc[s] = "done" \/ s = r
      BY <1>1, <2>3 DEF Answer, TypeOK
    <3>3. QED
      BY <2>3, <3>1, <3>2
  <2>4. QED
    BY <1>4, <2>1, <2>2, <2>3 DEF Delete
<1>5. ASSUME NEW r \in Reqs, InvalidBody(r) \/ CreateShortURL(r) PROVE Goal
  BY <1>2, <1>3, <1>5 DEF InvalidBody, CreateShortURL, Statuses
<1>6. ASSUME NEW r \in Reqs, CreateAlias(r) PROVE Goal
  BY <1>3, <1>6, StatusRange DEF CreateAlias, Statuses
<1>7. ASSUME NEW r \in Reqs, Attempt(r) PROVE Goal
  <2>1. (\E e \in {201, 400, 500} : Answer(r, e)) \/ UNCHANGED status
    BY <1>7, AttemptCases DEF NextAttempt
  <2>2. QED
    BY <1>2, <1>3, <2>1 DEF Statuses
<1>8. ASSUME NEW r \in Reqs, GiveUp(r) PROVE Goal
  BY <1>3, <1>8, StatusRange DEF GiveUp
<1>9. ASSUME NEW r \in Reqs, GetByCode(r) PROVE Goal
  BY <1>2, <1>3, <1>9, StatusRange DEF GetByCode
<1>10. ASSUME NEW r \in Reqs, Validate(r) PROVE Goal
  BY <1>3, <1>10, StatusRange DEF Validate, Served, Statuses
<1>11. CASE NextDay \/ UNCHANGED vars
  BY <1>2, <1>11 DEF NextDay, vars
<1>12. ASSUME NEW r \in Reqs, GetURL(r) \/ Redirect(r) \/ DeleteURL(r) PROVE Goal
  BY <1>2, <1>12 DEF GetURL, Redirect, DeleteURL, Ask
<1>13. QED
  BY <1>4, <1>5, <1>6, <1>7, <1>8, <1>9, <1>10, <1>11, <1>12 DEF Next

\* Every element of S can be given an element of T of its own.
Injects(S, T) == \E f \in [S -> T] : \A r, s \in S : f[r] = f[s] => r = s

AnsweredDeletes(c) ==
  {r \in Reqs : op[r] = "delete" /\ code[r] = c /\ status[r] = 204}

Removed(c) == {x \in deleted : x[1] = c}

\* DeletesCounted in these terms.
LEMMA CountedMeans ==
  DeletesCounted <=> \A c \in Codes : Injects(AnsweredDeletes(c), Removed(c))
BY Zenon DEF DeletesCounted, Injects, AnsweredDeletes, Removed

\* An injection can be extended by one pair, and into a larger set.
LEMMA InjectsMore ==
  ASSUME NEW S, NEW T, NEW U, NEW V, Injects(S, T), T \subseteq U, S \subseteq V,
         \/ V \subseteq S
         \/ \E r \in V \ S, x \in U \ T : V \subseteq S \cup {r}
  PROVE  Injects(V, U)
<1>1. PICK f \in [S -> T] : \A r, s \in S : f[r] = f[s] => r = s
  BY DEF Injects
<1>2. CASE V \subseteq S
  <2>1. V = S
    BY <1>2
  <2>2. f \in [S -> U]
    BY <1>1
  <2>3. Injects(S, U)
    BY <1>1, <2>2 DEF Injects
  <2>4. QED
    BY <2>1, <2>3
<1>3. ASSUME NEW r \in V \ S, NEW x \in U \ T, V \subseteq S \cup {r}
      PROVE  Injects(V, U)
  <2> DEFINE g == [s \in V |-> IF s = r THEN x ELSE f[s]]
  <2>1. g \in [V -> U]
    BY <1>1, <1>3
  <2>2. ASSUME NEW s \in V, NEW t \in V, g[s] = g[t] PROVE s = t
    BY <1>1, <1>3, <2>2
  <2> HIDE DEF g
  <2>3. QED
    BY <2>1, <2>2 DEF Injects
<1>4. QED
  BY <1>2, <1>3

\* A row that is removed has not been counted yet, so the answer it leads to
\* can be given to it.
LEMMA DeletesCountedStep ==
  TypeOK /\ OwnState /\ TableInv /\ DeletesCounted /\ [Next]_vars => DeletesCounted'
<1> SUFFICES ASSUME TypeOK, OwnState, TableInv, DeletesCounted, [Next]_vars,
                    NEW c \in Codes
             PROVE  Injects(AnsweredDeletes(c)', Removed(c)')
  BY CountedMeans DEF DeletesCounted, Injects, AnsweredDeletes, Removed
<1>1. DoneStays /\ Effect
  BY StepEffect
<1>2. Removed(c) \subseteq Removed(c)'
  BY <1>1 DEF Effect, Inserts, RemoveRow, table, Removed
<1>3. Injects(AnsweredDeletes(c), Removed(c))
  BY CountedMeans
<1>4. \A s \in Reqs : pc[s] = "done" =>
        (s \in AnsweredDeletes(c)' <=> s \in AnsweredDeletes(c))
  BY <1>1 DEF DoneStays, AnsweredDeletes
<1>5. \A s \in AnsweredDeletes(c) : s \in Reqs /\ pc[s] = "done"
  BY DEF OwnState, AnsweredDeletes
<1>6. AnsweredDeletes(c) \subseteq AnsweredDeletes(c)'
  BY <1>4, <1>5
<1>7. \A s \in AnsweredDeletes(c)' : s \in Reqs /\ status'[s] = 204 /\ code'[s] = c
  BY DEF AnsweredDeletes
<1>8. CASE AnsweredDeletes(c)' \subseteq AnsweredDeletes(c)
  BY <1>2, <1>3, <1>6, <1>8, InjectsMore
<1>9. CASE \A s \in Reqs : status'[s] = 204 => pc[s] = "done"
  BY <1>4, <1>7, <1>8, <1>9
<1>10. ASSUME NEW r \in Reqs, code[r] \in Codes, RemoveRow(code[r]), UNCHANGED code,
              pc[r] # "done",
              \A s \in Reqs : status'[s] = 204 => pc[s] = "done" \/ s = r
       PROVE  Injects(AnsweredDeletes(c)', Removed(c)')
  <2>1. AnsweredDeletes(c)' \subseteq AnsweredDeletes(c) \cup {r}
    BY <1>4, <1>7, <1>10
  <2>2. CASE r \notin AnsweredDeletes(c)'
    BY <1>8, <2>1, <2>2
  <2>3. CASE r \in AnsweredDeletes(c)'
    <3>1. code[r] = c
      BY <1>7, <1>10, <2>3
    <3>2. <<c, rows[c]>> \in Removed(c)' \ Removed(c)
      BY <1>10, <3>1 DEF RemoveRow, TableInv, Removed
    <3>3. r \in AnsweredDeletes(c)' \ AnsweredDeletes(c)
      BY <1>5, <1>10, <2>3
    <3>4. QED
      BY <1>2, <1>3, <1>6, <2>1, <3>2, <3>3, InjectsMore
  <2>4. QED
    BY <2>2, <2>3
<1>11. QED
  BY <1>9, <1>10, DeleteEffect

\* Two requests are never both told that they deleted the same row, for any
\* number of concurrent deletes and of creates in between.
THEOREM NoRowDeletedTwice == Spec => []DeletesCounted
<1>1. Init => TableInv /\ DeletesCounted
  <2> SUFFICES ASSUME Init PROVE TableInv /\ DeletesCounted
    OBVIOUS
  <2>1. TableInv
    BY DEF Init, TableInv
  <2>2. \A c \in Codes : AnsweredDeletes(c) = {}
    BY DEF Init, AnsweredDeletes
  <2>3. \A S : Injects({}, S)
    <3> TAKE S
    <3>1. [r \in {} |-> r] \in [{} -> S]
      OBVIOUS
    <3>2. QED
      BY <3>1 DEF Injects
  <2>4. DeletesCounted
    BY <2>2, <2>3, CountedMeans
  <2>5. QED
    BY <2>1, <2>4
<1>2. IInv /\ TableInv /\ DeletesCounted /\ [Next]_vars => (TableInv /\ DeletesCounted)'
  BY TableStep, DeletesCountedStep DEF IInv
<1>3. QED
  BY <1>1, <1>2, Inductive, PTL DEF Spec

-----------------------------------------------------------------------------
\* The n-th candidate of r has had a row of another request.
Taken(r, n) ==
  /\ GenerateErr(row[r].url, n) = "nil"
  /\ \E v \in once[Generate(row[r].url, n)] \ {None} : v.by # r

\* r has given up because all candidates were taken.
AllTaken(r) ==
  op[r] = "create" /\ code[r] = NoAlias /\ status[r] = 500 /\ r \notin faulted
  /\ (\A n \in 0 .. Retries - 1 : GenerateErr(row[r].url, n) = "nil")
    => row[r] \in Rows /\ \A n \in 0 .. Retries - 1 : Taken(r, n)

\* Every candidate that a request has passed over was taken.
TriedInv ==
  \A r \in Reqs :
    /\ pc[r] = "new" => attempt[r] = 0
    /\ pc[r] = "insert" /\ code[r] = NoAlias =>
         \A n \in 0 .. Retries - 1 : n < attempt[r] => Taken(r, n)
    /\ pc[r] = "done" => AllTaken(r)

\* What was taken stays so: rows are only added to the history.
LEMMA TakenStays ==
  ASSUME TypeOK, OwnState, [Next]_vars, NEW s \in Reqs, row[s] \in Rows,
         row'[s] = row[s], NEW n \in 0 .. Retries - 1, Taken(s, n)
  PROVE  Taken(s, n)'
<1> DEFINE c == Generate(row[s].url, n)
<1>0. row[s].url \in LongURLs /\ GenerateErr(row[s].url, n) = "nil"
  BY DEF Taken, Rows
<1>1. c \in Codes
  BY <1>0, GenerateIsCode
<1> HIDE DEF c
<1>2. once[c] \subseteq once'[c]
  <2>1. Effect
    BY StepEffect
  <2>2. \/ UNCHANGED once
        \/ \E d \in Codes : \E v : once' = [once EXCEPT ![d] = once[d] \cup {v}]
    <3>1. ASSUME NEW r \in Reqs, NEW d \in Codes, Inserts(r, d)
          PROVE  once' = [once EXCEPT ![d] = once[d] \cup {row[r]}]
      BY <3>1 DEF Inserts, Put
    <3>2. ASSUME NEW d \in Codes, RemoveRow(d)
          PROVE  once' = [once EXCEPT ![d] = once[d] \cup {None}]
      BY <3>2 DEF RemoveRow, Put
    <3>3. QED
      BY <2>1, <3>1, <3>2 DEF Effect, table
  <2>3. QED
    BY <1>1, <2>2 DEF TypeOK
<1>3. \E v \in once[c] \ {None} : v.by # s
  BY DEF Taken, c
<1>4. \E v \in once'[c] \ {None} : v.by # s
  BY <1>2, <1>3
<1>5. QED
  BY <1>4 DEF Taken, c

\* A conflict is one with a row of another request: a request that has a row of
\* its own in the table makes no attempt any more.
LEMMA ConflictTaken ==
  ASSUME TypeOK, OwnState, InsertedLast, TableInv, NEW r \in Reqs, pc[r] = "insert",
         NEW c \in Codes, rows[c] # None
  PROVE  \E v \in once[c] \ {None} : v.by # r
<1>1. rows[c] \in Rows /\ rows[c] \in once[c]
  BY DEF TypeOK, TableInv
<1>2. rows[c].by # r
  BY <1>1 DEF InsertedLast
<1>3. QED
  BY <1>1, <1>2

\* The own step of a request in its loop.
LEMMA AttemptTried ==
  ASSUME TypeOK, OwnState, InsertedLast, TableInv, TriedInv, [Next]_vars,
         NEW r \in Reqs, Attempt(r)
  PROVE  /\ pc'[r] \in {"insert", "done"}
         /\ pc'[r] = "insert" =>
              \A n \in 0 .. Retries - 1 : n < attempt'[r] => Taken(r, n)'
         /\ pc'[r] = "done" => AllTaken(r)'
<1> DEFINE url == row[r].url
           err == GenerateErr(url, attempt[r])
           candidate == Generate(url, attempt[r])
<1>1. /\ pc[r] = "insert" /\ code[r] = NoAlias /\ row[r] \in Rows
      /\ row' = row /\ attempt[r] \in 0 .. Retries - 1
  BY URLServiceAssumption DEF Attempt, OwnState, MoreAttempts, TypeOK
<1>2. \A n \in 0 .. Retries - 1 : n < attempt[r] => Taken(r, n)'
  BY <1>1, TakenStays DEF TriedInv
<1>3. CASE err # "nil" /\ Answer(r, CreateStatus(err))
  BY <1>1, <1>3 DEF Answer, TypeOK, AllTaken
<1>4. CASE InsertRow(r, candidate) /\ Answer(r, 201)
  BY <1>4 DEF Answer, TypeOK, AllTaken
<1>5. CASE err = "nil" /\ InsertFails(r, candidate) /\ AttemptFails(r)
  BY <1>5 DEF InsertFails, AttemptFails, Answer, TypeOK, AllTaken
<1>6. CASE err = "nil" /\ Conflict(candidate) /\ NextAttempt(r)
  <2>1. candidate \in Codes
    BY <1>1, <1>6, CandidateIsCode DEF Attempt
  <2>2. \E v \in once[candidate] \ {None} : v.by # r
    BY <1>1, <1>6, <2>1, ConflictTaken DEF Conflict
  <2>3. Taken(r, attempt[r])
    BY <1>6, <2>2 DEF Taken
  <2>4. \A n \in 0 .. Retries - 1 : n = attempt[r] => Taken(r, n)'
    BY <1>1, <2>3, TakenStays
  <2>5. attempt'[r] = attempt[r] + 1 /\ pc'[r] = "insert"
    BY <1>1, <1>6 DEF NextAttempt, TypeOK
  <2>6. \A n \in 0 .. Retries - 1 : n < attempt'[r] => n < attempt[r] \/ n = attempt[r]
    BY <1>1, <2>5
  <2>7. QED
    BY <1>2, <2>4, <2>5, <2>6
<1>7. QED
  BY <1>3, <1>4, <1>5, <1>6 DEF Attempt

\* Every step preserves what is known of the candidates.
LEMMA TriedStep ==
  TypeOK /\ OwnState /\ InsertedLast /\ TableInv /\ TriedInv /\ [Next]_vars
    => TriedInv'
<1> SUFFICES ASSUME TypeOK, OwnState, InsertedLast, TableInv, TriedInv, [Next]_vars,
                    NEW s \in Reqs
             PROVE  /\ pc'[s] = "new" => attempt'[s] = 0
                    /\ pc'[s] = "insert" /\ code'[s] = NoAlias =>
                         \A n \in 0 .. Retries - 1 : n < attempt'[s] => Taken(s, n)'
                    /\ pc'[s] = "done" => AllTaken(s)'
  BY DEF TriedInv
<1> DEFINE Goal == /\ pc'[s] = "new" => attempt'[s] = 0
                   /\ pc'[s] = "insert" /\ code'[s] = NoAlias =>
                        \A n \in 0 .. Retries - 1 : n < attempt'[s] => Taken(s, n)'
                   /\ pc'[s] = "done" => AllTaken(s)'
\* Another request than the one whose step it is, or one that is answered.
<1>1. ASSUME pc'[s] = pc[s], op'[s] = op[s], code'[s] = code[s], row'[s] = row[s],
             attempt'[s] = attempt[s], status'[s] = status[s],
             s \in faulted' <=> s \in faulted
      PROVE  Goal
  <2>1. CASE pc[s] = "insert"
    <3>1. row[s] \in Rows
      BY <2>1 DEF OwnState
    <3>2. QED
      BY <1>1, <2>1, <3>1, TakenStays DEF TriedInv
  <2>2. CASE pc[s] = "done"
    <3>1. AllTaken(s)
      BY <2>2 DEF TriedInv
    <3>2. QED
      BY <1>1, <2>2, <3>1, TakenStays DEF AllTaken
  <2>3. QED
    BY <1>1, <2>1, <2>2 DEF TriedInv
<1>2. CASE UNCHANGED vars \/ NextDay
  BY <1>1, <1>2 DEF vars, NextDay
<1>3. ASSUME NEW r \in Reqs, CreateShortURL(r) \/ InvalidBody(r) PROVE Goal
  <2>1. CASE s # r
    BY <1>1, <1>3, <2>1 DEF CreateShortURL, InvalidBody, Answer, TypeOK
  <2>2. CASE s = r /\ InvalidBody(r)
    BY <2>2 DEF InvalidBody, Answer, AllTaken, TypeOK
  <2>3. CASE s = r /\ CreateShortURL(r)
    <3>1. pc'[s] = "insert" /\ attempt'[s] = 0
      BY <2>3 DEF CreateShortURL, TriedInv, TypeOK
    <3>2. \A n \in 0 .. Retries - 1 : ~(n < attempt'[s])
      BY <3>1, URLServiceAssumption
    <3>3. QED
      BY <3>1, <3>2
  <2>4. QED
    BY <1>3, <2>1, <2>2, <2>3
<1>4. ASSUME NEW r \in Reqs, CreateAlias(r) PROVE Goal
  <2>1. CASE s # r
    BY <1>1, <1>4, <2>1, StatusRange DEF CreateAlias, InsertRow, Conflict, InsertFails,
       Answer, TypeOK
  <2>2. CASE s = r
    BY <1>4, <2>2 DEF CreateAlias, Answer, AllTaken, TypeOK
  <2>3. QED
    BY <2>1, <2>2
<1>5. ASSUME NEW r \in Reqs, Attempt(r) PROVE Goal
  <2>1. CASE s # r
    BY <1>1, <1>5, <2>1, AttemptCases DEF InsertRow, InsertFails, NextAttempt, Answer,
       TypeOK
  <2>2. CASE s = r
    BY <1>5, <2>2, AttemptTried
  <2>3. QED
    BY <2>1, <2>2
<1>6. ASSUME NEW r \in Reqs, GiveUp(r) PROVE Goal
  <2>1. CASE s # r
    BY <1>1, <1>6, <2>1 DEF GiveUp, Answer, TypeOK
  <2>2. CASE s = r
    <3>1. pc[s] = "insert" /\ code[s] = NoAlias /\ row' = row /\ row[s] \in Rows
      BY <1>6, <2>2 DEF GiveUp, OwnState
    <3>2. \A n \in 0 .. Retries - 1 : n < attempt[s]
      BY <1>6, <2>2, URLServiceAssumption DEF GiveUp, MoreAttempts, TypeOK
    <3>3. \A n \in 0 .. Retries - 1 : Taken(s, n)'
      BY <3>1, <3>2, TakenStays DEF TriedInv
    <3>4. pc'[s] = "done"
      BY <1>6, <2>2 DEF GiveUp, Answer, TypeOK
    <3>5. QED
      BY <3>1, <3>3, <3>4 DEF AllTaken
  <2>3. QED
    BY <2>1, <2>2
<1>7. ASSUME NEW r \in Reqs, GetURL(r) \/ Redirect(r) \/ DeleteURL(r) PROVE Goal
  <2>1. CASE s # r
    BY <1>1, <1>7, <2>1 DEF GetURL, Redirect, DeleteURL, Ask, TypeOK
  <2>2. CASE s = r
    BY <1>7, <2>2 DEF GetURL, Redirect, DeleteURL, Ask, TypeOK
  <2>3. QED
    BY <2>1, <2>2
<1>8. ASSUME NEW r \in Reqs, GetByCode(r) \/ Validate(r) \/ Delete(r) PROVE Goal
  <2>1. CASE s # r
    BY <1>1, <1>8, <2>1 DEF GetByCode, Validate, Delete, DeleteMissing, Answer, TypeOK
  <2>2. CASE s = r
    <3>1. CASE Validate(r)
      BY <2>2, <3>1 DEF Validate, ReadStatus, Served, Answer, AllTaken, TypeOK
    <3>2. CASE GetByCode(r) \/ Delete(r)
      <4>1. code[s] \in Codes
        BY <2>2, <3>2 DEF GetByCode, Delete, OwnState
      <4>2. QED
        BY <2>2, <3>2, <4>1, URLServiceAssumption DEF GetByCode, Delete,
           DeleteMissing, Answer, AllTaken, TypeOK
    <3>3. QED
      BY <1>8, <3>1, <3>2
  <2>3. QED
    BY <2>1, <2>2
<1>9. QED
  BY <1>2, <1>3, <1>4, <1>5, <1>6, <1>7, <1>8 DEF Next

LEMMA TriedAlways == Spec => [](IInv /\ TriedInv)
<1>1. Init => TableInv /\ TriedInv
  <2> SUFFICES ASSUME Init PROVE TableInv /\ TriedInv
    OBVIOUS
  <2>1. TableInv
    BY DEF Init, TableInv
  <2>2. TriedInv
    BY DEF Init, TriedInv
  <2>3. QED
    BY <2>1, <2>2
<1>2. IInv /\ TableInv /\ TriedInv /\ [Next]_vars => (TableInv /\ TriedInv)'
  BY TableStep, TriedStep DEF IInv
<1>3. QED
  BY <1>1, <1>2, Inductive, PTL DEF Spec

\* A request that used up its attempts met a row of another request under each
\* candidate, for any number of attempts, any hash and any race.
THEOREM GaveUpForGoodReason == Spec => []GivesUpOnlyWhenTaken
<1>1. IInv /\ TriedInv => GivesUpOnlyWhenTaken
  <2> SUFFICES ASSUME IInv, TriedInv, NEW r \in Reqs, status[r] = 500, AllTaken(r)
               PROVE  op[r] = "create" /\ code[r] = NoAlias /\ status[r] = 500
                      /\ r \notin faulted
                      /\ (\A n \in 0 .. Retries - 1 : GenerateErr(row[r].url, n) = "nil")
                        => \A n \in 0 .. Retries - 1 :
                             \E v \in once[Generate(row[r].url, n)] \ {None} : v.by # r
    BY DEF IInv, OwnState, TriedInv, GivesUpOnlyWhenTaken
  <2>1. QED
    BY DEF AllTaken, Taken
<1>2. QED
  BY <1>1, TriedAlways, PTL

\* No two of the canonical URLs that the attempts at a URL hash begin with the
\* same digits.
HashSpreads ==
  \A url \in LongURLs, m, n \in 0 .. Retries - 1 :
    Canonicalize(url, m) # Canonicalize(url, n) => Generate(url, m) # Generate(url, n)

\* What TestCreateShortURL_ServerCollisionRetry says of the retries is true of
\* URLs without a fragment: as long as the hash spreads, a request that gives up
\* has met as many taken codes as it has attempts.  A fragment is thus all that
\* stands in the way of the retries, whatever other requests do.
THEOREM RetriesWorkWithoutFragment ==
  ASSUME HashSpreads, \A url \in LongURLs : ~url.fragment
  PROVE  Spec => []RetryFindsAnother
<1>1. IInv /\ TriedInv => RetryFindsAnother
  <2> SUFFICES ASSUME IInv, TriedInv, NEW r \in Reqs, op[r] = "create", code[r] = NoAlias,
                      status[r] = 500, r \notin faulted,
                      \A n \in 0 .. Retries - 1 : GenerateErr(row[r].url, n) = "nil"
               PROVE  \E f \in [0 .. Retries - 1 -> {c \in Codes : once[c] # {None}}] :
                        \A m, n \in DOMAIN f : f[m] = f[n] => m = n
    BY DEF RetryFindsAnother
  <2>1. row[r] \in Rows /\ \A n \in 0 .. Retries - 1 : Taken(r, n)
    BY DEF IInv, OwnState, TriedInv, AllTaken
  <2> DEFINE url == row[r].url
             f == [n \in 0 .. Retries - 1 |-> Generate(url, n)]
  <2>2. url \in LongURLs /\ url \in URLs
    BY <2>1, URLServiceAssumption DEF Rows
  <2> HIDE DEF url
  <2>3. \A n \in 0 .. Retries - 1 : Generate(url, n) \in Codes
    <3>1. \A n \in 0 .. Retries - 1 : GenerateErr(url, n) = "nil"
      BY DEF url
    <3>2. QED
      BY <2>2, <3>1, GenerateIsCode
  <2>4. \A n \in 0 .. Retries - 1 : once[Generate(url, n)] # {None}
    BY <2>1 DEF Taken, url
  <2>5. \A m, n \in 0 .. Retries - 1 : Generate(url, m) = Generate(url, n) => m = n
    <3> SUFFICES ASSUME NEW m \in 0 .. Retries - 1, NEW n \in 0 .. Retries - 1, m # n
                 PROVE  Generate(url, m) # Generate(url, n)
      OBVIOUS
    <3>1. m \in Nat /\ n \in Nat
      BY URLServiceAssumption
    <3>2. ~url.fragment
      BY <2>2
    <3>3. Canonicalize(url, m) # Canonicalize(url, n)
      BY <2>2, <3>1, <3>2, AttemptsDiffer
    <3>4. QED
      BY <2>2, <3>3 DEF HashSpreads
  <2>6. f \in [0 .. Retries - 1 -> {c \in Codes : once[c] # {None}}]
    BY <2>3, <2>4
  <2>7. \A m, n \in DOMAIN f : f[m] = f[n] => m = n
    <3>1. DOMAIN f = 0 .. Retries - 1 /\ \A n \in 0 .. Retries - 1 : f[n] = Generate(url, n)
      OBVIOUS
    <3> HIDE DEF f
    <3>2. QED
      BY <2>5, <3>1
  <2>8. WITNESS f \in [0 .. Retries - 1 -> {c \in Codes : once[c] # {None}}]
  <2>9. QED
    BY <2>7
<1>2. QED
  BY <1>1, TriedAlways, PTL
=============================================================================
