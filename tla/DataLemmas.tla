----------------------------- MODULE DataLemmas -----------------------------
(***************************************************************************)
(* What the proofs use of the data of the modules: least elements and      *)
(* division by a number that is not known, and what appending to a queue,  *)
(* taking its head and removing an entry leave in it.                      *)
(***************************************************************************)
EXTENDS Integers, Sequences, SequencesExt, WellFoundedInduction, TLAPS

(***************************************************************************)
(* Natural numbers.                                                        *)
(***************************************************************************)
\* Every set of natural numbers that is not empty has a least element.
LEMMA NatMin ==
  ASSUME NEW T \in SUBSET Nat, T # {}
  PROVE  \E x \in T : \A y \in T : x <= y
<1> DEFINE R == {ss \in Nat \X Nat : ss[1] < ss[2]}
<1>1. IsWellFoundedOn(R, Nat)
  BY NatLessThanWellFounded DEF OpToRel
<1> HIDE DEF R
<1>2. \E x \in T : \A y \in T : ~ (<<y, x>> \in R)
  BY <1>1, WFMin
<1>3. \A x, y \in T : ~ (<<y, x>> \in R) => x <= y
  BY DEF R
<1> QED BY <1>2, <1>3

\* A quotient and its remainder.
LEMMA DivMod ==
  ASSUME NEW n \in Nat, NEW k \in Nat \ {0}
  PROVE  /\ n \div k \in Nat /\ n % k \in 0 .. k - 1
         /\ n = (n \div k) * k + (n % k)
  BY SMT

LEMMA DivUnique ==
  ASSUME NEW q \in Nat, NEW k \in Nat \ {0}, NEW r \in 0 .. k - 1
  PROVE  (q * k + r) \div k = q /\ (q * k + r) % k = r
  BY SMT

\* A number below the divisor is its own remainder.
LEMMA BelowModulus ==
  ASSUME NEW k \in Nat \ {0}, NEW r \in 0 .. k - 1
  PROVE  r % k = r
  BY SMT

\* Row q of an array of m rows of k lies within the array.
LEMMA BelowMultiple ==
  ASSUME NEW q \in Nat, NEW m \in Nat, NEW k \in Nat \ {0}, NEW r \in 0 .. k - 1, q < m
  PROVE  q * k + r \in 0 .. m * k - 1
<1>1. PICK d \in Nat : m = q + 1 + d
  <2>1. m - q - 1 \in Nat
    OBVIOUS
  <2> QED BY <2>1
<1>2. m * k = q * k + k + d * k
  BY <1>1
<1>3. d * k \in Nat /\ q * k \in Nat
  OBVIOUS
<1> QED BY <1>2, <1>3

LEMMA DivMonotone ==
  ASSUME NEW m \in Nat, NEW n \in Nat, NEW k \in Nat \ {0}, m <= n
  PROVE  m \div k <= n \div k
<1>1. SUFFICES ASSUME n \div k < m \div k PROVE FALSE
  BY DivMod
<1>2. /\ n \div k \in Nat /\ m \div k \in Nat /\ n % k \in 0 .. k - 1 /\ m % k \in Nat
      /\ n = (n \div k) * k + (n % k) /\ m = (m \div k) * k + (m % k)
  BY DivMod
<1>3. (n \div k) * k + (n % k) \in 0 .. (m \div k) * k - 1
  BY <1>1, <1>2, BelowMultiple
<1>4. (m \div k) * k \in Nat
  BY <1>2
<1> QED BY <1>2, <1>3, <1>4

-----------------------------------------------------------------------------
\* Unlinking entry k leaves the others in order.
LEMMA RemoveAtEntries ==
  ASSUME NEW S, NEW q \in Seq(S), NEW k \in 1 .. Len(q)
  PROVE  /\ RemoveAt(q, k) \in Seq(S)
         /\ Len(RemoveAt(q, k)) = Len(q) - 1
         /\ \A j \in 1 .. Len(q) - 1 :
              RemoveAt(q, k)[j] = IF j < k THEN q[j] ELSE q[j + 1]
<1> DEFINE front == SubSeq(q, 1, k - 1)
           back  == SubSeq(q, k + 1, Len(q))
<1>1. /\ front \in Seq(S) /\ Len(front) = k - 1
      /\ \A j \in 1 .. k - 1 : front[j] = q[j]
  OBVIOUS
<1>2. /\ back \in Seq(S) /\ Len(back) = Len(q) - k
      /\ \A j \in 1 .. Len(q) - k : back[j] = q[j + k]
  OBVIOUS
<1>3. RemoveAt(q, k) = front \o back
  BY DEF RemoveAt
<1> HIDE DEF front, back
<1>4. front \o back \in Seq(S) /\ Len(front \o back) = Len(q) - 1
  BY <1>1, <1>2
<1>5. \A j \in 1 .. Len(q) - 1 : (front \o back)[j] = IF j < k THEN q[j] ELSE q[j + 1]
  <2> TAKE j \in 1 .. Len(q) - 1
  <2>1. CASE j < k
    BY <2>1, <1>1, <1>2
  <2>2. CASE ~ (j < k)
    <3>1. (front \o back)[j] = back[j - (k - 1)]
      BY <2>2, <1>1, <1>2
    <3>2. j - (k - 1) \in 1 .. Len(q) - k /\ (j - (k - 1)) + k = j + 1
      BY <2>2
    <3> QED
      BY <2>2, <3>1, <3>2, <1>2
  <2> QED
    BY <2>1, <2>2
<1> QED
  BY <1>3, <1>4, <1>5

\* Of a queue without duplicates, it takes away that entry and no other.
LEMMA RemoveAtRange ==
  ASSUME NEW S, NEW q \in Seq(S), NEW k \in 1 .. Len(q), IsInjective(q)
  PROVE  /\ RemoveAt(q, k) \in Seq(S)
         /\ IsInjective(RemoveAt(q, k))
         /\ Range(RemoveAt(q, k)) = Range(q) \ {q[k]}
<1> DEFINE r == RemoveAt(q, k)
<1>1. /\ r \in Seq(S) /\ Len(r) = Len(q) - 1
      /\ \A j \in 1 .. Len(q) - 1 : r[j] = IF j < k THEN q[j] ELSE q[j + 1]
  BY RemoveAtEntries
<1> HIDE DEF r
<1>2. DOMAIN r = 1 .. Len(q) - 1 /\ DOMAIN q = 1 .. Len(q) /\ Len(q) \in Nat
  BY <1>1
<1>3. IsInjective(r)
  <2> SUFFICES ASSUME NEW a \in DOMAIN r, NEW b \in DOMAIN r, r[a] = r[b]
               PROVE  a = b
    BY DEF IsInjective
  <2> DEFINE src(j) == IF j < k THEN j ELSE j + 1
  <2>1. /\ src(a) \in DOMAIN q /\ r[a] = q[src(a)]
        /\ src(b) \in DOMAIN q /\ r[b] = q[src(b)]
    BY <1>1, <1>2
  <2>2. src(a) = src(b)
    <3> HIDE DEF src
    <3> QED
      BY <2>1 DEF IsInjective
  <2> QED
    BY <2>2, <1>2
<1>4. Range(r) \subseteq Range(q) \ {q[k]}
  <2> SUFFICES ASSUME NEW j \in DOMAIN r
               PROVE  r[j] \in Range(q) /\ r[j] # q[k]
    BY DEF Range
  <2>1. j \in DOMAIN q /\ j + 1 \in DOMAIN q /\ k \in DOMAIN q
    BY <1>2
  <2>2. PICK m \in DOMAIN q : r[j] = q[m] /\ m # k
    BY <1>1, <1>2, <2>1
  <2> QED
    BY <2>1, <2>2 DEF Range, IsInjective
<1>5. Range(q) \ {q[k]} \subseteq Range(r)
  <2> SUFFICES ASSUME NEW m \in DOMAIN q, m # k
               PROVE  \E j \in DOMAIN r : r[j] = q[m]
    BY DEF Range
  <2>1. CASE m < k
    <3>1. m \in 1 .. Len(q) - 1 /\ r[m] = q[m]
      BY <2>1, <1>1, <1>2
    <3> QED
      BY <3>1, <1>2
  <2>2. CASE ~ (m < k)
    <3>1. m - 1 \in 1 .. Len(q) - 1 /\ ~ (m - 1 < k) /\ (m - 1) + 1 = m
      BY <2>2, <1>2
    <3>2. r[m - 1] = q[m]
      BY <3>1, <1>1
    <3> QED
      BY <3>1, <3>2, <1>2
  <2> QED
    BY <2>1, <2>2
<1> QED
  BY <1>1, <1>3, <1>4, <1>5 DEF r

\* Appending an entry the queue does not hold.
LEMMA AppendRange ==
  ASSUME NEW S, NEW q \in Seq(S), NEW e \in S
  PROVE  /\ Append(q, e) \in Seq(S)
         /\ Range(Append(q, e)) = Range(q) \cup {e}
         /\ IsInjective(q) /\ e \notin Range(q) => IsInjective(Append(q, e))
<1> DEFINE r == Append(q, e)
<1>1. /\ r \in Seq(S) /\ DOMAIN r = 1 .. Len(q) + 1 /\ DOMAIN q = 1 .. Len(q)
      /\ Len(q) \in Nat /\ r[Len(q) + 1] = e
      /\ \A j \in 1 .. Len(q) : r[j] = q[j]
  OBVIOUS
<1> HIDE DEF r
<1>2. Range(r) = Range(q) \cup {e}
  <2>1. ASSUME NEW j \in DOMAIN r PROVE r[j] \in Range(q) \cup {e}
    BY <1>1 DEF Range
  <2>2. ASSUME NEW j \in DOMAIN q PROVE q[j] \in Range(r)
    BY <1>1 DEF Range
  <2>3. e \in Range(r)
    BY <1>1 DEF Range
  <2> QED
    BY <2>1, <2>2, <2>3 DEF Range
<1>3. IsInjective(q) /\ e \notin Range(q) => IsInjective(r)
  BY <1>1 DEF Range, IsInjective
<1> QED
  BY <1>1, <1>2, <1>3 DEF r

\* Taking the head of a queue without duplicates.
LEMMA TailRange ==
  ASSUME NEW S, NEW q \in Seq(S), q # << >>, IsInjective(q)
  PROVE  /\ Head(q) \in Range(q)
         /\ Tail(q) \in Seq(S)
         /\ IsInjective(Tail(q))
         /\ Range(Tail(q)) = Range(q) \ {Head(q)}
<1> DEFINE r == Tail(q)
<1>1. /\ r \in Seq(S) /\ DOMAIN r = 1 .. Len(q) - 1 /\ DOMAIN q = 1 .. Len(q)
      /\ Len(q) \in Nat \ {0} /\ Head(q) = q[1]
      /\ \A j \in 1 .. Len(q) - 1 : r[j] = q[j + 1]
  OBVIOUS
<1> HIDE DEF r
<1>2. IsInjective(r)
  <2> SUFFICES ASSUME NEW a \in DOMAIN r, NEW b \in DOMAIN r, r[a] = r[b]
               PROVE  a = b
    BY DEF IsInjective
  <2>1. /\ a + 1 \in DOMAIN q /\ r[a] = q[a + 1]
        /\ b + 1 \in DOMAIN q /\ r[b] = q[b + 1]
    BY <1>1
  <2>2. a + 1 = b + 1
    BY <2>1 DEF IsInjective
  <2> QED
    BY <2>2, <1>1
<1>3. Range(r) \subseteq Range(q) \ {q[1]}
  <2> SUFFICES ASSUME NEW j \in DOMAIN r
               PROVE  r[j] \in Range(q) /\ r[j] # q[1]
    BY DEF Range
  <2>1. j + 1 \in DOMAIN q /\ r[j] = q[j + 1] /\ 1 \in DOMAIN q /\ j + 1 # 1
    BY <1>1
  <2> QED
    BY <2>1 DEF Range, IsInjective
<1>4. Range(q) \ {q[1]} \subseteq Range(r)
  <2> SUFFICES ASSUME NEW m \in DOMAIN q, m # 1
               PROVE  \E j \in DOMAIN r : r[j] = q[m]
    BY DEF Range
  <2>1. m - 1 \in 1 .. Len(q) - 1 /\ (m - 1) + 1 = m
    BY <1>1
  <2> QED
    BY <2>1, <1>1
<1>5. q[1] \in Range(q)
  BY <1>1 DEF Range
<1> QED
  BY <1>1, <1>2, <1>3, <1>4, <1>5 DEF r

\* Inserting an entry at k moves those from k on.
LEMMA InsertAtEntries ==
  ASSUME NEW S, NEW q \in Seq(S), NEW k \in 1 .. Len(q) + 1, NEW e \in S
  PROVE  /\ InsertAt(q, k, e) \in Seq(S)
         /\ Len(InsertAt(q, k, e)) = Len(q) + 1
         /\ \A j \in 1 .. Len(q) + 1 :
              InsertAt(q, k, e)[j] = IF j < k THEN q[j] ELSE IF j = k THEN e ELSE q[j - 1]
<1> DEFINE front == SubSeq(q, 1, k - 1)
           back  == SubSeq(q, k, Len(q))
<1>1. /\ front \in Seq(S) /\ Len(front) = k - 1
      /\ \A j \in 1 .. k - 1 : front[j] = q[j]
  OBVIOUS
<1>2. /\ back \in Seq(S) /\ Len(back) = Len(q) - k + 1
      /\ \A j \in 1 .. Len(q) - k + 1 : back[j] = q[j + k - 1]
  OBVIOUS
<1>3. InsertAt(q, k, e) = front \o <<e>> \o back
  BY DEF InsertAt
<1> HIDE DEF front, back
<1>4. /\ front \o <<e>> \in Seq(S) /\ Len(front \o <<e>>) = k
      /\ \A j \in 1 .. k : (front \o <<e>>)[j] = IF j < k THEN q[j] ELSE e
  BY <1>1
<1> DEFINE start == front \o <<e>>
<1> HIDE DEF start
<1>5. start \in Seq(S) /\ Len(start) = k /\ Len(q) \in Nat /\ k \in Nat
  BY <1>4 DEF start
<1>6. /\ start \o back \in Seq(S) /\ Len(start \o back) = Len(q) + 1
      /\ \A j \in 1 .. Len(q) + 1 :
           (start \o back)[j] = IF j <= k THEN start[j] ELSE back[j - k]
  <2>1. start \o back \in Seq(S) /\ Len(start \o back) = Len(start) + Len(back)
    <3>1. start \in Seq(S) /\ back \in Seq(S)
      BY <1>2, <1>5
    <3> QED BY <3>1
  <2>2. \A j \in 1 .. Len(start) + Len(back) :
          (start \o back)[j] = IF j <= Len(start) THEN start[j] ELSE back[j - Len(start)]
    BY <1>2, <1>5
  <2>3. Len(start) + Len(back) = Len(q) + 1
    BY <1>2, <1>5
  <2> QED BY <1>5, <2>1, <2>2, <2>3
<1>7. ASSUME NEW j \in 1 .. Len(q) + 1
      PROVE  (start \o back)[j] = IF j < k THEN q[j] ELSE IF j = k THEN e ELSE q[j - 1]
  <2>1. CASE j <= k
    BY <1>4, <1>6, <2>1 DEF start
  <2>2. CASE ~ (j <= k)
    <3>1. j - k \in 1 .. Len(q) - k + 1 /\ (j - k) + k - 1 = j - 1 /\ ~ (j < k) /\ j # k
      BY <1>5, <2>2
    <3> QED BY <1>2, <1>6, <2>2, <3>1
  <2> QED BY <2>1, <2>2
<1> QED BY <1>3, <1>6, <1>7 DEF start
=============================================================================
