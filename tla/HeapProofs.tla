----------------------------- MODULE HeapProofs -----------------------------
(* The kernel heap keeps the promise of an allocator, for any number and   *)
(* size of blocks, in the orders of calls that its footers survive: blocks *)
(* and holes divide it, and no block is written by anybody but its client. *)
(* Its index is an ordered array, which implements a sorted list.          *)
EXTENDS Heap, OrderedArray, SequenceTheorems, FiniteSetTheorems, WellFoundedInduction, TLAPS

(* A memory is looked at through At.                                       *)
Mem == [Words -> 0..(WordLimit - 1)]
-----------------------------------------------------------------------------
(* What a write of a header, a footer, one word or many changes.           *)
LEMMA PutIs ==
  ASSUME NEW m, NEW a \in Int, NEW w, NEW n \in Nat, Len(w) = n
  PROVE  \A x : At(Put(m, a, w), x) = IF x \in Words /\ x \in a..(a + n - 1) THEN w[x - a + 1]
                                      ELSE At(m, x)
  BY DEF At, Put

LEMMA PutTyped ==
  ASSUME NEW m \in Mem, NEW a \in Int, NEW w, NEW n \in Nat, Len(w) = n,
         \A i \in 1..n : w[i] \in 0..(WordLimit - 1)
  PROVE  Put(m, a, w) \in Mem
<1>1. \A x \in Words : x \in Int
  BY HeapAssumption DEF Words
<1>2. \A x \in Words : x \in a..(a + Len(w) - 1) => x - a + 1 \in 1..n
  BY <1>1
<1> QED BY <1>2 DEF Put, Mem

LEMMA PutHeader ==
  ASSUME NEW m, NEW a \in Int, {a, a + 1, a + 2} \subseteq Words, NEW f, NEW s
  PROVE  LET p == Put(m, a, Header(f, s))
         IN  /\ At(p, a) = Magic /\ At(p, a + 1) = f /\ At(p, a + 2) = s
             /\ \A x : x \notin {a, a + 1, a + 2} => At(p, x) = At(m, x)
             /\ m \in Mem /\ f \in 0..(WordLimit - 1) /\ s \in 0..(WordLimit - 1) => p \in Mem
<1> DEFINE w == Header(f, s)
           p == Put(m, a, w)
<1>1. Len(w) = 3 /\ w[1] = Magic /\ w[2] = f /\ w[3] = s
  BY DEF Header
<1> HIDE DEF w
<1>2. \A x : At(p, x) = IF x \in Words /\ x \in a..(a + 3 - 1) THEN w[x - a + 1] ELSE At(m, x)
  <2>1. 3 \in Nat /\ Len(w) = 3
    BY <1>1
  <2> QED BY ONLY a \in Int, <2>1, PutIs, Zenon
<1> HIDE DEF p
<1>3. /\ a \in a..(a + 3 - 1) /\ a + 1 \in a..(a + 3 - 1) /\ a + 2 \in a..(a + 3 - 1)
      /\ a - a + 1 = 1 /\ (a + 1) - a + 1 = 2 /\ (a + 2) - a + 1 = 3
  OBVIOUS
<1>4. At(p, a) = Magic /\ At(p, a + 1) = f /\ At(p, a + 2) = s
  BY <1>1, <1>2, <1>3
<1>5. \A x : x \in a..(a + 3 - 1) <=> x \in {a, a + 1, a + 2}
  OBVIOUS
<1>6. \A x : x \notin {a, a + 1, a + 2} => At(p, x) = At(m, x)
  BY <1>2, <1>5
<1>7. ASSUME m \in Mem, f \in 0..(WordLimit - 1), s \in 0..(WordLimit - 1) PROVE p \in Mem
  <2>1. \A i \in 1..3 : w[i] \in 0..(WordLimit - 1)
    <3>1. Magic \in 0..(WordLimit - 1)
      BY HeapAssumption
    <3> QED BY <1>1, <1>7, <3>1
  <2> QED BY <1>1, <1>7, <2>1, PutTyped DEF p
<1> QED BY <1>4, <1>6, <1>7 DEF p, w

LEMMA PutFooter ==
  ASSUME NEW m, NEW a \in Int, {a, a + 1} \subseteq Words, NEW h
  PROVE  LET p == Put(m, a, Footer(h))
         IN  /\ At(p, a) = Magic /\ At(p, a + 1) = h
             /\ \A x : x \notin {a, a + 1} => At(p, x) = At(m, x)
             /\ m \in Mem /\ h \in 0..(WordLimit - 1) => p \in Mem
<1> DEFINE w == Footer(h)
           p == Put(m, a, w)
<1>1. Len(w) = 2 /\ w[1] = Magic /\ w[2] = h
  BY DEF Footer
<1> HIDE DEF w
<1>2. \A x : At(p, x) = IF x \in Words /\ x \in a..(a + 2 - 1) THEN w[x - a + 1] ELSE At(m, x)
  BY <1>1, PutIs
<1> HIDE DEF p
<1>3. /\ a \in a..(a + 2 - 1) /\ a + 1 \in a..(a + 2 - 1)
      /\ a - a + 1 = 1 /\ (a + 1) - a + 1 = 2
  OBVIOUS
<1>4. At(p, a) = Magic /\ At(p, a + 1) = h
  BY <1>1, <1>2, <1>3
<1>5. \A x : x \in a..(a + 2 - 1) <=> x \in {a, a + 1}
  OBVIOUS
<1>6. \A x : x \notin {a, a + 1} => At(p, x) = At(m, x)
  BY <1>2, <1>5
<1>7. ASSUME m \in Mem, h \in 0..(WordLimit - 1) PROVE p \in Mem
  <2>1. \A i \in 1..2 : w[i] \in 0..(WordLimit - 1)
    <3>1. Magic \in 0..(WordLimit - 1)
      BY HeapAssumption
    <3> QED BY <1>1, <1>7, <3>1
  <2> QED BY <1>1, <1>7, <2>1, PutTyped DEF p
<1> QED BY <1>4, <1>6, <1>7 DEF p, w

LEMMA PutWord ==
  ASSUME NEW m, NEW a \in Words, NEW v
  PROVE  LET p == Put(m, a, <<v>>)
         IN  /\ At(p, a) = v
             /\ \A x : x # a => At(p, x) = At(m, x)
             /\ m \in Mem /\ v \in 0..(WordLimit - 1) => p \in Mem
<1> DEFINE w == <<v>>
           p == Put(m, a, w)
<1>0. a \in Int
  BY HeapAssumption DEF Words
<1>1. Len(w) = 1 /\ w[1] = v
  OBVIOUS
<1> HIDE DEF w
<1>2. \A x : At(p, x) = IF x \in Words /\ x \in a..(a + 1 - 1) THEN w[x - a + 1] ELSE At(m, x)
  BY <1>0, <1>1, PutIs
<1> HIDE DEF p
<1>3. a - a + 1 = 1 /\ \A x : x \in a..(a + 1 - 1) <=> x = a
  BY <1>0
<1>4. At(p, a) = v /\ \A x : x # a => At(p, x) = At(m, x)
  BY <1>1, <1>2, <1>3
<1>5. ASSUME m \in Mem, v \in 0..(WordLimit - 1) PROVE p \in Mem
  <2>1. \A i \in 1..1 : w[i] \in 0..(WordLimit - 1)
    BY <1>1, <1>5
  <2> QED BY <1>0, <1>1, <1>5, <2>1, PutTyped DEF p
<1> QED BY <1>4, <1>5 DEF p, w

LEMMA PutZeros ==
  ASSUME NEW m \in Mem, NEW a \in Int, NEW n \in Nat
  PROVE  LET p == Put(m, a, [x \in 1..n |-> 0])
         IN  p \in Mem /\ \A x : x \notin a..(a + n - 1) => At(p, x) = At(m, x)
<1> DEFINE w == [x \in 1..n |-> 0]
           p == Put(m, a, w)
<1>1. Len(w) = n /\ \A i \in 1..n : w[i] = 0
  OBVIOUS
<1> HIDE DEF w
<1>2. 0 \in 0..(WordLimit - 1)
  BY HeapAssumption
<1>3. p \in Mem
  BY <1>1, <1>2, PutTyped
<1>4. \A x : At(p, x) = IF x \in Words /\ x \in a..(a + n - 1) THEN w[x - a + 1] ELSE At(m, x)
  BY <1>1, PutIs
<1> QED BY <1>3, <1>4 DEF w

(* The unsigned arithmetic of the heap never wraps.                        *)
LEMMA ModSmall ==
  ASSUME NEW n \in 0..(WordLimit - 1) PROVE n % WordLimit = n
  BY HeapAssumption
-----------------------------------------------------------------------------
(* What inserting and removing does to the index, looked at as a set.      *)
Distinct(s) == \A i, j \in 1..Len(s) : i # j => s[i] # s[j]

LEMMA Members ==
  ASSUME NEW S, NEW s \in Seq(S)
  PROVE  /\ \A x : x \in ToSet(s) <=> \E i \in 1..Len(s) : s[i] = x
         /\ ToSet(s) \subseteq S
  BY DEF ToSet

LEMMA JoinedIs ==
  ASSUME NEW S, NEW s \in Seq(S), NEW t \in Seq(S), NEW r, r = s \o t,
         NEW p \in Nat, NEW q \in Nat, NEW n, p = Len(s), q = Len(t), n = p + q
  PROVE  /\ r \in Seq(S) /\ Len(r) = n
         /\ \A i \in 1..n : r[i] = IF i <= p THEN s[i] ELSE t[i - p]
<1>1. /\ s \o t \in Seq(S) /\ Len(s \o t) = Len(s) + Len(t)
      /\ \A i \in 1..(Len(s) + Len(t)) : (s \o t)[i] = IF i <= Len(s) THEN s[i] ELSE t[i - Len(s)]
  BY ConcatProperties, Zenon
<1> QED BY <1>1, Zenon

LEMMA InsertAtIs ==
  ASSUME NEW S, NEW s \in Seq(S), NEW e \in S, NEW k \in 1..(Len(s) + 1)
  PROVE  LET r == InsertAt(s, k, e)
         IN  /\ r \in Seq(S) /\ Len(r) = Len(s) + 1
             /\ \A i \in 1..(Len(s) + 1) :
                   r[i] = IF i < k THEN s[i] ELSE IF i = k THEN e ELSE s[i - 1]
<1> DEFINE n == Len(s)
           a == SubSeq(s, 1, k - 1)
           b == <<e>>
           c == SubSeq(s, k, n)
           r == InsertAt(s, k, e)
<1>1. n \in Nat /\ k \in 1..(n + 1)
  OBVIOUS
<1>2. a \in Seq(S) /\ Len(a) = k - 1 /\ \A i \in 1..(k - 1) : a[i] = s[i]
  OBVIOUS
<1>3. b \in Seq(S) /\ Len(b) = 1 /\ b[1] = e
  OBVIOUS
<1>4. c \in Seq(S) /\ Len(c) = n - k + 1 /\ \A i \in 1..(n - k + 1) : c[i] = s[k + i - 1]
  OBVIOUS
<1>5. r = (a \o b) \o c
  BY DEF InsertAt
<1> HIDE DEF a, b, c, n, r
<1> DEFINE ab == a \o b
<1>7. /\ ab \in Seq(S) /\ Len(ab) = k
      /\ \A i \in 1..k : ab[i] = IF i <= k - 1 THEN a[i] ELSE b[i - (k - 1)]
  <2> DEFINE p == k - 1
             q == 1
  <2>1. /\ p \in Nat /\ q \in Nat /\ k = p + q /\ p = Len(a) /\ q = Len(b)
        /\ a \in Seq(S) /\ b \in Seq(S) /\ ab = a \o b
    BY <1>1, <1>2, <1>3
  <2> HIDE DEF p, q, ab
  <2>2. /\ ab \in Seq(S) /\ Len(ab) = k
        /\ \A i \in 1..k : ab[i] = IF i <= p THEN a[i] ELSE b[i - p]
    BY <2>1, JoinedIs
  <2> QED BY <2>2 DEF p
<1>8. /\ r \in Seq(S) /\ Len(r) = n + 1
      /\ \A i \in 1..(n + 1) : r[i] = IF i <= k THEN ab[i] ELSE c[i - k]
  <2> DEFINE q == n - k + 1
             l == n + 1
  <2>1. /\ q \in Nat /\ k \in Nat /\ l = k + q /\ k = Len(ab) /\ q = Len(c) /\ r = ab \o c
        /\ ab \in Seq(S) /\ c \in Seq(S)
    BY <1>1, <1>4, <1>5, <1>7
  <2> HIDE DEF q, l, ab
  <2>2. /\ r \in Seq(S) /\ Len(r) = l
        /\ \A i \in 1..l : r[i] = IF i <= k THEN ab[i] ELSE c[i - k]
    BY <2>1, JoinedIs
  <2> QED BY <2>2 DEF l
<1> HIDE DEF ab
<1>9. \A i \in 1..(n + 1) : r[i] = IF i < k THEN s[i] ELSE IF i = k THEN e ELSE s[i - 1]
  <2> TAKE i \in 1..(n + 1)
  <2>1. CASE i < k
    BY <1>1, <1>2, <1>7, <1>8, <2>1
  <2>2. CASE i = k
    <3>1. i - (k - 1) = 1 /\ ~(i <= k - 1) /\ i <= k /\ i \in 1..k
      BY <1>1, <2>2
    <3> QED BY <1>3, <1>7, <1>8, <2>2, <3>1
  <2>3. CASE i > k
    <3>1. i - k \in 1..(n - k + 1) /\ k + (i - k) - 1 = i - 1 /\ ~(i <= k)
      BY <1>1, <2>3
    <3> QED BY <1>4, <1>8, <2>3, <3>1
  <2> QED BY <1>1, <2>1, <2>2, <2>3
<1> QED BY <1>8, <1>9 DEF n, r

LEMMA RemoveAtIs ==
  ASSUME NEW S, NEW s \in Seq(S), NEW k \in 1..Len(s)
  PROVE  LET r == RemoveAt(s, k)
         IN  /\ r \in Seq(S) /\ Len(r) = Len(s) - 1
             /\ \A i \in 1..(Len(s) - 1) : r[i] = IF i < k THEN s[i] ELSE s[i + 1]
<1> DEFINE n == Len(s)
           a == SubSeq(s, 1, k - 1)
           c == SubSeq(s, k + 1, n)
           r == RemoveAt(s, k)
<1>1. n \in Nat /\ k \in 1..n
  OBVIOUS
<1>2. a \in Seq(S) /\ Len(a) = k - 1 /\ \A i \in 1..(k - 1) : a[i] = s[i]
  OBVIOUS
<1>4. c \in Seq(S) /\ Len(c) = n - k /\ \A i \in 1..(n - k) : c[i] = s[k + i]
  <2>1. \A i \in 1..(n - k) : k + 1 + i - 1 = k + i
    OBVIOUS
  <2> QED BY <2>1
<1>5. r = a \o c
  BY DEF RemoveAt
<1> HIDE DEF a, c, n, r
<1>8. /\ r \in Seq(S) /\ Len(r) = n - 1
      /\ \A i \in 1..(n - 1) : r[i] = IF i <= k - 1 THEN a[i] ELSE c[i - (k - 1)]
  <2> DEFINE p == k - 1
             q == n - k
             l == n - 1
  <2>1. /\ p \in Nat /\ q \in Nat /\ l = p + q /\ p = Len(a) /\ q = Len(c)
        /\ a \in Seq(S) /\ c \in Seq(S) /\ r = a \o c
    BY <1>1, <1>2, <1>4, <1>5
  <2> HIDE DEF p, q, l
  <2>2. /\ r \in Seq(S) /\ Len(r) = l
        /\ \A i \in 1..l : r[i] = IF i <= p THEN a[i] ELSE c[i - p]
    BY <2>1, JoinedIs
  <2> QED BY <2>2 DEF p, l
<1>9. \A i \in 1..(n - 1) : r[i] = IF i < k THEN s[i] ELSE s[i + 1]
  <2> TAKE i \in 1..(n - 1)
  <2>1. CASE i < k
    BY <1>1, <1>2, <1>8, <2>1
  <2>2. CASE i >= k
    <3>1. i - (k - 1) \in 1..(n - k) /\ k + (i - (k - 1)) = i + 1 /\ ~(i <= k - 1)
      BY <1>1, <2>2
    <3> QED BY <1>4, <1>8, <2>2, <3>1
  <2> QED BY <1>1, <2>1, <2>2
<1> QED BY <1>8, <1>9 DEF n, r
LEMMA LeastNumber ==
  ASSUME NEW A \in SUBSET Nat, A # {}
  PROVE  \E m \in A : \A k \in A : m <= k
<1> DEFINE Below(n) == {k \in Nat : k < n}
           T == {Below(n) : n \in A}
<1>1. \A n \in Nat : IsFiniteSet(Below(n))
  <2> TAKE n \in Nat
  <2>1. Below(n) = 0..(n - 1)
    OBVIOUS
  <2>2. IsFiniteSet(0..(n - 1))
    BY FS_Interval
  <2> HIDE DEF Below
  <2> QED BY <2>1, <2>2, Zenon
<1>2. T \subseteq FiniteSubsetsOf(Nat) /\ T # {}
  BY <1>1 DEF FiniteSubsetsOf
<1>3. PICK x \in T : \A y \in T : <<y, x>> \notin StrictSubsetOrdering(Nat)
  BY <1>2, FS_StrictSubsetOrderingWellFounded, WFMin
<1>4. PICK m \in A : x = Below(m)
  BY <1>3
<1>5. ASSUME NEW k \in A, k < m PROVE FALSE
  <2>1. Below(k) \in T /\ Below(k) \subseteq x /\ Below(k) # x
    <3>1. k \in Below(m) /\ k \notin Below(k)
      BY <1>5
    <3>2. Below(k) \subseteq Below(m)
      BY <1>5
    <3> QED BY <1>4, <3>1, <3>2
  <2>2. Below(k) \in SUBSET Nat /\ x \in SUBSET Nat
    BY <1>4
  <2> HIDE DEF Below, T
  <2> QED BY <1>3, <2>1, <2>2 DEF StrictSubsetOrdering
<1> QED BY <1>5

LEMMA MinIs == ASSUME NEW A \in SUBSET Nat, A # {} PROVE Min(A) \in A
  BY LeastNumber DEF Min

LEMMA MaxIs ==
  ASSUME NEW A \in SUBSET Nat, A # {}, NEW top \in Nat, \A x \in A : x <= top
  PROVE  Max(A) \in A /\ \A x \in A : x <= Max(A)
<1> DEFINE B == {top - x : x \in A}
<1>1. B \in SUBSET Nat /\ B # {}
  <2>1. \A x \in A : top - x \in Nat
    OBVIOUS
  <2> QED BY <2>1
<1>2. PICK m \in B : \A k \in B : m <= k
  BY <1>1, LeastNumber
<1>3. PICK x \in A : m = top - x
  BY <1>2
<1>4. \A y \in A : x >= y
  <2> TAKE y \in A
  <2>1. top - y \in B /\ x \in Nat /\ y \in Nat
    OBVIOUS
  <2>2. m <= top - y
    BY <1>2, <2>1
  <2> QED BY <1>3, <2>1, <2>2
<1>5. Max(A) \in A /\ \A y \in A : Max(A) >= y
  BY <1>3, <1>4 DEF Max
<1> QED BY <1>5

(* What find_smallest_hole finds is a hole of the index, large enough.     *)
LEMMA FindIs ==
  ASSUME index \in Seq(Words), request.page_align = FALSE, NEW asked
  PROVE  LET i == FindSmallestHole(asked)
         IN  i # 0 => i \in 1..Len(index) /\ SizeAt(mem, index[i]) >= asked
<1> DEFINE I == {i \in 1..Len(index) : SizeFound(index[i]) >= asked}
<1>1. FindSmallestHole(asked) = IF I # {} THEN Min(I) ELSE 0
  BY DEF FindSmallestHole, SelectInSeq
<1>2. I \in SUBSET Nat
  OBVIOUS
<1>3. I # {} => Min(I) \in I
  BY <1>2, MinIs
<1> QED BY <1>1, <1>3 DEF SizeFound

(* A set of holes after an insertion, a removal by place and by value.     *)
LEMMA InsertedIs ==
  ASSUME NEW m, NEW s \in Seq(Words), NEW h \in Words, Distinct(s), h \notin ToSet(s)
  PROVE  /\ Inserted(m, s, h) \in Seq(Words) /\ Distinct(Inserted(m, s, h))
         /\ ToSet(Inserted(m, s, h)) = ToSet(s) \cup {h}
<1> DEFINE I == {i \in 1..Len(s) : ~(SizeAt(m, s[i]) < SizeAt(m, h))}
           stop == SelectInSeq(s, LAMBDA x : ~(SizeAt(m, x) < SizeAt(m, h)))
           k == IF stop = 0 THEN Len(s) + 1 ELSE stop
           r == InsertAt(s, k, h)
<1>1. stop = IF I # {} THEN Min(I) ELSE 0
  BY DEF SelectInSeq
<1>2. I \in SUBSET Nat /\ I \subseteq 1..Len(s)
  OBVIOUS
<1>3. I # {} => Min(I) \in I
  BY <1>2, MinIs
<1>4. k \in 1..(Len(s) + 1)
  BY <1>1, <1>2, <1>3
<1>5. Inserted(m, s, h) = r
  BY DEF Inserted
<1> HIDE DEF k, r
<1>6. /\ r \in Seq(Words) /\ Len(r) = Len(s) + 1
      /\ \A i \in 1..(Len(s) + 1) : r[i] = IF i < k THEN s[i] ELSE IF i = k THEN h ELSE s[i - 1]
  BY <1>4, InsertAtIs DEF r
<1>7. \A i \in 1..Len(s) : s[i] # h
  BY Members
<1>8. Distinct(r)
  <2> SUFFICES ASSUME NEW i \in 1..(Len(s) + 1), NEW j \in 1..(Len(s) + 1), i < j PROVE r[i] # r[j]
    BY <1>6 DEF Distinct
  <2>1. CASE j < k
    BY <1>4, <1>6, <2>1 DEF Distinct
  <2>2. CASE j = k
    <3>1. r[j] = h /\ r[i] = s[i] /\ i \in 1..Len(s)
      BY <1>4, <1>6, <2>2
    <3> QED BY <1>7, <3>1
  <2>3. CASE j > k
    <3>1. r[j] = s[j - 1] /\ j - 1 \in 1..Len(s)
      BY <1>4, <1>6, <2>3
    <3>2. CASE i < k
      <4>1. r[i] = s[i] /\ i \in 1..Len(s) /\ i # j - 1
        BY <1>4, <1>6, <2>3, <3>2
      <4> QED BY <3>1, <4>1 DEF Distinct
    <3>3. CASE i = k
      BY <1>6, <1>7, <3>1, <3>3
    <3>4. CASE i > k
      <4>1. r[i] = s[i - 1] /\ i - 1 \in 1..Len(s) /\ i - 1 # j - 1
        BY <1>4, <1>6, <3>4
      <4> QED BY <3>1, <4>1 DEF Distinct
    <3> QED BY <1>4, <3>2, <3>3, <3>4
  <2> QED BY <1>4, <2>1, <2>2, <2>3
<1>9. ToSet(r) = ToSet(s) \cup {h}
  <2>1. ASSUME NEW x \in ToSet(r) PROVE x \in ToSet(s) \cup {h}
    <3>1. PICK i \in 1..(Len(s) + 1) : r[i] = x
      BY <1>6, <2>1, Members
    <3>2. x = h \/ \E j \in 1..Len(s) : s[j] = x
      <4>1. CASE i < k
        BY <1>4, <1>6, <3>1, <4>1
      <4>2. CASE i = k
        BY <1>6, <3>1, <4>2
      <4>3. CASE i > k
        <5>1. i - 1 \in 1..Len(s) /\ s[i - 1] = x
          BY <1>4, <1>6, <3>1, <4>3
        <5> QED BY <5>1
      <4> QED BY <1>4, <4>1, <4>2, <4>3
    <3> QED BY <3>2, Members
  <2>2. h \in ToSet(r)
    <3>1. r[k] = h /\ k \in 1..Len(r)
      BY <1>4, <1>6
    <3> QED BY <1>6, <3>1, Members
  <2>3. ASSUME NEW x \in ToSet(s) PROVE x \in ToSet(r)
    <3>1. PICK i \in 1..Len(s) : s[i] = x
      BY <2>3, Members
    <3>2. CASE i < k
      <4>1. r[i] = x /\ i \in 1..Len(r)
        BY <1>6, <3>1, <3>2
      <4> QED BY <1>6, <4>1, Members
    <3>3. CASE i >= k
      <4>1. i + 1 \in 1..(Len(s) + 1) /\ ~(i + 1 < k) /\ i + 1 # k /\ (i + 1) - 1 = i
        BY <1>4, <3>3
      <4>2. r[i + 1] = x /\ i + 1 \in 1..Len(r)
        BY <1>6, <3>1, <4>1
      <4> QED BY <1>6, <4>2, Members
    <3> QED BY <1>4, <3>2, <3>3
  <2> QED BY <2>1, <2>2, <2>3
<1> QED BY <1>5, <1>6, <1>8, <1>9

LEMMA RemovedIs ==
  ASSUME NEW s \in Seq(Words), Distinct(s), NEW k \in 1..Len(s)
  PROVE  /\ RemoveAt(s, k) \in Seq(Words) /\ Distinct(RemoveAt(s, k))
         /\ ToSet(RemoveAt(s, k)) = ToSet(s) \ {s[k]}
<1> DEFINE r == RemoveAt(s, k)
<1>1. /\ r \in Seq(Words) /\ Len(r) = Len(s) - 1
      /\ \A i \in 1..(Len(s) - 1) : r[i] = IF i < k THEN s[i] ELSE s[i + 1]
  BY RemoveAtIs
<1> HIDE DEF r
<1>2. ASSUME NEW i \in 1..(Len(s) - 1)
      PROVE  \E j \in 1..Len(s) : j # k /\ r[i] = s[j] /\ j = IF i < k THEN i ELSE i + 1
  BY <1>1, <1>2
<1>3. Distinct(r)
  <2> SUFFICES ASSUME NEW i \in 1..(Len(s) - 1), NEW j \in 1..(Len(s) - 1), i # j PROVE r[i] # r[j]
    BY <1>1 DEF Distinct
  <2>1. PICK i2 \in 1..Len(s) : i2 # k /\ r[i] = s[i2] /\ i2 = IF i < k THEN i ELSE i + 1
    BY <1>2
  <2>2. PICK j2 \in 1..Len(s) : j2 # k /\ r[j] = s[j2] /\ j2 = IF j < k THEN j ELSE j + 1
    BY <1>2
  <2>3. i2 # j2
    BY <2>1, <2>2
  <2> QED BY <2>1, <2>2, <2>3 DEF Distinct
<1>4. ToSet(r) = ToSet(s) \ {s[k]}
  <2>1. ASSUME NEW x \in ToSet(r) PROVE x \in ToSet(s) /\ x # s[k]
    <3>1. PICK i \in 1..(Len(s) - 1) : r[i] = x
      BY <1>1, <2>1, Members
    <3>2. PICK j \in 1..Len(s) : j # k /\ r[i] = s[j]
      BY <1>2
    <3> QED BY <3>1, <3>2, Members DEF Distinct
  <2>2. ASSUME NEW x \in ToSet(s), x # s[k] PROVE x \in ToSet(r)
    <3>1. PICK j \in 1..Len(s) : s[j] = x
      BY <2>2, Members
    <3>2. CASE j < k
      <4>1. j \in 1..Len(r) /\ r[j] = x
        BY <1>1, <3>1, <3>2
      <4> QED BY <1>1, <4>1, Members
    <3>3. CASE j > k
      <4>1. j - 1 \in 1..(Len(s) - 1) /\ ~(j - 1 < k) /\ (j - 1) + 1 = j
        BY <3>3
      <4>2. j - 1 \in 1..Len(r) /\ r[j - 1] = x
        BY <1>1, <3>1, <4>1
      <4> QED BY <1>1, <4>2, Members
    <3>4. j # k
      BY <2>2, <3>1
    <3> QED BY <3>2, <3>3, <3>4
  <2> QED BY <2>1, <2>2
<1> QED BY <1>1, <1>3, <1>4 DEF r

LEMMA UnlistedIs ==
  ASSUME NEW s \in Seq(Words), Distinct(s), NEW h, NEW eats \in BOOLEAN
  PROVE  LET r == Unlisted(s, eats, h)
         IN  /\ r \in Seq(Words) /\ Distinct(r)
             /\ ToSet(r) = IF eats THEN ToSet(s) \ {h} ELSE ToSet(s)
<1>1. CASE eats /\ \E i \in 1..Len(s) : s[i] = h
  <2> DEFINE I == {i \in 1..Len(s) : s[i] = h}
  <2>1. Unlisted(s, eats, h) = RemoveAt(s, Min(I))
    BY <1>1 DEF Unlisted, RemoveFirst, SelectInSeq
  <2>2. I \in SUBSET Nat /\ I # {}
    BY <1>1
  <2>3. Min(I) \in I
    BY <2>2, MinIs
  <2>4. Min(I) \in 1..Len(s) /\ s[Min(I)] = h
    BY <2>3
  <2> QED BY <1>1, <2>1, <2>4, RemovedIs
<1>2. CASE ~(\E i \in 1..Len(s) : s[i] = h) \/ ~eats
  <2>1. Unlisted(s, eats, h) = s
    BY <1>2 DEF Unlisted, RemoveFirst
  <2>2. eats => h \notin ToSet(s)
    BY <1>2, Members
  <2> QED BY <2>1, <2>2
<1> QED BY <1>1, <1>2
-----------------------------------------------------------------------------
(* Holes H and used chunks U divide the heap that ends at e.  Every chunk  *)
(* has a header, and a footer that names it, but for a hole at the end:    *)
(* the first hole of all has none.  In front of the heap is the index, of  *)
(* which nothing looks like a footer.                                      *)
Framed(m, h) == At(m, h + SizeAt(m, h) - 2) = Magic /\ At(m, h + SizeAt(m, h) - 1) = h
Sound(m, h, e) ==
    /\ h \in Nat /\ SizeAt(m, h) \in Nat /\ SizeAt(m, h) >= 5
    /\ Start <= h /\ h + SizeAt(m, h) <= e /\ At(m, h) = Magic

IsHole(m, h, e) ==
    Sound(m, h, e) /\ At(m, h + 1) = 1 /\ (Framed(m, h) \/ h + SizeAt(m, h) = e)
IsUsed(m, h, e) == Sound(m, h, e) /\ At(m, h + 1) = 0 /\ Framed(m, h)

Apart(m, C) == \A g, h \in C : g < h => g + SizeAt(m, g) <= h
Covers(m, C, lo, hi) == \A x \in lo..(hi - 1) : \E h \in C : h <= x /\ x < h + SizeAt(m, h)

Laid(m, H, U, e) ==
    /\ \A h \in H : IsHole(m, h, e)
    /\ \A h \in U : IsUsed(m, h, e)
    /\ Apart(m, H \cup U)
    /\ Covers(m, H \cup U, Start, e)
    /\ At(m, Start - 2) = 0

(* A chunk none of whose words are written stays what it is.               *)
Untouched(m, m2, h) == \A x \in h..(h + SizeAt(m, h) - 1) : At(m2, x) = At(m, x)

LEMMA UntouchedChunk ==
  ASSUME NEW m, NEW m2, NEW h, NEW e, Sound(m, h, e), Untouched(m, m2, h)
  PROVE  /\ At(m2, h) = At(m, h) /\ At(m2, h + 1) = At(m, h + 1) /\ SizeAt(m2, h) = SizeAt(m, h)
         /\ Framed(m2, h) <=> Framed(m, h)
<1> DEFINE s == SizeAt(m, h)
<1>1. h \in Nat /\ s \in Nat /\ s >= 5
  BY DEF Sound
<1> HIDE DEF s
<1>2. \A x \in h..(h + s - 1) : At(m2, x) = At(m, x)
  BY DEF Untouched, s
<1>3. {h, h + 1, h + 2, h + s - 2, h + s - 1} \subseteq h..(h + s - 1)
  BY <1>1
<1>4. SizeAt(m2, h) = s
  BY <1>2, <1>3 DEF SizeAt, s
<1> QED BY <1>2, <1>3, <1>4 DEF Framed, s

(* The chunks in [lo, hi) are replaced by the chunks N, which divide       *)
(* [lo, hi2); the chunks K stay.  Either the heap ends where it did, or    *)
(* what is replaced is its end.                                            *)
Around(m, m2, H, U, H2, U2, K, N) ==
    /\ K \subseteq H \cup U /\ H2 \cup U2 = K \cup N
    /\ \A k \in K : (k \in H2 => k \in H) /\ (k \in U2 => k \in U) /\ Untouched(m, m2, k)
    /\ At(m2, Start - 2) = At(m, Start - 2)
Within(m, H, U, K, lo, hi) ==
    /\ \A k \in K : k + SizeAt(m, k) <= lo \/ hi <= k
    /\ \A h \in (H \cup U) \ K : lo <= h /\ h + SizeAt(m, h) <= hi
Fills(m, H, U, N, lo, hi, e) ==
    /\ \A n \in N : /\ Sound(m, n, e) /\ lo <= n /\ n + SizeAt(m, n) <= hi
                    /\ n \in H => IsHole(m, n, e)
                    /\ n \in U => IsUsed(m, n, e)
    /\ Apart(m, N) /\ Covers(m, N, lo, hi)

LEMMA Rebuilt ==
  ASSUME NEW m, NEW m2, NEW H, NEW U, NEW H2, NEW U2, NEW K, NEW N,
         NEW e \in Nat, NEW e2 \in Nat, NEW lo \in Nat, NEW hi \in Nat, NEW hi2 \in Nat,
         Laid(m, H, U, e), Around(m, m2, H, U, H2, U2, K, N),
         Within(m, H, U, K, lo, hi), Fills(m2, H2, U2, N, lo, hi2, e2),
         Start <= lo, lo <= hi, lo <= hi2, hi <= e, hi2 <= e2,
         (hi2 = hi /\ e2 = e) \/ (hi = e /\ hi2 = e2 /\ (lo < e \/ H = {}))
  PROVE  Laid(m2, H2, U2, e2)
<1>1. \A k \in K : Sound(m, k, e) /\ k \in Nat /\ SizeAt(m, k) \in Nat /\ SizeAt(m, k) >= 5
  BY DEF Laid, Around, IsHole, IsUsed, Sound
<1>2. \A k \in K : /\ SizeAt(m2, k) = SizeAt(m, k) /\ At(m2, k) = At(m, k)
                   /\ At(m2, k + 1) = At(m, k + 1) /\ (Framed(m2, k) <=> Framed(m, k))
  BY <1>1, UntouchedChunk DEF Around
<1>3. \A k \in K : k + SizeAt(m, k) <= e2
  BY <1>1 DEF Within, Sound
<1>4. \A k \in K : Sound(m2, k, e2)
  BY <1>1, <1>2, <1>3 DEF Sound
<1>5. ASSUME NEW k \in H2 PROVE IsHole(m2, k, e2)
  <2>1. CASE k \in N
    BY <2>1 DEF Fills
  <2>2. CASE k \in K
    <3>1. k \in H
      BY <2>2 DEF Around
    <3>2. IsHole(m, k, e)
      BY <3>1 DEF Laid
    <3>3. At(m2, k + 1) = 1
      BY <1>2, <2>2, <3>2 DEF IsHole
    <3>4. ASSUME ~Framed(m, k) PROVE k + SizeAt(m2, k) = e2
      <4>1. k + SizeAt(m, k) = e /\ H # {}
        BY <3>1, <3>2, <3>4 DEF IsHole
      <4>2. k + SizeAt(m, k) <= lo \/ hi <= k
        BY <2>2 DEF Within
      <4>3. e2 = e
        BY <1>1, <2>2, <4>1, <4>2
      <4> QED BY <1>2, <2>2, <4>1, <4>3
    <3> QED BY <1>2, <1>4, <2>2, <3>3, <3>4 DEF IsHole
  <2> QED BY <2>1, <2>2 DEF Around
<1>6. ASSUME NEW k \in U2 PROVE IsUsed(m2, k, e2)
  <2>1. CASE k \in N
    BY <2>1 DEF Fills
  <2>2. CASE k \in K
    <3>1. IsUsed(m, k, e)
      BY <2>2 DEF Around, Laid
    <3> QED BY <1>2, <1>4, <2>2, <3>1 DEF IsUsed
  <2> QED BY <2>1, <2>2 DEF Around
<1>7. \A n \in N : n \in Nat /\ SizeAt(m2, n) \in Nat /\ lo <= n /\ n + SizeAt(m2, n) <= hi2
  BY DEF Fills, Sound
<1>8. \A k \in K : k + SizeAt(m2, k) <= lo \/ hi <= k
  BY <1>2 DEF Within
<1>9. \A k \in K : hi <= k => hi2 = hi
  BY <1>1 DEF Sound
<1>10. Apart(m2, H2 \cup U2)
  <2> SUFFICES ASSUME NEW g \in K \cup N, NEW h \in K \cup N, g < h PROVE g + SizeAt(m2, g) <= h
    BY DEF Apart, Around
  <2>1. CASE g \in K /\ h \in K
    <3>1. g \in H \cup U /\ h \in H \cup U
      BY <2>1 DEF Around
    <3> QED BY <1>2, <2>1, <3>1 DEF Laid, Apart
  <2>2. CASE g \in N /\ h \in N
    BY <2>2 DEF Fills, Apart
  <2>3. CASE g \in K /\ h \in N
    <3>1. g + SizeAt(m2, g) <= lo
      BY <1>1, <1>7, <1>8, <1>9, <2>3
    <3>2. SizeAt(m2, g) \in Nat /\ g \in Nat /\ h \in Nat /\ lo <= h
      BY <1>1, <1>2, <1>7, <2>3
    <3> QED BY <3>1, <3>2
  <2>4. CASE g \in N /\ h \in K
    <3>1. hi <= h
      <4>1. g \in Nat /\ h \in Nat /\ lo <= g /\ SizeAt(m2, h) \in Nat
        BY <1>1, <1>2, <1>7, <2>4
      <4> QED BY <1>8, <2>4, <4>1
    <3> QED BY <1>1, <1>7, <1>9, <2>4, <3>1
  <2> QED BY <2>1, <2>2, <2>3, <2>4
<1>11. Covers(m2, H2 \cup U2, Start, e2)
  <2> SUFFICES ASSUME NEW x \in Start..(e2 - 1)
               PROVE  \E h \in K \cup N : h <= x /\ x < h + SizeAt(m2, h)
    BY DEF Covers, Around
  <2>0. Start \in Nat /\ x \in Nat
    BY HeapAssumption
  <2>1. CASE x \in lo..(hi2 - 1)
    BY <2>1 DEF Fills, Covers
  <2>2. CASE x \notin lo..(hi2 - 1)
    <3>1. x \in Start..(e - 1) /\ (x < lo \/ hi <= x)
      BY <2>0, <2>2
    <3>2. PICK h \in H \cup U : h <= x /\ x < h + SizeAt(m, h)
      BY <3>1 DEF Laid, Covers
    <3>3. h \in Nat /\ SizeAt(m, h) \in Nat
      BY DEF Laid, IsHole, IsUsed, Sound
    <3>4. h \in K
      <4>1. ~(lo <= h /\ h + SizeAt(m, h) <= hi)
        BY <2>0, <3>1, <3>2, <3>3
      <4> QED BY <4>1 DEF Within
    <3> QED BY <1>2, <3>2, <3>4
  <2> QED BY <2>1, <2>2
<1>12. At(m2, Start - 2) = 0
  BY DEF Laid, Around
<1> QED BY <1>5, <1>6, <1>10, <1>11, <1>12 DEF Laid

(* The chunks in use that stay where they are.                             *)
Keeps(m, m2, C) == \A k \in C : Untouched(m, m2, k)

LEMMA ChunkNat ==
  ASSUME NEW m, NEW H, NEW U, NEW e, Laid(m, H, U, e), NEW h \in H \cup U
  PROVE  /\ Sound(m, h, e) /\ h \in Nat /\ SizeAt(m, h) \in Nat /\ SizeAt(m, h) >= 5
         /\ Start <= h /\ h + SizeAt(m, h) <= e
  BY DEF Laid, IsHole, IsUsed, Sound

LEMMA NoneBoth == ASSUME NEW m, NEW H, NEW U, NEW e, Laid(m, H, U, e) PROVE H \cap U = {}
  BY DEF Laid, IsHole, IsUsed

(* One chunk follows another.                                              *)
LEMMA ChunkBehind ==
  ASSUME NEW m, NEW H, NEW U, NEW e \in Nat, Laid(m, H, U, e), NEW h \in H \cup U,
         h + SizeAt(m, h) < e
  PROVE  h + SizeAt(m, h) \in H \cup U
<1> DEFINE x == h + SizeAt(m, h)
<1>1. h \in Nat /\ SizeAt(m, h) \in Nat /\ SizeAt(m, h) >= 5 /\ Start <= h /\ Start \in Nat
  BY ChunkNat, HeapAssumption
<1>2. x \in Start..(e - 1)
  BY <1>1
<1>3. PICK g \in H \cup U : g <= x /\ x < g + SizeAt(m, g)
  BY <1>2 DEF Laid, Covers
<1>4. g \in Nat /\ SizeAt(m, g) \in Nat
  BY ChunkNat
<1>5. g > h => g >= x
  BY DEF Laid, Apart
<1>6. g < h => g + SizeAt(m, g) <= h
  BY DEF Laid, Apart
<1>7. g = x
  BY <1>1, <1>3, <1>4, <1>5, <1>6
<1> QED BY <1>7

LEMMA ChunkInFront ==
  ASSUME NEW m, NEW H, NEW U, NEW e \in Nat, Laid(m, H, U, e), NEW h \in H \cup U, h # Start
  PROVE  \E g \in H \cup U : g + SizeAt(m, g) = h /\ g < h
<1>1. h \in Nat /\ Start <= h /\ Start \in Nat /\ h < e
  <2>1. h + SizeAt(m, h) <= e /\ SizeAt(m, h) >= 5 /\ SizeAt(m, h) \in Nat /\ h \in Nat /\ Start <= h
    BY ChunkNat
  <2> QED BY <2>1, HeapAssumption
<1>2. h - 1 \in Start..(e - 1)
  BY <1>1
<1>3. PICK g \in H \cup U : g <= h - 1 /\ h - 1 < g + SizeAt(m, g)
  BY <1>2 DEF Laid, Covers
<1>4. g \in Nat /\ SizeAt(m, g) \in Nat
  BY ChunkNat
<1>5. g + SizeAt(m, g) <= h
  BY <1>1, <1>3, <1>4 DEF Laid, Apart
<1>6. g + SizeAt(m, g) = h /\ g < h
  BY <1>1, <1>3, <1>4, <1>5
<1> QED BY <1>6

(* What is written between two chunks does not touch the others.           *)
SameOutside(m, m2, lo, hi, e) ==
    \A x \in Int : (Start - 2 <= x /\ x < lo) \/ (hi <= x /\ x < e) => At(m2, x) = At(m, x)

LEMMA Elsewhere ==
  ASSUME NEW m, NEW m2, NEW H, NEW U, NEW K, NEW e \in Nat, NEW lo \in Nat, NEW hi \in Nat,
         Laid(m, H, U, e), K \subseteq H \cup U,
         Within(m, H, U, K, lo, hi), SameOutside(m, m2, lo, hi, e)
  PROVE  \A k \in K : Untouched(m, m2, k)
<1> SUFFICES ASSUME NEW k \in K PROVE Untouched(m, m2, k)
  OBVIOUS
<1>1. k \in Nat /\ SizeAt(m, k) \in Nat /\ Start <= k /\ k + SizeAt(m, k) <= e /\ Start \in Nat
  BY ChunkNat, HeapAssumption
<1>2. k + SizeAt(m, k) <= lo \/ hi <= k
  BY DEF Within
<1>3. \A x \in k..(k + SizeAt(m, k) - 1) :
         x \in Int /\ ((Start - 2 <= x /\ x < lo) \/ (hi <= x /\ x < e))
  BY <1>1, <1>2
<1> QED BY <1>3 DEF Untouched, SameOutside

LEMMA Alone ==
  ASSUME NEW m, NEW H, NEW U, NEW e, NEW h \in H \cup U, Laid(m, H, U, e)
  PROVE  Within(m, H, U, (H \cup U) \ {h}, h, h + SizeAt(m, h))
<1>0. h \in Nat /\ SizeAt(m, h) \in Nat
  BY ChunkNat
<1>1. ASSUME NEW k \in H \cup U, k # h PROVE k + SizeAt(m, k) <= h \/ h + SizeAt(m, h) <= k
  <2>1. k \in Nat
    BY ChunkNat
  <2>2. k < h => k + SizeAt(m, k) <= h
    BY DEF Laid, Apart
  <2>3. h < k => h + SizeAt(m, h) <= k
    BY DEF Laid, Apart
  <2> QED BY <1>0, <1>1, <2>1, <2>2, <2>3
<1>2. \A k \in (H \cup U) \ {h} : k + SizeAt(m, k) <= h \/ h + SizeAt(m, h) <= k
  BY <1>1
<1>3. \A k \in (H \cup U) \ ((H \cup U) \ {h}) : h <= k /\ k + SizeAt(m, k) <= h + SizeAt(m, h)
  BY <1>0
<1> QED BY <1>2, <1>3 DEF Within

(* The case that the chunk n alone replaces the chunks D.                  *)
Swap(m, m2, H, U, H2, U2, D, e, e2, n, hi, hi2) ==
    /\ e \in Nat /\ e2 \in Nat /\ n \in Nat /\ hi \in Nat /\ hi2 \in Nat
    /\ H2 \cup U2 = ((H \cup U) \ D) \cup {n}
    /\ H2 \ {n} \subseteq H /\ U2 \ {n} \subseteq U
    /\ Within(m, H, U, (H \cup U) \ D, n, hi)
    /\ SameOutside(m, m2, n, hi, e)
    /\ n + SizeAt(m2, n) = hi2
    /\ n \in H2 => IsHole(m2, n, e2)
    /\ n \in U2 => IsUsed(m2, n, e2)
    /\ Start <= n /\ n <= hi /\ hi <= e /\ hi2 <= e2
    /\ (hi2 = hi /\ e2 = e) \/ (hi = e /\ hi2 = e2 /\ (n < e \/ H = {}))

LEMMA RebuiltOne ==
  ASSUME NEW m, NEW m2, NEW H, NEW U, NEW H2, NEW U2, NEW D, NEW e, NEW e2, NEW n, NEW hi, NEW hi2,
         Laid(m, H, U, e), Swap(m, m2, H, U, H2, U2, D, e, e2, n, hi, hi2)
  PROVE  Laid(m2, H2, U2, e2) /\ Keeps(m, m2, (H \cup U) \ D)
<1> DEFINE K == (H \cup U) \ D
           N == {n}
<1>0. /\ e \in Nat /\ e2 \in Nat /\ n \in Nat /\ hi \in Nat /\ hi2 \in Nat
      /\ H2 \cup U2 = K \cup {n} /\ H2 \ {n} \subseteq H /\ U2 \ {n} \subseteq U
      /\ Within(m, H, U, K, n, hi) /\ SameOutside(m, m2, n, hi, e)
      /\ n + SizeAt(m2, n) = hi2 /\ Sound(m2, n, e2)
      /\ n \in H2 => IsHole(m2, n, e2)
      /\ n \in U2 => IsUsed(m2, n, e2)
      /\ Start <= n /\ n <= hi /\ hi <= e /\ hi2 <= e2
      /\ (hi2 = hi /\ e2 = e) \/ (hi = e /\ hi2 = e2 /\ (n < e \/ H = {}))
  BY DEF Swap, IsHole, IsUsed
<1>1. \A k \in K : Untouched(m, m2, k)
  BY <1>0, Elsewhere
<1>2. n \notin K
  <2>1. ASSUME n \in K PROVE FALSE
    <3>1. n + SizeAt(m, n) <= n \/ hi <= n
      BY <1>0, <2>1 DEF Within
    <3>2. SizeAt(m, n) \in Nat /\ SizeAt(m, n) >= 5 /\ n + SizeAt(m, n) <= e
      BY <1>0, <2>1, ChunkNat
    <3>3. SizeAt(m2, n) \in Nat /\ SizeAt(m2, n) >= 5
      BY <1>0 DEF Sound
    <3> QED BY <1>0, <3>1, <3>2, <3>3
  <2> QED BY <2>1
<1>3. Start \in Nat /\ Start - 2 \in Int /\ At(m2, Start - 2) = At(m, Start - 2)
  BY <1>0, HeapAssumption DEF SameOutside
<1>4. Around(m, m2, H, U, H2, U2, K, N)
  BY <1>0, <1>1, <1>2, <1>3 DEF Around
<1>5. SizeAt(m2, n) \in Nat /\ SizeAt(m2, n) >= 5
  BY <1>0 DEF Sound
<1>6. Fills(m2, H2, U2, N, n, hi2, e2)
  BY <1>0, <1>5 DEF Fills, Apart, Covers
<1> HIDE DEF K, N
<1>7. n <= hi2
  BY <1>0, <1>5
<1>8. Within(m, H, U, K, n, hi)
  BY <1>0 DEF K
<1>9. Laid(m2, H2, U2, e2)
  BY <1>0, <1>4, <1>6, <1>7, <1>8, Rebuilt
<1> QED BY <1>1, <1>9 DEF Keeps, K
-----------------------------------------------------------------------------
(* Addresses in the heap are words, and numbers that fit a word.           *)
LEMMA InHeap ==
  ASSUME NEW x \in Int, Start - 2 <= x, x < MaxAddress
  PROVE  x \in Words
  BY HeapAssumption DEF Words

LEMMA Fitting ==
  ASSUME NEW x \in Nat, x <= MaxAddress
  PROVE  x \in 0..(WordLimit - 1) /\ x % WordLimit = x
<1>1. WordLimit \in Nat /\ MaxAddress \in Nat /\ Magic \in Nat /\ MaxAddress < Magic
  BY HeapAssumption
<1>2. Magic < WordLimit
  BY <1>1, HeapAssumption
<1>3. x \in 0..(WordLimit - 1)
  BY <1>1, <1>2
<1> QED BY <1>3, ModSmall

(* expand: new words at the end of the heap become a hole of their own, or *)
(* part of the hole that was last.                                         *)
LEMMA GrownNew ==
  ASSUME NEW m \in Mem, NEW U, NEW e \in Nat, NEW n \in Nat,
         Laid(m, {}, U, e), n >= 5, Start <= e, e + n <= MaxAddress
  PROVE  LET m2 == Put(Put(m, e, Header(1, n)), e + n - 2, Footer(e))
         IN  m2 \in Mem /\ Laid(m2, {e}, U, e + n) /\ Keeps(m, m2, U)
<1> DEFINE m1 == Put(m, e, Header(1, n))
           f == e + n - 2
           m2 == Put(m1, f, Footer(e))
           e2 == e + n
<1>1. Start \in Nat /\ MaxAddress \in Nat /\ e2 \in Nat /\ f \in Int /\ f = e + (n - 2) /\ f + 1 = e2 - 1
  BY HeapAssumption
<1>2. {e, e + 1, e + 2} \subseteq Words /\ {f, f + 1} \subseteq Words
  <2>1. \A x \in {e, e + 1, e + 2, f, f + 1} : x \in Int /\ Start - 2 <= x /\ x < MaxAddress
    BY <1>1
  <2> QED BY <2>1, InHeap
<1>3. e \in 0..(WordLimit - 1) /\ n \in 0..(WordLimit - 1) /\ 1 \in 0..(WordLimit - 1)
  <2>1. e <= MaxAddress /\ n <= MaxAddress /\ 1 <= MaxAddress
    BY <1>1
  <2> QED BY <2>1, Fitting
<1>4. /\ At(m1, e) = Magic /\ At(m1, e + 1) = 1 /\ At(m1, e + 2) = n /\ m1 \in Mem
      /\ \A x : x \notin {e, e + 1, e + 2} => At(m1, x) = At(m, x)
  BY <1>2, <1>3, PutHeader
<1> HIDE DEF m1, f
<1>5. /\ At(m2, f) = Magic /\ At(m2, f + 1) = e /\ m2 \in Mem
      /\ \A x : x \notin {f, f + 1} => At(m2, x) = At(m1, x)
  <2>1. f \in Int /\ {f, f + 1} \subseteq Words
    BY <1>1, <1>2
  <2> QED BY <1>3, <1>4, <2>1, PutFooter
<1> HIDE DEF m2, e2
<1>6. At(m2, e) = Magic /\ At(m2, e + 1) = 1 /\ SizeAt(m2, e) = n
  BY <1>1, <1>4, <1>5 DEF SizeAt, e2
<1>7. IsHole(m2, e, e2)
  BY <1>1, <1>5, <1>6 DEF IsHole, Sound, Framed, f, e2
<1>8. \A x \in Int : x < e => At(m2, x) = At(m, x)
  BY <1>1, <1>4, <1>5 DEF f
<1>9. Within(m, {}, U, ({} \cup U) \ {}, e, e)
  BY ChunkNat DEF Within
<1>10. e \notin U
  <2>1. ASSUME e \in U PROVE FALSE
    BY <2>1, ChunkNat
  <2> QED BY <2>1
<1>11. /\ {e} \cup U = (({} \cup U) \ {}) \cup {e} /\ {e} \ {e} \subseteq {} /\ U \ {e} \subseteq U
       /\ (({} \cup U) \ {}) = U
  OBVIOUS
<1>12. SameOutside(m, m2, e, e, e)
  BY <1>8 DEF SameOutside
<1>13. e + SizeAt(m2, e) = e2
  BY <1>6 DEF e2
<1>14. Swap(m, m2, {}, U, {e}, U, {}, e, e2, e, e, e2)
  BY <1>1, <1>7, <1>9, <1>10, <1>11, <1>12, <1>13 DEF Swap
<1>15. Laid(m2, {e}, U, e2) /\ Keeps(m, m2, ({} \cup U) \ {})
  BY <1>14, RebuiltOne
<1> QED BY <1>5, <1>11, <1>15 DEF m1, m2, f, e2

LEMMA GrownLast ==
  ASSUME NEW m \in Mem, NEW H, NEW U, NEW e \in Nat, NEW n \in Nat, NEW g \in H,
         Laid(m, H, U, e), n >= 5, e + n <= MaxAddress, g + SizeAt(m, g) = e
  PROVE  LET t == SizeAt(m, g) + n
             m2 == Put(Put(m, g + 2, <<t>>), g + t - 2, Footer(g))
         IN  /\ t \in 0..(WordLimit - 1) /\ m2 \in Mem
             /\ Laid(m2, H, U, e + n) /\ Keeps(m, m2, U)
<1> DEFINE S == SizeAt(m, g)
           t == S + n
           m1 == Put(m, g + 2, <<t>>)
           f == g + t - 2
           m2 == Put(m1, f, Footer(g))
           e2 == e + n
<1>1. /\ S \in Nat /\ S >= 5 /\ g \in Nat /\ Start <= g /\ g + S = e /\ IsHole(m, g, e)
      /\ Start \in Nat /\ MaxAddress \in Nat
  BY ChunkNat, HeapAssumption DEF Laid
<1> HIDE DEF S
<1>2. /\ t \in Nat /\ t >= 10 /\ e2 \in Nat /\ f \in Int /\ f = e + (n - 2) /\ f + 1 = e2 - 1
      /\ f > g + 2 /\ g + t = e2 /\ t <= MaxAddress /\ g <= MaxAddress
  BY <1>1
<1>3. g + 2 \in Words /\ {f, f + 1} \subseteq Words
  <2>1. \A x \in {g + 2, f, f + 1} : x \in Int /\ Start - 2 <= x /\ x < MaxAddress
    BY <1>1, <1>2
  <2> QED BY <2>1, InHeap
<1>4. g \in 0..(WordLimit - 1) /\ t \in 0..(WordLimit - 1)
  BY <1>1, <1>2, Fitting
<1> HIDE DEF t, e2, f
<1>5. /\ At(m1, g + 2) = t /\ m1 \in Mem
      /\ \A x : x # g + 2 => At(m1, x) = At(m, x)
  BY <1>1, <1>3, <1>4, PutWord
<1> HIDE DEF m1
<1>6. /\ At(m2, f) = Magic /\ At(m2, f + 1) = g /\ m2 \in Mem
      /\ \A x : x \notin {f, f + 1} => At(m2, x) = At(m1, x)
  BY <1>2, <1>3, <1>4, <1>5, PutFooter
<1> HIDE DEF m2
<1>7. At(m2, g) = Magic /\ At(m2, g + 1) = 1 /\ SizeAt(m2, g) = t
  <2>1. g \notin {f, f + 1} /\ g + 1 \notin {f, f + 1} /\ g + 2 \notin {f, f + 1}
    BY <1>1, <1>2
  <2>2. g # g + 2 /\ g + 1 # g + 2
    BY <1>1
  <2>3. At(m, g) = Magic /\ At(m, g + 1) = 1
    BY <1>1 DEF IsHole, Sound
  <2> QED BY <1>5, <1>6, <2>1, <2>2, <2>3 DEF SizeAt
<1>8. g + t = e2 /\ g + t - 2 = f /\ g + t - 1 = f + 1
  BY <1>1, <1>2 DEF f, t
<1>9. IsHole(m2, g, e2)
  BY <1>1, <1>2, <1>7, <1>8 DEF IsHole, Sound
<1>10. SameOutside(m, m2, g, e, e)
  <2> SUFFICES ASSUME NEW x \in Int, x < g PROVE At(m2, x) = At(m, x)
    BY <1>1 DEF SameOutside
  <2>1. x \notin {f, f + 1} /\ x # g + 2
    BY <1>1, <1>2
  <2> QED BY <1>5, <1>6, <2>1
<1>11. Within(m, H, U, (H \cup U) \ {g}, g, e)
  <2>1. g + SizeAt(m, g) = e /\ g \in H \cup U
    BY <1>1 DEF S
  <2> QED BY <2>1, Alone
<1>12. /\ H \cup U = ((H \cup U) \ {g}) \cup {g} /\ H \ {g} \subseteq H /\ U \ {g} \subseteq U
  OBVIOUS
<1>13. g \notin U /\ U \subseteq (H \cup U) \ {g}
  BY NoneBoth
<1>14. Swap(m, m2, H, U, H, U, {g}, e, e2, g, e, e2)
  BY <1>1, <1>2, <1>7, <1>8, <1>9, <1>10, <1>11, <1>12, <1>13 DEF Swap
<1>15. Laid(m2, H, U, e2) /\ Keeps(m, m2, (H \cup U) \ {g})
  BY <1>14, RebuiltOne
<1>16. Keeps(m, m2, U)
  BY <1>13, <1>15 DEF Keeps
<1> QED BY <1>4, <1>6, <1>15, <1>16 DEF t, m1, m2, f, e2, S

(* A write inside the payload of a chunk in use.                           *)
LEMMA WrittenInside ==
  ASSUME NEW m, NEW m2, NEW H, NEW U, NEW e \in Nat, NEW h \in U, Laid(m, H, U, e),
         \A x \in Int : x < h + 3 \/ h + SizeAt(m, h) - 2 <= x => At(m2, x) = At(m, x)
  PROVE  Laid(m2, H, U, e) /\ Keeps(m, m2, U \ {h})
<1> DEFINE S == SizeAt(m, h)
<1>1. h \in Nat /\ S \in Nat /\ S >= 5 /\ Start <= h /\ h + S <= e /\ IsUsed(m, h, e)
  BY ChunkNat DEF Laid
<1>2. Within(m, H, U, (H \cup U) \ {h}, h, h + S)
  BY Alone
<1> HIDE DEF S
<1>3. \A x \in Int : x < h + 3 \/ h + S - 2 <= x => At(m2, x) = At(m, x)
  BY DEF S
<1>4. At(m2, h) = At(m, h) /\ At(m2, h + 1) = At(m, h + 1) /\ At(m2, h + 2) = At(m, h + 2)
  BY <1>1, <1>3
<1>5. SizeAt(m2, h) = S /\ S = SizeAt(m, h)
  BY <1>4 DEF SizeAt, S
<1>6. At(m2, h + S - 2) = At(m, h + S - 2) /\ At(m2, h + S - 1) = At(m, h + S - 1)
  BY <1>1, <1>3
<1>7. IsUsed(m2, h, e)
  BY <1>1, <1>4, <1>5, <1>6 DEF IsUsed, Sound, Framed
<1>8. SameOutside(m, m2, h, h + S, e)
  BY <1>1, <1>3 DEF SameOutside
<1>9. /\ H \cup U = ((H \cup U) \ {h}) \cup {h} /\ H \ {h} \subseteq H /\ U \ {h} \subseteq U
      /\ h \notin H /\ U \ {h} \subseteq (H \cup U) \ {h}
  BY NoneBoth
<1>10. h + S \in Nat /\ h <= h + S
  BY <1>1
<1>11. h + SizeAt(m2, h) = h + S
  BY <1>5
<1> DEFINE q == h + S
<1>q. /\ q \in Nat /\ h <= q /\ q <= e /\ h + SizeAt(m2, h) = q
      /\ Within(m, H, U, (H \cup U) \ {h}, h, q) /\ SameOutside(m, m2, h, q, e)
  BY <1>1, <1>2, <1>8, <1>10, <1>11
<1> HIDE DEF q
<1>12. Swap(m, m2, H, U, H, U, {h}, e, e, h, q, q)
  BY <1>1, <1>7, <1>9, <1>q DEF Swap
<1>13. Laid(m2, H, U, e) /\ Keeps(m, m2, (H \cup U) \ {h})
  BY <1>12, RebuiltOne
<1> QED BY <1>9, <1>13 DEF Keeps

(* alloc: the block takes the whole hole, or its front part, and what is   *)
(* behind it is a hole with a footer.                                      *)
LEMMA PlacedWhole ==
  ASSUME NEW m \in Mem, NEW H, NEW U, NEW e \in Nat, NEW h \in H, Laid(m, H, U, e), e <= MaxAddress
  PROVE  LET m2 == Put(Put(m, h, Header(0, SizeAt(m, h))), h + SizeAt(m, h) - 2, Footer(h))
         IN  /\ m2 \in Mem /\ SizeAt(m2, h) = SizeAt(m, h)
             /\ Laid(m2, H \ {h}, U \cup {h}, e) /\ Keeps(m, m2, U)
<1> DEFINE S == SizeAt(m, h)
           f == h + S - 2
           m1 == Put(m, h, Header(0, S))
           m2 == Put(m1, f, Footer(h))
<1>1. /\ h \in Nat /\ S \in Nat /\ S >= 5 /\ Start <= h /\ h + S <= e /\ Start \in Nat
      /\ MaxAddress \in Nat
  BY ChunkNat, HeapAssumption
<1>2. Within(m, H, U, (H \cup U) \ {h}, h, h + S)
  BY Alone
<1> HIDE DEF S
<1>3. f \in Int /\ h + 2 < f /\ f + 1 < h + S
  BY <1>1
<1>4. {h, h + 1, h + 2} \subseteq Words /\ {f, f + 1} \subseteq Words
  <2>1. \A x \in {h, h + 1, h + 2, f, f + 1} : x \in Int /\ Start - 2 <= x /\ x < MaxAddress
    BY <1>1, <1>3
  <2> QED BY <2>1, InHeap
<1>5. h \in 0..(WordLimit - 1) /\ S \in 0..(WordLimit - 1) /\ 0 \in 0..(WordLimit - 1)
  <2>1. h <= MaxAddress /\ S <= MaxAddress /\ 0 <= MaxAddress
    BY <1>1
  <2> QED BY <1>1, <2>1, Fitting
<1>6. /\ At(m1, h) = Magic /\ At(m1, h + 1) = 0 /\ At(m1, h + 2) = S /\ m1 \in Mem
      /\ \A x : x \notin {h, h + 1, h + 2} => At(m1, x) = At(m, x)
  BY <1>1, <1>4, <1>5, PutHeader
<1> HIDE DEF m1, f
<1>7. /\ At(m2, f) = Magic /\ At(m2, f + 1) = h /\ m2 \in Mem
      /\ \A x : x \notin {f, f + 1} => At(m2, x) = At(m1, x)
  BY <1>3, <1>4, <1>5, <1>6, PutFooter
<1> HIDE DEF m2
<1>8. At(m2, h) = Magic /\ At(m2, h + 1) = 0 /\ SizeAt(m2, h) = S
  <2>1. h \notin {f, f + 1} /\ h + 1 \notin {f, f + 1} /\ h + 2 \notin {f, f + 1}
    BY <1>1, <1>3
  <2> QED BY <1>6, <1>7, <2>1 DEF SizeAt
<1>9. h + S - 2 = f /\ h + S - 1 = f + 1
  BY <1>1 DEF f
<1>10. IsUsed(m2, h, e)
  BY <1>1, <1>7, <1>8, <1>9 DEF IsUsed, Sound, Framed
<1>11. SameOutside(m, m2, h, h + S, e)
  <2> SUFFICES ASSUME NEW x \in Int, x < h \/ h + S <= x PROVE At(m2, x) = At(m, x)
    BY <1>1 DEF SameOutside
  <2>1. x \notin {f, f + 1} /\ x \notin {h, h + 1, h + 2}
    BY <1>1, <1>3
  <2> QED BY <1>6, <1>7, <2>1
<1>12. /\ (H \ {h}) \cup (U \cup {h}) = ((H \cup U) \ {h}) \cup {h}
       /\ (H \ {h}) \ {h} \subseteq H /\ (U \cup {h}) \ {h} \subseteq U
       /\ U \subseteq (H \cup U) \ {h}
  BY NoneBoth
<1>13. h + S \in Nat /\ h <= h + S
  BY <1>1
<1>14. h + SizeAt(m2, h) = h + S
  BY <1>8
<1>15. h \notin H \ {h}
  OBVIOUS
<1> DEFINE q == h + S
<1>q. /\ q \in Nat /\ h <= q /\ q <= e /\ h + SizeAt(m2, h) = q
      /\ Within(m, H, U, (H \cup U) \ {h}, h, q) /\ SameOutside(m, m2, h, q, e)
  BY <1>1, <1>2, <1>11, <1>13, <1>14
<1> HIDE DEF q
<1>16. Swap(m, m2, H, U, H \ {h}, U \cup {h}, {h}, e, e, h, q, q)
  BY <1>1, <1>10, <1>12, <1>15, <1>q DEF Swap
<1>17. Laid(m2, H \ {h}, U \cup {h}, e) /\ Keeps(m, m2, (H \cup U) \ {h})
  BY <1>16, RebuiltOne
<1>18. Keeps(m, m2, U)
  BY <1>12, <1>17 DEF Keeps
<1> QED BY <1>7, <1>8, <1>17, <1>18 DEF m1, m2, f, S

LEMMA PlacedFront ==
  ASSUME NEW m \in Mem, NEW H, NEW U, NEW e \in Nat, NEW h \in H, NEW c \in Nat,
         Laid(m, H, U, e), e <= MaxAddress, c >= 5, SizeAt(m, h) - c >= 5
  PROVE  LET b == h + c
             left == SizeAt(m, h) - c
             m2 == Put(Put(m, h, Header(0, c)), b - 2, Footer(h))
             m3 == Put(Put(m2, b, Header(1, left)), b + left - 2, Footer(b))
         IN  /\ m3 \in Mem /\ SizeAt(m3, h) = c /\ b \notin H \cup U
             /\ Laid(m3, (H \ {h}) \cup {b}, U \cup {h}, e) /\ Keeps(m, m3, U)
<1> DEFINE S == SizeAt(m, h)
           b == h + c
           left == S - c
           f == b - 2
           q == h + S
           g == b + left - 2
           m1 == Put(m, h, Header(0, c))
           m2 == Put(m1, f, Footer(h))
           m22 == Put(m2, b, Header(1, left))
           m3 == Put(m22, g, Footer(b))
           K == (H \cup U) \ {h}
           N == {h, b}
           H2 == (H \ {h}) \cup {b}
           U2 == U \cup {h}
<1>1. /\ h \in Nat /\ S \in Nat /\ S >= c + 5 /\ Start <= h /\ q <= e /\ Start \in Nat
      /\ MaxAddress \in Nat
  BY ChunkNat, HeapAssumption
<1>2. Within(m, H, U, K, h, q)
  BY Alone
<1> HIDE DEF S, K, N, H2, U2
<1>3. /\ f \in Int /\ h + 2 < f /\ f + 1 = b - 1 /\ b \in Nat /\ left \in Nat /\ left >= 5
      /\ b + left = q /\ b + 2 < g /\ g \in Int /\ g + 1 = q - 1 /\ q \in Nat /\ h < b
  BY <1>1
<1> HIDE DEF b, left, f, q, g
<1>4. /\ {h, h + 1, h + 2} \subseteq Words /\ {f, f + 1} \subseteq Words
      /\ {b, b + 1, b + 2} \subseteq Words /\ {g, g + 1} \subseteq Words
  <2>1. \A x \in {h, h + 1, h + 2, f, f + 1} : x \in Int /\ Start - 2 <= x /\ x < MaxAddress
    BY <1>1, <1>3
  <2>2. \A x \in {b, b + 1, b + 2, g, g + 1} : x \in Int /\ Start - 2 <= x /\ x < MaxAddress
    BY <1>1, <1>3
  <2> QED BY <2>1, <2>2, InHeap
<1>5. /\ h \in 0..(WordLimit - 1) /\ c \in 0..(WordLimit - 1) /\ 0 \in 0..(WordLimit - 1)
      /\ b \in 0..(WordLimit - 1) /\ left \in 0..(WordLimit - 1) /\ 1 \in 0..(WordLimit - 1)
  <2>1. h <= MaxAddress /\ c <= MaxAddress /\ 0 <= MaxAddress /\ 1 <= MaxAddress
    BY <1>1 DEF q
  <2>2. b <= MaxAddress /\ left <= MaxAddress
    BY <1>1, <1>3
  <2> QED BY <1>1, <1>3, <2>1, <2>2, Fitting
<1>6. /\ At(m1, h) = Magic /\ At(m1, h + 1) = 0 /\ At(m1, h + 2) = c /\ m1 \in Mem
      /\ \A x : x \notin {h, h + 1, h + 2} => At(m1, x) = At(m, x)
  BY <1>1, <1>4, <1>5, PutHeader
<1> HIDE DEF m1
<1>7. /\ At(m2, f) = Magic /\ At(m2, f + 1) = h /\ m2 \in Mem
      /\ \A x : x \notin {f, f + 1} => At(m2, x) = At(m1, x)
  <2>1. f \in Int /\ {f, f + 1} \subseteq Words
    BY <1>3, <1>4
  <2> QED BY <1>5, <1>6, <2>1, PutFooter
<1> HIDE DEF m2
<1>8. /\ At(m22, b) = Magic /\ At(m22, b + 1) = 1 /\ At(m22, b + 2) = left /\ m22 \in Mem
      /\ \A x : x \notin {b, b + 1, b + 2} => At(m22, x) = At(m2, x)
  BY <1>3, <1>4, <1>5, <1>7, PutHeader
<1> HIDE DEF m22
<1>9. /\ At(m3, g) = Magic /\ At(m3, g + 1) = b /\ m3 \in Mem
      /\ \A x : x \notin {g, g + 1} => At(m3, x) = At(m22, x)
  <2>1. g \in Int /\ {g, g + 1} \subseteq Words
    BY <1>3, <1>4
  <2> QED BY <1>5, <1>8, <2>1, PutFooter
<1> HIDE DEF m3
<1>10. At(m3, h) = Magic /\ At(m3, h + 1) = 0 /\ SizeAt(m3, h) = c
  <2>1. \A x \in {h, h + 1, h + 2} : x \notin {f, f + 1} /\ x \notin {b, b + 1, b + 2} /\ x \notin {g, g + 1}
    BY <1>1, <1>3
  <2> QED BY <1>6, <1>7, <1>8, <1>9, <2>1 DEF SizeAt
<1>11. At(m3, f) = Magic /\ At(m3, f + 1) = h
  <2>1. \A x \in {f, f + 1} : x \notin {b, b + 1, b + 2} /\ x \notin {g, g + 1}
    BY <1>1, <1>3
  <2> QED BY <1>7, <1>8, <1>9, <2>1
<1>12. At(m3, b) = Magic /\ At(m3, b + 1) = 1 /\ SizeAt(m3, b) = left
  <2>1. \A x \in {b, b + 1, b + 2} : x \notin {g, g + 1}
    BY <1>1, <1>3
  <2> QED BY <1>8, <1>9, <2>1 DEF SizeAt
<1>13. SameOutside(m, m3, h, q, e)
  <2> SUFFICES ASSUME NEW x \in Int, x < h \/ q <= x PROVE At(m3, x) = At(m, x)
    BY <1>1 DEF SameOutside
  <2>1. x \notin {f, f + 1} /\ x \notin {h, h + 1, h + 2} /\ x \notin {b, b + 1, b + 2} /\ x \notin {g, g + 1}
    BY <1>1, <1>3
  <2> QED BY <1>6, <1>7, <1>8, <1>9, <2>1
<1>14. IsUsed(m3, h, e)
  <2>1. h + c - 2 = f /\ h + c - 1 = f + 1 /\ h + c <= e
    BY <1>1, <1>3 DEF b, f
  <2> QED BY <1>1, <1>10, <1>11, <2>1 DEF IsUsed, Sound, Framed
<1>15. IsHole(m3, b, e)
  <2>1. b + left - 2 = g /\ b + left - 1 = g + 1 /\ b + left <= e /\ Start <= b
    BY <1>1, <1>3 DEF g
  <2> QED BY <1>3, <1>9, <1>12, <2>1 DEF IsHole, Sound, Framed
<1>16. b \notin H \cup U
  <2>1. ASSUME b \in H \cup U PROVE FALSE
    <3>1. b \in K
      BY <1>3, <2>1 DEF K
    <3>2. b + SizeAt(m, b) <= h \/ q <= b
      BY <1>2, <3>1 DEF Within
    <3>3. SizeAt(m, b) \in Nat
      BY <2>1, ChunkNat
    <3> QED BY <1>1, <1>3, <3>2, <3>3
  <2> QED BY <2>1
<1>17. At(m3, Start - 2) = At(m, Start - 2)
  <2>1. Start - 2 \in Int /\ Start - 2 <= Start - 2 /\ Start - 2 < h
    BY <1>1
  <2> QED BY <1>13, <2>1 DEF SameOutside
<1>18. K \subseteq H \cup U /\ \A k \in K : Untouched(m, m3, k)
  BY <1>1, <1>2, <1>3, <1>13, Elsewhere DEF K
<1>19. Around(m, m3, H, U, H2, U2, K, N)
  <2>1. H2 \cup U2 = K \cup N
    BY DEF K, N, H2, U2
  <2>2. \A k \in K : (k \in H2 => k \in H) /\ (k \in U2 => k \in U)
    BY <1>16 DEF K, H2, U2
  <2> QED BY <1>17, <1>18, <2>1, <2>2 DEF Around
<1>20. Fills(m3, H2, U2, N, h, q, e)
  <2>1. h \notin H2 /\ b \notin U2
    BY <1>3, <1>16 DEF H2, U2
  <2>2. \A n \in N : /\ Sound(m3, n, e) /\ h <= n /\ n + SizeAt(m3, n) <= q
                     /\ n \in H2 => IsHole(m3, n, e)
                     /\ n \in U2 => IsUsed(m3, n, e)
    <3>1. h <= h /\ h + c <= q /\ h <= b /\ b + left <= q
      BY <1>1, <1>3 DEF b
    <3> QED BY <1>10, <1>12, <1>14, <1>15, <2>1, <3>1 DEF N, IsHole, IsUsed
  <2>3. Apart(m3, N)
    <3>1. h + c <= b /\ ~(b < h) /\ ~(h < h) /\ ~(b < b)
      BY <1>1, <1>3 DEF b
    <3> QED BY <1>10, <3>1 DEF Apart, N
  <2>4. Covers(m3, N, h, q)
    <3> SUFFICES ASSUME NEW x \in h..(q - 1) PROVE \E n \in N : n <= x /\ x < n + SizeAt(m3, n)
      BY DEF Covers
    <3>1. (h <= x /\ x < h + c) \/ (b <= x /\ x < b + left)
      BY <1>1, <1>3 DEF b
    <3> QED BY <1>10, <1>12, <3>1 DEF N
  <2> QED BY <2>2, <2>3, <2>4 DEF Fills
<1>21. h <= q
  BY <1>1, <1>3
<1>22. Laid(m3, H2, U2, e)
  BY <1>1, <1>2, <1>3, <1>19, <1>20, <1>21, Rebuilt
<1>23. Keeps(m, m3, U)
  <2>1. U \subseteq K
    BY NoneBoth DEF K
  <2> QED BY <1>18, <2>1 DEF Keeps
<1> QED BY <1>9, <1>10, <1>16, <1>22, <1>23 DEF S, b, left, f, g, m1, m2, m22, m3, H2, U2

(* free: what the two words in front of a block tell of the chunk there.   *)
LEMMA FrontIs ==
  ASSUME NEW m, NEW m1, NEW H, NEW U, NEW e \in Nat, NEW own \in U, Laid(m, H, U, e),
         \A x : x # own + 1 => At(m1, x) = At(m, x)
  PROVE  LET front == At(m, own - 1)
         IN  /\ Joins(m1, own) <=> Joins(m, own)
             /\ Joins(m, own) => /\ front \in H /\ front \in Nat /\ SizeAt(m, front) \in Nat
                                 /\ front + SizeAt(m, front) = own
                                 /\ SizeAt(m1, front) = SizeAt(m, front)
<1>1. own \in Nat /\ Start \in Nat /\ Start <= own /\ Magic # 0
  BY ChunkNat, HeapAssumption
<1>2. own - 2 # own + 1 /\ own - 1 # own + 1
  BY <1>1
<1>3. At(m1, own - 2) = At(m, own - 2) /\ At(m1, own - 1) = At(m, own - 1)
  BY <1>2
<1>4. CASE own = Start
  <2>1. At(m, own - 2) = 0
    BY <1>4 DEF Laid
  <2> QED BY <1>1, <1>3, <2>1 DEF Joins
<1>5. CASE own # Start
  <2>1. PICK g \in H \cup U : g + SizeAt(m, g) = own /\ g < own
    BY <1>5, ChunkInFront
  <2>2. g \in Nat /\ SizeAt(m, g) \in Nat /\ SizeAt(m, g) >= 5
    BY ChunkNat
  <2>3. own < e
    <3>1. own + SizeAt(m, own) <= e /\ SizeAt(m, own) >= 5 /\ SizeAt(m, own) \in Nat
      BY ChunkNat
    <3> QED BY <1>1, <3>1
  <2>4. Framed(m, g) /\ (g \in H => At(m, g + 1) = 1) /\ (g \in U => At(m, g + 1) = 0)
    <3>1. g + SizeAt(m, g) # e
      BY <1>1, <2>1, <2>3
    <3>2. (g \in H => IsHole(m, g, e)) /\ (g \in U => IsUsed(m, g, e))
      BY DEF Laid
    <3> QED BY <3>1, <3>2 DEF IsHole, IsUsed
  <2>5. At(m, own - 1) = g
    <3>1. g + SizeAt(m, g) - 1 = own - 1
      BY <2>1, <2>2
    <3> QED BY <2>4, <3>1 DEF Framed
  <2>6. At(m1, g + 1) = At(m, g + 1) /\ At(m1, g + 2) = At(m, g + 2)
    <3>1. g + 1 # own + 1 /\ g + 2 # own + 1
      BY <1>1, <2>1, <2>2
    <3> QED BY <3>1
  <2>7. Joins(m1, own) <=> Joins(m, own)
    BY <1>3, <2>5, <2>6 DEF Joins
  <2>8. Joins(m, own) => g \in H
    BY <2>4, <2>5 DEF Joins
  <2> QED BY <2>1, <2>2, <2>5, <2>6, <2>7, <2>8 DEF SizeAt
<1> QED BY <1>4, <1>5

(* free: the block becomes a hole, with the hole in front of it if there   *)
(* is one.                                                                 *)
LEMMA ReleasedAlone ==
  ASSUME NEW m \in Mem, NEW H, NEW U, NEW e \in Nat, NEW own \in U, Laid(m, H, U, e), e <= MaxAddress
  PROVE  LET m1 == Put(m, own + 1, <<1>>)
         IN  /\ m1 \in Mem /\ SizeAt(m1, own) = SizeAt(m, own)
             /\ Laid(m1, H \cup {own}, U \ {own}, e) /\ Keeps(m, m1, U \ {own})
             /\ \A x : x # own + 1 => At(m1, x) = At(m, x)
<1> DEFINE S == SizeAt(m, own)
           m1 == Put(m, own + 1, <<1>>)
           q == own + S
<1>1. /\ own \in Nat /\ S \in Nat /\ S >= 5 /\ Start <= own /\ own + S <= e /\ Start \in Nat
      /\ MaxAddress \in Nat /\ IsUsed(m, own, e)
  BY ChunkNat, HeapAssumption DEF Laid
<1>2. Within(m, H, U, (H \cup U) \ {own}, own, q)
  BY Alone
<1> HIDE DEF S
<1>3. own + 1 \in Words
  <2>1. own + 1 \in Int /\ Start - 2 <= own + 1 /\ own + 1 < MaxAddress
    BY <1>1
  <2> QED BY <2>1, InHeap
<1>4. 1 \in 0..(WordLimit - 1)
  BY HeapAssumption
<1>5. At(m1, own + 1) = 1 /\ m1 \in Mem /\ \A x : x # own + 1 => At(m1, x) = At(m, x)
  BY <1>3, <1>4, PutWord
<1> HIDE DEF m1
<1>6. At(m1, own) = At(m, own) /\ At(m1, own + 2) = At(m, own + 2)
  <2>1. own # own + 1 /\ own + 2 # own + 1
    BY <1>1
  <2> QED BY <1>5, <2>1
<1>7. SizeAt(m1, own) = S
  BY <1>6 DEF SizeAt, S
<1>8. At(m1, own + S - 2) = At(m, own + S - 2) /\ At(m1, own + S - 1) = At(m, own + S - 1)
  <2>1. own + S - 2 # own + 1 /\ own + S - 1 # own + 1
    BY <1>1
  <2> QED BY <1>5, <2>1
<1>9. IsHole(m1, own, e)
  BY <1>1, <1>5, <1>6, <1>7, <1>8 DEF IsHole, IsUsed, Sound, Framed, S
<1>10. SameOutside(m, m1, own, q, e)
  <2> SUFFICES ASSUME NEW x \in Int, x < own \/ q <= x PROVE At(m1, x) = At(m, x)
    BY <1>1 DEF SameOutside
  <2>1. x # own + 1
    BY <1>1
  <2> QED BY <1>5, <2>1
<1>11. /\ (H \cup {own}) \cup (U \ {own}) = ((H \cup U) \ {own}) \cup {own}
       /\ (H \cup {own}) \ {own} \subseteq H /\ (U \ {own}) \ {own} \subseteq U
       /\ U \ {own} \subseteq (H \cup U) \ {own} /\ own \notin U \ {own}
  OBVIOUS
<1>12. q \in Nat /\ own <= q /\ q <= e /\ own + SizeAt(m1, own) = q
  BY <1>1, <1>7
<1> HIDE DEF q
<1>13. Swap(m, m1, H, U, H \cup {own}, U \ {own}, {own}, e, e, own, q, q)
  BY <1>1, <1>2, <1>9, <1>10, <1>11, <1>12 DEF Swap
<1>14. Laid(m1, H \cup {own}, U \ {own}, e) /\ Keeps(m, m1, (H \cup U) \ {own})
  BY <1>13, RebuiltOne
<1>15. Keeps(m, m1, U \ {own})
  BY <1>11, <1>14 DEF Keeps
<1> QED BY <1>5, <1>7, <1>14, <1>15 DEF m1, S

(* A hole and the hole behind it.                                          *)
LEMMA Pair ==
  ASSUME NEW m, NEW H, NEW U, NEW e, NEW g \in H \cup U, NEW h \in H \cup U,
         Laid(m, H, U, e), g + SizeAt(m, g) = h
  PROVE  Within(m, H, U, (H \cup U) \ {g, h}, g, h + SizeAt(m, h))
<1>1. /\ g \in Nat /\ SizeAt(m, g) \in Nat /\ SizeAt(m, g) >= 5
      /\ h \in Nat /\ SizeAt(m, h) \in Nat /\ SizeAt(m, h) >= 5
  BY ChunkNat
<1>2. /\ Within(m, H, U, (H \cup U) \ {g}, g, h)
      /\ Within(m, H, U, (H \cup U) \ {h}, h, h + SizeAt(m, h))
  BY Alone
<1>3. ASSUME NEW k \in (H \cup U) \ {g, h} PROVE k + SizeAt(m, k) <= g \/ h + SizeAt(m, h) <= k
  <2>1. k \in Nat /\ SizeAt(m, k) \in Nat /\ SizeAt(m, k) >= 5
    BY ChunkNat
  <2>2. k + SizeAt(m, k) <= g \/ h <= k
    BY <1>2 DEF Within
  <2>3. k + SizeAt(m, k) <= h \/ h + SizeAt(m, h) <= k
    BY <1>2 DEF Within
  <2> QED BY <1>1, <2>1, <2>2, <2>3
<1>4. ASSUME NEW k \in (H \cup U) \ ((H \cup U) \ {g, h})
      PROVE  g <= k /\ k + SizeAt(m, k) <= h + SizeAt(m, h)
  <2>1. k = g \/ k = h
    BY <1>4
  <2>2. g <= g /\ g + SizeAt(m, g) <= h + SizeAt(m, h) /\ g <= h
    BY <1>1
  <2>3. h + SizeAt(m, h) <= h + SizeAt(m, h)
    BY <1>1
  <2> QED BY <2>1, <2>2, <2>3
<1> QED BY <1>3, <1>4 DEF Within

LEMMA Merged ==
  ASSUME NEW m \in Mem, NEW H, NEW U, NEW e \in Nat, NEW g \in H, NEW h \in H,
         Laid(m, H, U, e), e <= MaxAddress, g + SizeAt(m, g) = h, Framed(m, h)
  PROVE  LET t == SizeAt(m, g) + SizeAt(m, h)
             m2 == Put(Put(m, h + SizeAt(m, h) - 2 + 1, <<g>>), g + 2, <<t>>)
         IN  /\ m2 \in Mem /\ SizeAt(m2, g) = t /\ t <= MaxAddress
             /\ Laid(m2, H \ {h}, U, e) /\ Keeps(m, m2, U)
             /\ \A x \in Int : h + SizeAt(m, h) <= x => At(m2, x) = At(m, x)
<1> DEFINE S == SizeAt(m, g)
           T == SizeAt(m, h)
           t == S + T
           f == h + T - 2 + 1
           m1 == Put(m, f, <<g>>)
           m2 == Put(m1, g + 2, <<t>>)
           q == h + T
<1>1. /\ g \in Nat /\ S \in Nat /\ S >= 5 /\ Start <= g /\ Start \in Nat /\ g + S = h
      /\ h \in Nat /\ T \in Nat /\ T >= 5 /\ h + T <= e /\ IsHole(m, g, e)
      /\ MaxAddress \in Nat
  <2>1. /\ g \in Nat /\ S \in Nat /\ S >= 5 /\ Start <= g
        /\ h \in Nat /\ T \in Nat /\ T >= 5 /\ h + T <= e
    BY ChunkNat
  <2>2. Start \in Nat /\ MaxAddress \in Nat
    BY HeapAssumption
  <2>3. IsHole(m, g, e)
    BY DEF Laid
  <2> QED BY <2>1, <2>2, <2>3
<1>2. Within(m, H, U, (H \cup U) \ {g, h}, g, q)
  BY Pair
<1>3. At(m, h + T - 2) = Magic
  BY DEF Framed
<1> HIDE DEF S, T
<1>4. /\ f \in Int /\ g + 2 < f - 1 /\ f - 1 \in Int /\ f = q - 1 /\ q \in Nat /\ g <= q /\ q <= e
      /\ t \in Nat /\ g + t = q /\ t <= MaxAddress /\ g <= MaxAddress /\ t >= 5
  BY <1>1
<1>5. f \in Words /\ g + 2 \in Words
  <2>1. \A x \in {f, g + 2} : x \in Int /\ Start - 2 <= x /\ x < MaxAddress
    BY <1>1, <1>4
  <2> QED BY <2>1, InHeap
<1>6. g \in 0..(WordLimit - 1) /\ t \in 0..(WordLimit - 1)
  BY <1>1, <1>4, Fitting
<1>7. h + T - 2 = f - 1
  BY <1>1
<1>8. g + t - 2 = f - 1 /\ g + t - 1 = f
  BY <1>1
<1> HIDE DEF f, t, q
<1>9. At(m1, f) = g /\ m1 \in Mem /\ \A x : x # f => At(m1, x) = At(m, x)
  BY <1>5, <1>6, PutWord
<1> HIDE DEF m1
<1>10. At(m2, g + 2) = t /\ m2 \in Mem /\ \A x : x # g + 2 => At(m2, x) = At(m1, x)
  BY <1>5, <1>6, <1>9, PutWord
<1> HIDE DEF m2
<1>11. SizeAt(m2, g) = t
  BY <1>10 DEF SizeAt
<1>12. At(m2, g) = Magic /\ At(m2, g + 1) = 1
  <2>1. g # f /\ g # g + 2 /\ g + 1 # f /\ g + 1 # g + 2
    BY <1>1, <1>4
  <2> QED BY <1>1, <1>9, <1>10, <2>1 DEF IsHole, Sound
<1>13. At(m2, f) = g /\ At(m2, f - 1) = Magic
  <2>1. f # g + 2 /\ f - 1 # g + 2 /\ f - 1 # f
    BY <1>1, <1>4
  <2> QED BY <1>3, <1>7, <1>9, <1>10, <2>1
<1>14. IsHole(m2, g, e)
  BY <1>1, <1>4, <1>8, <1>11, <1>12, <1>13 DEF IsHole, Sound, Framed
<1>15. \A x \in Int : x < g \/ q <= x => At(m2, x) = At(m, x)
  <2> SUFFICES ASSUME NEW x \in Int, x < g \/ q <= x PROVE At(m2, x) = At(m, x)
    OBVIOUS
  <2>1. x # f /\ x # g + 2
    BY <1>1, <1>4
  <2> QED BY <1>9, <1>10, <2>1
<1>16. SameOutside(m, m2, g, q, e)
  BY <1>15 DEF SameOutside
<1>17. g # h
  BY <1>1
<1>18. /\ (H \ {h}) \cup U = ((H \cup U) \ {g, h}) \cup {g}
       /\ (H \ {h}) \ {g} \subseteq H /\ U \ {g} \subseteq U
       /\ U \subseteq (H \cup U) \ {g, h} /\ g \notin U
  BY <1>17, NoneBoth
<1>19. g + SizeAt(m2, g) = q
  BY <1>4, <1>11
<1>20. Swap(m, m2, H, U, H \ {h}, U, {g, h}, e, e, g, q, q)
  BY <1>1, <1>2, <1>4, <1>14, <1>16, <1>18, <1>19 DEF Swap
<1>21. Laid(m2, H \ {h}, U, e) /\ Keeps(m, m2, (H \cup U) \ {g, h})
  BY <1>20, RebuiltOne
<1>22. Keeps(m, m2, U)
  BY <1>18, <1>21 DEF Keeps
<1> QED BY <1>4, <1>10, <1>11, <1>15, <1>21, <1>22 DEF m1, m2, f, t, q, S, T

(* free gives the end of the heap back: what is left of the last hole, h   *)
(* or h with the hole behind it, has a footer.                             *)
LEMMA Shrunk ==
  ASSUME NEW m \in Mem, NEW H, NEW U, NEW e \in Nat, NEW h \in H, NEW B \in SUBSET H,
         Laid(m, H, U, e), e <= MaxAddress, h < e,
         Within(m, H, U, (H \cup U) \ ({h} \cup B), h, e), h \notin B,
         NEW m1 \in Mem, \A x : x # h + 2 => At(m1, x) = At(m, x),
         NEW t \in Nat, t >= 5, h + t <= e
  PROVE  LET r == Put(Put(m1, h + 2, <<t>>), h + t - 2, Footer(h))
         IN  r \in Mem /\ Laid(r, H \ B, U, h + t) /\ Keeps(m, r, U)
<1> DEFINE z == h + t - 2
           m3 == Put(m1, h + 2, <<t>>)
           r == Put(m3, z, Footer(h))
<1>1. /\ h \in Nat /\ Start <= h /\ Start \in Nat /\ IsHole(m, h, e) /\ MaxAddress \in Nat
  BY ChunkNat, HeapAssumption DEF Laid
<1>2. /\ z \in Int /\ h + 2 < z /\ z + 1 < e /\ t <= MaxAddress /\ h <= MaxAddress
      /\ h + t - 1 = z + 1 /\ h + t \in Nat
  BY <1>1
<1>3. h + 2 \in Words /\ {z, z + 1} \subseteq Words
  <2>1. \A x \in {h + 2, z, z + 1} : x \in Int /\ Start - 2 <= x /\ x < MaxAddress
    BY <1>1, <1>2
  <2> QED BY <2>1, InHeap
<1>4. h \in 0..(WordLimit - 1) /\ t \in 0..(WordLimit - 1)
  BY <1>1, <1>2, Fitting
<1>7. At(m3, h + 2) = t /\ m3 \in Mem /\ \A x : x # h + 2 => At(m3, x) = At(m1, x)
  BY <1>3, <1>4, PutWord
<1> HIDE DEF m3
<1>8. /\ At(r, z) = Magic /\ At(r, z + 1) = h /\ r \in Mem
      /\ \A x : x \notin {z, z + 1} => At(r, x) = At(m3, x)
  <2>1. z \in Int
    BY <1>2
  <2> HIDE DEF z
  <2> QED BY <1>3, <1>4, <1>7, <2>1, PutFooter
<1> HIDE DEF r
<1>9. SizeAt(r, h) = t /\ At(r, h) = Magic /\ At(r, h + 1) = 1
  <2>1. /\ h + 2 \notin {z, z + 1} /\ h \notin {z, z + 1} /\ h + 1 \notin {z, z + 1}
        /\ h # h + 2 /\ h + 1 # h + 2
    BY <1>1, <1>2
  <2> QED BY <1>1, <1>7, <1>8, <2>1 DEF SizeAt, IsHole, Sound
<1> DEFINE q == h + t
<1>10. IsHole(r, h, q)
  <2>1. h + t - 2 = z /\ h + t - 1 = z + 1 /\ q <= q
    BY <1>2
  <2> QED BY <1>1, <1>8, <1>9, <2>1 DEF IsHole, Sound, Framed
<1>11. SameOutside(m, r, h, e, e)
  <2> SUFFICES ASSUME NEW x \in Int, x < h PROVE At(r, x) = At(m, x)
    BY DEF SameOutside
  <2>1. x \notin {z, z + 1} /\ x # h + 2
    BY <1>1, <1>2
  <2> QED BY <1>7, <1>8, <2>1
<1>12. /\ (H \ B) \cup U = ((H \cup U) \ ({h} \cup B)) \cup {h}
       /\ (H \ B) \ {h} \subseteq H /\ U \ {h} \subseteq U
       /\ U \subseteq (H \cup U) \ ({h} \cup B) /\ h \notin U
  BY NoneBoth
<1>13. h + SizeAt(r, h) = q /\ q \in Nat /\ q <= q
  BY <1>2, <1>9
<1>14. h <= e
  BY <1>1
<1> HIDE DEF q
<1>15. Swap(m, r, H, U, H \ B, U, {h} \cup B, e, q, h, e, q)
  BY <1>1, <1>10, <1>11, <1>12, <1>13, <1>14 DEF Swap
<1>16. Laid(r, H \ B, U, q) /\ Keeps(m, r, (H \cup U) \ ({h} \cup B))
  BY <1>15, RebuiltOne
<1>17. Keeps(m, r, U)
  BY <1>12, <1>16 DEF Keeps
<1> QED BY <1>8, <1>16, <1>17 DEF r, m3, q, z

LEMMA KeepsBoth ==
  ASSUME NEW m, NEW m1, NEW m2, NEW C, NEW e, \A h \in C : Sound(m, h, e),
         Keeps(m, m1, C), Keeps(m1, m2, C)
  PROVE  Keeps(m, m2, C)
<1> SUFFICES ASSUME NEW h \in C PROVE Untouched(m, m2, h)
  BY DEF Keeps
<1>1. Untouched(m, m1, h) /\ Untouched(m1, m2, h)
  BY DEF Keeps
<1>2. SizeAt(m1, h) = SizeAt(m, h)
  BY <1>1, UntouchedChunk
<1> QED BY <1>1, <1>2 DEF Untouched

JoinsFreed(m, own) == Joins(Put(m, own + 1, <<1>>), own)
HeaderFreed(m, own) == IF JoinsFreed(m, own) THEN At(m, own - 1) ELSE own
BehindFreed(m, own) == own + SizeAt(m, own) - 2 + 2
MemFreed(m, own) ==
    LET m1 == Put(m, own + 1, <<1>>)
        footer == own + SizeAt(m, own) - 2
        front == At(m, own - 1)
    IN  IF Joins(m1, own)
        THEN Put(Put(m1, footer + 1, <<front>>), front + 2,
                 <<Add(SizeAt(m1, front), SizeAt(m1, own))>>)
        ELSE m1

IsFreed(m, m2, H, U, e, own, joins, header, behind) ==
    /\ m2 \in Mem /\ Laid(m2, H \cup {header}, U \ {own}, e) /\ Keeps(m, m2, U \ {own})
    /\ joins <=> Joins(m, own)
    /\ joins => header \in H
    /\ ~joins => header = own
    /\ own \notin H /\ behind = own + SizeAt(m, own) /\ behind \in Nat /\ behind <= e
    /\ header \in Nat /\ Start <= header /\ header + 5 <= behind
    /\ header + SizeAt(m2, header) = behind
    /\ \A x \in Int : behind <= x => At(m2, x) = At(m, x)

LEMMA Released ==
  ASSUME NEW m \in Mem, NEW H, NEW U, NEW e \in Nat, NEW own \in U, Laid(m, H, U, e), e <= MaxAddress
  PROVE  IsFreed(m, MemFreed(m, own), H, U, e, own, JoinsFreed(m, own), HeaderFreed(m, own),
                 BehindFreed(m, own))
<1> DEFINE S == SizeAt(m, own)
           footer == own + S - 2
           front == At(m, own - 1)
           m1 == Put(m, own + 1, <<1>>)
           joins == Joins(m1, own)
           header == IF joins THEN front ELSE own
           m2 == IF joins
                 THEN Put(Put(m1, footer + 1, <<front>>), front + 2,
                          <<Add(SizeAt(m1, front), SizeAt(m1, own))>>)
                 ELSE m1
           behind == footer + 2
           U2 == U \ {own}
<1>1. /\ own \in Nat /\ S \in Nat /\ S >= 5 /\ Start <= own /\ own + S <= e /\ Start \in Nat
      /\ MaxAddress \in Nat /\ Framed(m, own)
  BY ChunkNat, HeapAssumption DEF Laid, IsUsed
<1>2. /\ m1 \in Mem /\ SizeAt(m1, own) = S
      /\ Laid(m1, H \cup {own}, U2, e) /\ Keeps(m, m1, U2)
      /\ \A x : x # own + 1 => At(m1, x) = At(m, x)
  BY ReleasedAlone
<1> HIDE DEF m1
<1>3. /\ joins <=> Joins(m, own)
      /\ joins => /\ front \in H /\ front \in Nat /\ SizeAt(m, front) \in Nat
                  /\ front + SizeAt(m, front) = own /\ SizeAt(m1, front) = SizeAt(m, front)
  <2>1. \A x : x # own + 1 => At(m1, x) = At(m, x)
    BY <1>2
  <2> QED BY <2>1, FrontIs
<1>4. own \notin H
  BY NoneBoth
<1>5. behind = own + S /\ behind \in Nat /\ behind <= e /\ footer + 1 = own + S - 2 + 1
  BY <1>1
<1>6. \A x \in Int : behind <= x => At(m1, x) = At(m, x)
  <2> SUFFICES ASSUME NEW x \in Int, behind <= x PROVE At(m1, x) = At(m, x)
    OBVIOUS
  <2>1. x # own + 1
    BY <1>1
  <2> QED BY <1>2, <2>1
<1> DEFINE P == /\ m2 \in Mem /\ Laid(m2, H \cup {header}, U2, e) /\ Keeps(m, m2, U2)
                /\ joins => header \in H
                /\ ~joins => header = own
                /\ header \in Nat /\ Start <= header /\ header + 5 <= behind
                /\ header + SizeAt(m2, header) = behind
                /\ \A x \in Int : behind <= x => At(m2, x) = At(m, x)
<1> HIDE DEF S, footer, front, joins, behind
<1>7. ASSUME ~joins PROVE P
  <2>1. m2 = m1 /\ header = own
    BY <1>7
  <2> HIDE DEF m2, header
  <2>2. own + 5 <= behind /\ own + SizeAt(m1, own) = behind
    BY <1>1, <1>2, <1>5
  <2> QED BY <1>1, <1>2, <1>6, <1>7, <2>1, <2>2
<1>8. ASSUME joins PROVE P
  <2>1. /\ front \in H /\ front \in Nat /\ SizeAt(m1, front) \in Nat
        /\ front + SizeAt(m1, front) = own /\ SizeAt(m1, front) = SizeAt(m, front)
    BY <1>3, <1>8
  <2>2. Framed(m1, own)
    <3>1. own + S - 2 # own + 1 /\ own + S - 1 # own + 1
      BY <1>1
    <3> QED BY <1>1, <1>2, <3>1 DEF Framed, S
  <2> DEFINE t == SizeAt(m1, front) + SizeAt(m1, own)
             mm == Put(Put(m1, own + SizeAt(m1, own) - 2 + 1, <<front>>), front + 2, <<t>>)
  <2>3. /\ mm \in Mem /\ SizeAt(mm, front) = t /\ t <= MaxAddress
        /\ Laid(mm, (H \cup {own}) \ {own}, U2, e) /\ Keeps(m1, mm, U2)
        /\ \A x \in Int : own + SizeAt(m1, own) <= x => At(mm, x) = At(m1, x)
    <3> DEFINE H1 == H \cup {own}
    <3>1. front \in H1 /\ own \in H1
      BY <2>1
    <3>2. m1 \in Mem /\ Laid(m1, H1, U2, e) /\ front + SizeAt(m1, front) = own
      BY <1>2, <2>1
    <3> HIDE DEF H1, U2
    <3>3. /\ mm \in Mem /\ SizeAt(mm, front) = t /\ t <= MaxAddress
          /\ Laid(mm, H1 \ {own}, U2, e) /\ Keeps(m1, mm, U2)
          /\ \A x \in Int : own + SizeAt(m1, own) <= x => At(mm, x) = At(m1, x)
      BY <2>2, <3>1, <3>2, Merged
    <3> QED BY <3>3 DEF H1
  <2>4. t \in Nat
    BY <1>1, <1>2, <2>1
  <2>5. Add(SizeAt(m1, front), SizeAt(m1, own)) = t
    BY <2>3, <2>4, Fitting DEF Add
  <2>6. header = front /\ m2 = mm
    <3>1. footer + 1 = own + SizeAt(m1, own) - 2 + 1
      BY <1>2, <1>5
    <3> HIDE DEF t
    <3> QED BY <1>8, <2>5, <3>1
  <2> HIDE DEF mm, m2, header
  <2>7. (H \cup {own}) \ {own} = H /\ H \cup {front} = H
    BY <1>4, <2>1
  <2>8. Keeps(m, mm, U2)
    <3>1. \A h \in U2 : Sound(m, h, e)
      BY ChunkNat
    <3> QED BY <1>2, <2>3, <3>1, KeepsBoth
  <2>9. front + t = behind
    BY <1>1, <1>2, <1>5, <2>1
  <2>10. front + 5 <= behind /\ Start <= front
    <3>1. front \in H \cup {own}
      BY <2>1
    <3>2. Start <= front /\ SizeAt(m1, front) >= 5
      BY <1>2, <3>1, ChunkNat
    <3> QED BY <1>1, <1>5, <2>1, <3>2
  <2>11. \A x \in Int : behind <= x => At(mm, x) = At(m, x)
    BY <1>2, <1>5, <1>6, <2>3
  <2> HIDE DEF t
  <2> QED BY <1>8, <2>1, <2>3, <2>6, <2>7, <2>8, <2>9, <2>10, <2>11
<1>9. P
  BY <1>7, <1>8
<1> HIDE DEF m2, header, U2
<1>10. IsFreed(m, m2, H, U, e, own, joins, header, behind)
  BY <1>3, <1>4, <1>5, <1>9 DEF IsFreed, S, U2
<1>11. /\ joins = JoinsFreed(m, own) /\ header = HeaderFreed(m, own) /\ m2 = MemFreed(m, own)
       /\ behind = BehindFreed(m, own)
  BY DEF S, footer, front, m1, joins, header, m2, behind, JoinsFreed, HeaderFreed, MemFreed,
         BehindFreed
<1> HIDE DEF joins, behind
<1> QED BY <1>10, <1>11
-----------------------------------------------------------------------------
(* Pages of the heap.                                                      *)
LEMMA PageIs ==
  ASSUME NEW x \in Nat
  PROVE  /\ PageOf(x) \in Nat /\ PageOf(x) * PageSize \in Nat
         /\ PageOf(x) * PageSize <= x /\ x < PageOf(x) * PageSize + PageSize
<1>1. PageSize \in Nat /\ PageSize > 0
  BY HeapAssumption
<1> QED BY <1>1 DEF PageOf

LEMMA PageOrder ==
  ASSUME NEW x \in Nat, NEW y \in Nat, x <= y
  PROVE  PageOf(x) <= PageOf(y)
<1> DEFINE a == PageOf(x)
           b == PageOf(y)
           P == PageSize
<1>1. P \in Nat /\ P > 0
  BY HeapAssumption
<1>2. a \in Nat /\ a * P \in Nat /\ a * P <= x /\ b \in Nat /\ b * P \in Nat /\ y < b * P + P
  BY PageIs
<1> HIDE DEF a, b, P
<1>3. ASSUME a > b PROVE FALSE
  <2>1. a - (b + 1) \in Nat
    BY <1>2, <1>3
  <2>2. a * P = (a - (b + 1)) * P + (b * P + P)
    BY <1>1, <1>2
  <2>3. (a - (b + 1)) * P >= 0
    BY <1>1, <2>1
  <2> QED BY <1>1, <1>2, <2>2, <2>3
<1> QED BY <1>2, <1>3 DEF a, b

LEMMA PageNext ==
  ASSUME NEW x \in Nat
  PROVE  PageOf(x + PageSize) = PageOf(x) + 1
<1>1. PageSize \in Nat /\ PageSize > 0
  BY HeapAssumption
<1> QED BY <1>1 DEF PageOf

LEMMA PageBelow ==
  ASSUME NEW x \in Nat, NEW y \in Nat, x < y, y % PageSize = 0
  PROVE  PageOf(x) < PageOf(y)
<1> DEFINE a == PageOf(x)
           b == PageOf(y)
           P == PageSize
<1>1. P \in Nat /\ P > 0
  BY HeapAssumption
<1>2. a \in Nat /\ a * P \in Nat /\ a * P <= x /\ b \in Nat /\ b * P \in Nat
  BY PageIs
<1>3. y = b * P
  BY <1>1 DEF PageOf
<1> HIDE DEF a, b, P
<1>4. ASSUME a >= b PROVE FALSE
  <2>1. a * P = (a - b) * P + b * P
    BY <1>1, <1>2
  <2>2. (a - b) * P >= 0
    BY <1>1, <1>2, <1>4
  <2> QED BY <1>1, <1>2, <1>3, <2>1, <2>2
<1> QED BY <1>2, <1>4 DEF a, b

LEMMA SumOfPages ==
  ASSUME NEW x \in Nat, NEW y \in Nat, x % PageSize = 0, y % PageSize = 0
  PROVE  (x + y) % PageSize = 0
<1> DEFINE P == PageSize
           a == PageOf(x)
           b == PageOf(y)
<1>1. P \in Nat /\ P > 0
  BY HeapAssumption
<1>2. a \in Nat /\ b \in Nat
  BY PageIs
<1>3. x = a * P /\ y = b * P
  BY <1>1 DEF PageOf
<1> HIDE DEF a, b, P
<1>4. x + y = (a + b) * P
  BY <1>1, <1>2, <1>3
<1>5. \A c \in Nat : (c * P) % P = 0
  BY <1>1
<1>6. ((a + b) * P) % P = 0
  BY <1>2, <1>5
<1> QED BY <1>4, <1>6 DEF P

(* expand gives a frame to every page that the heap grows into: its loop   *)
(* reaches all of them but the last one, in which the new footer ends.     *)
AllBacked(e, pages) == \A x \in Start..(e - 1) : PageOf(x) \in pages

LEMMA ExpandedIs ==
  ASSUME end \in Nat, Start <= end, NEW e \in Nat, end < e, e <= MaxAddress,
         AllBacked(end, backed), backed \subseteq PageOf(Start)..(PageOf(MaxAddress) - 1),
         PageOf(e - 1) \in Expanded(e)
  PROVE  /\ AllBacked(e, Expanded(e))
         /\ Expanded(e) \subseteq PageOf(Start)..(PageOf(MaxAddress) - 1)
<1> DEFINE A == {x \in end..(e - 1) : (x - end) % PageSize = 0}
<1>0. /\ PageSize \in Nat /\ PageSize > 0 /\ Start \in Nat /\ MaxAddress \in Nat
      /\ MaxAddress % PageSize = 0 /\ e - 1 \in Nat
  BY HeapAssumption
<1>1. Expanded(e) = backed \cup {PageOf(a) : a \in A}
  BY DEF Expanded
<1>2. ASSUME NEW x \in Start..(e - 1) PROVE PageOf(x) \in Expanded(e)
  <2>0. x \in Nat
    BY <1>0
  <2>1. CASE x < end
    BY <1>0, <1>1, <2>1 DEF AllBacked
  <2>2. CASE x >= end
    <3> DEFINE a == x - ((x - end) % PageSize)
    <3>1. x - end \in Nat
      BY <2>0, <2>2
    <3>2. a \in Nat /\ end <= a /\ a <= x /\ x < a + PageSize /\ (a - end) % PageSize = 0
      <4> DEFINE d == x - end
                 r == d % PageSize
      <4>1. r \in Nat /\ r < PageSize /\ r <= d /\ (d - r) % PageSize = 0
        <5> HIDE DEF d
        <5> QED BY <1>0, <3>1 DEF d
      <4>2. a = x - r /\ d = x - end
        OBVIOUS
      <4>3. a - end = d - r
        BY <2>0, <4>1, <4>2
      <4> HIDE DEF a, d, r
      <4> QED BY <1>0, <2>0, <2>2, <4>1, <4>2, <4>3
    <3> HIDE DEF a
    <3>3. a \in A
      BY <1>0, <2>0, <3>2
    <3>4. PageOf(a) \in Expanded(e)
      BY <1>1, <3>3
    <3>5. PageOf(a) <= PageOf(x) /\ PageOf(x) <= PageOf(a) + 1
      <4>1. PageOf(a + PageSize) = PageOf(a) + 1
        BY <3>2, PageNext
      <4>2. a + PageSize \in Nat /\ x <= a + PageSize
        BY <1>0, <2>0, <3>2
      <4> QED BY <2>0, <3>2, <4>1, <4>2, PageOrder
    <3>6. ASSUME PageOf(x) = PageOf(a) + 1 PROVE PageOf(x) \in Expanded(e)
      <4>1. CASE a + PageSize <= e - 1
        <5>1. a + PageSize \in A
          <6>1. (a + PageSize) - end = (a - end) + PageSize /\ a - end \in Nat
            BY <1>0, <3>2
          <6>2. ((a - end) + PageSize) % PageSize = 0
            BY <1>0, <3>2, <6>1
          <6> QED BY <1>0, <3>2, <4>1, <6>1, <6>2
        <5>2. PageOf(a + PageSize) = PageOf(x)
          BY <3>2, <3>6, PageNext
        <5> QED BY <1>1, <5>1, <5>2
      <4>2. CASE e - 1 < a + PageSize
        <5>1. PageOf(e - 1) <= PageOf(a + PageSize) /\ PageOf(a + PageSize) = PageOf(a) + 1
          <6>1. a + PageSize \in Nat /\ e - 1 <= a + PageSize
            BY <1>0, <3>2, <4>2
          <6> QED BY <1>0, <3>2, <6>1, PageOrder, PageNext
        <5>2. PageOf(x) <= PageOf(e - 1)
          BY <1>0, <2>0, PageOrder
        <5>3. PageOf(x) \in Nat /\ PageOf(e - 1) \in Nat
          BY <1>0, <2>0, PageIs
        <5>4. PageOf(e - 1) = PageOf(x)
          BY <3>6, <5>1, <5>2, <5>3
        <5> QED BY <5>4
      <4> QED BY <1>0, <3>2, <4>1, <4>2
    <3>7. PageOf(x) \in Nat /\ PageOf(a) \in Nat
      BY <2>0, <3>2, PageIs
    <3> QED BY <3>4, <3>5, <3>6, <3>7
  <2> QED BY <1>0, <2>0, <2>1, <2>2
<1>3. ASSUME NEW a \in A PROVE PageOf(a) \in PageOf(Start)..(PageOf(MaxAddress) - 1)
  <2>1. a \in Nat /\ Start <= a /\ a < MaxAddress
    BY <1>0
  <2>2. PageOf(Start) <= PageOf(a) /\ PageOf(a) < PageOf(MaxAddress)
    BY <1>0, <2>1, PageOrder, PageBelow
  <2>3. PageOf(a) \in Nat /\ PageOf(Start) \in Nat /\ PageOf(MaxAddress) \in Nat
    BY <1>0, <2>1, PageIs
  <2> QED BY <2>2, <2>3
<1> QED BY <1>1, <1>2, <1>3 DEF AllBacked

(* contract gives back no page of the heap that is left.                   *)
LEMMA GivenBackIs ==
  ASSUME end \in Nat, NEW n \in Nat, n % PageSize = 0, Start + n <= end, AllBacked(end, backed)
  PROVE  AllBacked(Start + n, backed \ GivenBack(n))
<1>0. /\ PageSize \in Nat /\ PageSize > 0 /\ Start \in Nat /\ Start % PageSize = 0
  BY HeapAssumption
<1>1. Start + n \in Nat /\ (Start + n) % PageSize = 0
  BY <1>0, SumOfPages
<1> DEFINE e == Start + n
           pages == backed \ GivenBack(n)
<1> SUFFICES ASSUME NEW x \in Start..(e - 1) PROVE PageOf(x) \in pages
  <2> HIDE DEF e, pages
  <2>1. (\A x \in Start..(e - 1) : PageOf(x) \in pages) => AllBacked(e, pages)
    BY DEF AllBacked
  <2> QED BY <2>1 DEF e, pages
<1>2. x \in Nat /\ x < Start + n
  BY <1>0
<1>3. x \in Start..(end - 1)
  BY <1>0, <1>1, <1>2
<1>4. PageOf(x) \in backed
  BY <1>3 DEF AllBacked
<1>5. ASSUME NEW i \in (n + 1)..(end - Start - PageSize) PROVE PageOf(x) # PageOf(Start + i)
  <2>1. Start + i \in Nat /\ Start + n <= Start + i
    BY <1>0
  <2>2. PageOf(x) < PageOf(Start + n) /\ PageOf(Start + n) <= PageOf(Start + i)
    BY <1>1, <1>2, <2>1, PageBelow, PageOrder
  <2>3. PageOf(x) \in Nat /\ PageOf(Start + n) \in Nat /\ PageOf(Start + i) \in Nat
    BY <1>1, <1>2, <2>1, PageIs
  <2> QED BY <2>2, <2>3
<1>6. PageOf(x) \notin GivenBack(n)
  BY <1>5 DEF GivenBack
<1> QED BY <1>4, <1>6
-----------------------------------------------------------------------------
(* The invariant: holes and blocks divide the heap, every block has room   *)
(* for what was asked, and every word of the heap lies in a page with a    *)
(* frame of its own.                                                       *)
Headers(blocks) == {b.at - 3 : b \in blocks}
Held(m, blocks) ==
    /\ \A b \in blocks : b.size + 5 <= SizeAt(m, b.at - 3)
    /\ \A b, c \in blocks : b.at = c.at => b = c
Bounds == Start < end /\ (MaxFrees > 0 => Start + MinSize <= end)

IInv ==
    /\ TypeOK
    /\ Laid(mem, ToSet(index), Headers(live), end)
    /\ Distinct(index)
    /\ Held(mem, live)
    /\ AllBacked(end, backed)
    /\ Bounds

(* Calls in the order that the footers survive.                            *)
InOrder == Aligns \subseteq {FALSE} /\ AnyOrder = FALSE

LEMMA HeldKept ==
  ASSUME NEW m, NEW m2, NEW H, NEW U, NEW e, NEW l, NEW l2, Laid(m, H, U, e), Held(m, l),
         l2 \subseteq l, Headers(l2) \subseteq U, Keeps(m, m2, Headers(l2))
  PROVE  Held(m2, l2)
<1>1. ASSUME NEW b \in l2 PROVE b.size + 5 <= SizeAt(m2, b.at - 3)
  <2>1. b.at - 3 \in Headers(l2) /\ b \in l
    BY DEF Headers
  <2>2. Sound(m, b.at - 3, e)
    BY <2>1, ChunkNat
  <2>3. Untouched(m, m2, b.at - 3)
    BY <2>1 DEF Keeps
  <2>4. SizeAt(m2, b.at - 3) = SizeAt(m, b.at - 3)
    BY <2>2, <2>3, UntouchedChunk
  <2> QED BY <2>1, <2>4 DEF Held
<1>2. \A b, c \in l2 : b.at = c.at => b = c
  BY DEF Held
<1> QED BY <1>1, <1>2 DEF Held

LEMMA TypeFacts ==
  ASSUME IInv
  PROVE  /\ mem \in Mem /\ index \in Seq(Words) /\ end \in Nat /\ Start <= end /\ end <= MaxAddress
         /\ \A b \in live : b.at \in Int /\ b.size \in Nat /\ b.size > 0 /\ b.at - 3 \in Headers(live)
<1>1. /\ mem \in Mem /\ index \in Seq(Words) /\ end \in Start..MaxAddress
      /\ live \subseteq [at : Words, size : Sizes]
  BY DEF IInv, TypeOK, Mem
<1>2. Words \subseteq Int /\ Sizes \subseteq Nat \ {0} /\ Start \in Nat /\ MaxAddress \in Nat
  BY HeapAssumption DEF Words
<1>3. end \in Nat /\ Start <= end /\ end <= MaxAddress
  BY <1>1, <1>2
<1>4. ASSUME NEW b \in live
      PROVE  b.at \in Int /\ b.size \in Nat /\ b.size > 0 /\ b.at - 3 \in Headers(live)
  <2>1. b.at \in Words /\ b.size \in Sizes
    BY <1>1
  <2>2. b.at \in Int /\ b.size \in Nat \ {0}
    BY <1>2, <2>1
  <2>3. b.size > 0
    BY <2>2
  <2> QED BY <2>2, <2>3 DEF Headers
<1> QED BY <1>1, <1>3, <1>4

LEMMA InitIInv == Init => IInv
<1> SUFFICES ASSUME Init PROVE IInv
  OBVIOUS
<1> DEFINE zero == [x \in Words |-> 0]
           S == InitialEnd - Start
<1>0. /\ Start \in Nat /\ Start > 0 /\ InitialEnd \in Nat /\ Start + 5 <= InitialEnd
      /\ InitialEnd <= MaxAddress /\ MaxAddress \in Nat /\ S \in Nat /\ S <= MaxAddress
      /\ S >= 5 /\ Start + S = InitialEnd /\ InitialEnd % PageSize = 0
  BY HeapAssumption
<1>1. zero \in Mem /\ \A x : At(zero, x) = 0
  BY HeapAssumption DEF Mem, At
<1> HIDE DEF zero, S
<1>2. Start \in Words /\ {Start, Start + 1, Start + 2} \subseteq Words
  <2>1. \A x \in {Start, Start + 1, Start + 2} : x \in Int /\ Start - 2 <= x /\ x < MaxAddress
    BY <1>0
  <2> QED BY <2>1, InHeap
<1>3. 1 \in 0..(WordLimit - 1) /\ S \in 0..(WordLimit - 1)
  <2>1. 1 <= MaxAddress /\ 1 \in Nat
    BY <1>0
  <2> QED BY <1>0, <2>1, Fitting
<1>4. /\ mem = Put(zero, Start, Header(1, S)) /\ index = <<Start>> /\ end = InitialEnd
      /\ backed = PageOf(Start)..(PageOf(InitialEnd) - 1) /\ request = << >> /\ status = "ok"
      /\ live = {} /\ frees = 0
  BY DEF Init, zero, S
<1>5. /\ At(mem, Start) = Magic /\ At(mem, Start + 1) = 1 /\ At(mem, Start + 2) = S /\ mem \in Mem
      /\ \A x : x \notin {Start, Start + 1, Start + 2} => At(mem, x) = 0
  BY <1>0, <1>1, <1>2, <1>3, <1>4, PutHeader
<1>6. ToSet(index) = {Start} /\ index \in Seq(Words) /\ Distinct(index)
  BY <1>2, <1>4 DEF ToSet, Distinct
<1>7. PageOf(Start) \in Nat /\ PageOf(InitialEnd) \in Nat /\ PageOf(MaxAddress) \in Nat
      /\ PageOf(InitialEnd) <= PageOf(MaxAddress)
  BY <1>0, PageIs, PageOrder
<1>8. TypeOK
  <2>1. mem \in [Words -> 0..(WordLimit - 1)]
    BY <1>5 DEF Mem
  <2>2. backed \subseteq PageOf(Start)..(PageOf(MaxAddress) - 1)
    BY <1>4, <1>7
  <2>3. end \in Start..MaxAddress /\ frees \in 0..MaxFrees
    BY <1>0, <1>4, HeapAssumption
  <2> QED BY <1>4, <1>6, <2>1, <2>2, <2>3 DEF TypeOK
<1>9. Laid(mem, {Start}, {}, InitialEnd)
  <2>1. IsHole(mem, Start, InitialEnd)
    BY <1>0, <1>5 DEF IsHole, Sound, SizeAt
  <2>2. At(mem, Start - 2) = 0
    <3>1. Start - 2 \notin {Start, Start + 1, Start + 2}
      BY <1>0
    <3> QED BY <1>5, <3>1
  <2>3. Apart(mem, {Start} \cup {}) /\ Covers(mem, {Start} \cup {}, Start, InitialEnd)
    <3>1. SizeAt(mem, Start) = S
      BY <1>5 DEF SizeAt
    <3>2. Apart(mem, {Start} \cup {})
      BY <1>0 DEF Apart
    <3>3. \A x \in Start..(InitialEnd - 1) : Start <= x /\ x < Start + SizeAt(mem, Start)
      BY <1>0, <3>1
    <3> QED BY <3>2, <3>3 DEF Covers
  <2> QED BY <2>1, <2>2, <2>3 DEF Laid
<1>10. Headers(live) = {} /\ Held(mem, live)
  BY <1>4 DEF Headers, Held
<1>11. AllBacked(end, backed)
  <2> SUFFICES ASSUME NEW x \in Start..(InitialEnd - 1) PROVE PageOf(x) \in backed
    BY <1>4 DEF AllBacked
  <2>1. x \in Nat /\ Start <= x /\ x < InitialEnd
    BY <1>0
  <2>2. PageOf(Start) <= PageOf(x) /\ PageOf(x) < PageOf(InitialEnd) /\ PageOf(x) \in Nat
    BY <1>0, <2>1, PageOrder, PageBelow, PageIs
  <2> QED BY <1>4, <1>7, <2>2
<1>12. Bounds
  BY <1>0, <1>4, LeastSizeAssumption DEF Bounds
<1> QED BY <1>4, <1>6, <1>8, <1>9, <1>10, <1>11, <1>12 DEF IInv

LEMMA HaltIInv == ASSUME IInv, NEW r \in {"assert", "unbacked"}, Halt(r) PROVE IInv'
<1>1. UNCHANGED <<mem, index, end, backed, request, live, frees>> /\ status' = r
  BY DEF Halt
<1>2. TypeOK'
  BY <1>1 DEF IInv, TypeOK
<1>3. /\ Laid(mem', ToSet(index'), Headers(live'), end') /\ Distinct(index') /\ Held(mem', live')
      /\ AllBacked(end', backed')
  BY <1>1 DEF IInv
<1>4. Bounds'
  BY <1>1 DEF IInv, Bounds
<1> QED BY <1>2, <1>3, <1>4 DEF IInv

LEMMA AllocIInv == ASSUME IInv, NEW extent \in Sizes, NEW a \in Aligns, Alloc(extent, a) PROVE IInv'
<1>1. /\ UNCHANGED <<mem, index, end, backed, status, live, frees>>
      /\ request' = [size |-> extent, page_align |-> a]
  BY DEF Alloc
<1>2. TypeOK'
  BY <1>1 DEF IInv, TypeOK
<1>3. /\ Laid(mem', ToSet(index'), Headers(live'), end') /\ Distinct(index') /\ Held(mem', live')
      /\ AllBacked(end', backed')
  BY <1>1 DEF IInv
<1>4. Bounds'
  BY <1>1 DEF IInv, Bounds
<1> QED BY <1>2, <1>3, <1>4 DEF IInv

LEMMA GrowIInv ==
  ASSUME IInv, InOrder, (AnyOrder \/ HarmlessGrowth) /\ Grow
  PROVE  IInv' /\ Keeps(mem, mem', Headers(live))
<1> DEFINE n == request.size + Overhead
           new_end == end + request.size + Overhead
           extent == IF index = << >> THEN new_end - end
                   ELSE Add(SizeAt(mem, Grown), new_end - end)
           m1 == IF index = << >> THEN Put(mem, Grown, Header(1, extent))
                 ELSE Put(mem, Grown + 2, <<extent>>)
           m2 == Put(m1, Grown + extent - 2, Footer(Grown))
           touched == /\ Reach(Grown, 3, Expanded(new_end))
                      /\ Reach(Grown + extent - 2, 2, Expanded(new_end))
<1>1. \/ \E r \in {"assert", "unbacked"} : Halt(r)
      \/ /\ Fits(new_end) /\ touched
         /\ end' = new_end
         /\ backed' = Expanded(new_end)
         /\ mem' = m2
         /\ index' = IF index = << >> THEN Inserted(m2, index, Grown) ELSE index
         /\ UNCHANGED <<request, status, live, frees>>
  BY DEF Grow
<1>2. ASSUME NEW r \in {"assert", "unbacked"}, Halt(r)
      PROVE  IInv' /\ Keeps(mem, mem', Headers(live))
  BY <1>2, HaltIInv DEF Halt, Keeps, Untouched
<1>3. ASSUME /\ Fits(new_end) /\ touched
             /\ end' = new_end
             /\ backed' = Expanded(new_end)
             /\ mem' = m2
             /\ index' = IF index = << >> THEN Inserted(m2, index, Grown) ELSE index
             /\ UNCHANGED <<request, status, live, frees>>
      PROVE  IInv' /\ Keeps(mem, mem', Headers(live))
  <2> DEFINE U == Headers(live)
             H == ToSet(index)
  <2>1. request # << >> /\ request.size \in Nat /\ request.size > 0
    <3>1. request # << >> /\ request \in [size : Sizes, page_align : Aligns]
      BY DEF Grow, IInv, TypeOK
    <3>2. request.size \in Nat \ {0}
      BY <3>1, HeapAssumption
    <3> QED BY <3>1, <3>2
  <2>0. /\ Start \in Nat /\ MinSize \in Nat /\ MaxAddress \in Nat
        /\ end \in Nat /\ Start <= end /\ end <= MaxAddress
    BY TypeFacts, HeapAssumption
  <2>2. n \in Nat /\ n >= 5 /\ new_end = end + n /\ new_end - end = n /\ new_end \in Nat /\ end < new_end
    BY <2>1, TypeFacts DEF Overhead
  <2>3. new_end <= MaxAddress /\ touched
    BY <1>3 DEF Fits
  <2>4. Laid(mem, H, U, end)
    BY DEF IInv
  <2> HIDE DEF n, new_end, H, U
  <2>5. /\ mem' \in Mem /\ Laid(mem', ToSet(index'), U, new_end) /\ Keeps(mem, mem', U)
        /\ index' \in Seq(Words) /\ Distinct(index')
        /\ Grown + extent - 2 + 1 = new_end - 1 /\ Grown + extent - 2 \in Int
    <3>1. CASE index = << >>
      <4>1. Grown = end /\ extent = n /\ m2 = Put(Put(mem, end, Header(1, n)), end + n - 2, Footer(end))
        BY <2>2, <3>1 DEF Grown
      <4>2. H = {}
        BY <3>1 DEF H, ToSet
      <4>3. mem' \in Mem /\ Laid(mem', {end}, U, new_end) /\ Keeps(mem, mem', U)
        <5>1. /\ end \in Nat /\ mem \in Mem /\ Laid(mem, {}, U, end) /\ Start <= end
              /\ end + n <= MaxAddress
          BY <2>2, <2>3, <2>4, <4>2, TypeFacts
        <5>2. LET z == Put(Put(mem, end, Header(1, n)), end + n - 2, Footer(end))
              IN  z \in Mem /\ Laid(z, {end}, U, end + n) /\ Keeps(mem, z, U)
          BY <2>2, <5>1, GrownNew
        <5> QED BY <1>3, <2>2, <4>1, <5>2
      <4>4. index' = Inserted(m2, index, end) /\ end \in Words /\ end \notin ToSet(index)
        <5>1. end \in Int /\ Start - 2 <= end /\ end < MaxAddress
          BY <2>0, <2>2, <2>3
        <5> QED BY <1>3, <3>1, <4>1, <4>2, <5>1, InHeap DEF H
      <4>5. index' \in Seq(Words) /\ Distinct(index') /\ ToSet(index') = {end}
        <5>1. index \in Seq(Words) /\ Distinct(index)
          BY DEF IInv, TypeOK
        <5>2. ToSet(Inserted(m2, index, end)) = {} \cup {end}
          BY <4>2, <4>4, <5>1, InsertedIs DEF H
        <5> QED BY <4>4, <5>1, <5>2, InsertedIs
      <4> QED BY <2>2, <4>1, <4>3, <4>5, TypeFacts
    <3>2. CASE index # << >>
      <4>1. Grown = Max(H)
        BY <3>2 DEF Grown, H
      <4>2. H \in SUBSET Nat /\ H # {} /\ \A h \in H : h <= end
        <5>1. H # {}
          <6>1. index \in Seq(Words) /\ Len(index) \in Nat
            BY TypeFacts
          <6>2. Len(index) # 0
            BY <3>2, <6>1, EmptySeq
          <6> QED BY <6>1, <6>2, Members DEF H
        <5>2. \A h \in H : h \in Nat /\ h <= end
          <6> SUFFICES ASSUME NEW h \in H PROVE h \in Nat /\ h <= end
            OBVIOUS
          <6>1. h \in Nat /\ SizeAt(mem, h) \in Nat /\ h + SizeAt(mem, h) <= end
            BY <2>4, ChunkNat
          <6> QED BY <6>1, TypeFacts
        <5> QED BY <5>1, <5>2
      <4>3. Grown \in H
        BY <4>1, <4>2, TypeFacts, MaxIs
      <4>4. Grown + SizeAt(mem, Grown) = end
        BY <3>2 DEF InOrder, HarmlessGrowth
      <4> DEFINE t == SizeAt(mem, Grown) + n
                 z == Put(Put(mem, Grown + 2, <<t>>), Grown + t - 2, Footer(Grown))
      <4>5. t \in 0..(WordLimit - 1) /\ z \in Mem /\ Laid(z, H, U, end + n) /\ Keeps(mem, z, U)
        <5>1. mem \in Mem /\ end \in Nat /\ end + n <= MaxAddress
          BY <2>2, <2>3, TypeFacts
        <5> QED BY <2>2, <2>4, <4>3, <4>4, <5>1, GrownLast
      <4>6. extent = t
        <5>1. extent = (SizeAt(mem, Grown) + n) % WordLimit
          BY <2>2, <3>2 DEF Add
        <5> QED BY <4>5, <5>1, ModSmall
      <4>7. m2 = z
        BY <3>2, <4>6
      <4>8. Grown \in Nat /\ SizeAt(mem, Grown) \in Nat
        BY <2>4, <4>3, ChunkNat
      <4>9. Grown + extent - 2 + 1 = new_end - 1 /\ Grown + extent - 2 \in Int
        <5>1. extent = (end - Grown) + n
          BY <2>2, <4>4, <4>6, <4>8
        <5> HIDE DEF extent
        <5> QED BY <2>0, <2>2, <4>8, <5>1
      <4> HIDE DEF z, t
      <4>10. index' = index /\ mem' = z
        BY <1>3, <3>2, <4>7
      <4> QED BY <2>2, <4>5, <4>9, <4>10, TypeFacts DEF H, IInv
    <3> QED BY <3>1, <3>2
  <2>6. AllBacked(end', backed') /\ backed' \subseteq PageOf(Start)..(PageOf(MaxAddress) - 1)
    <3> DEFINE g == Grown + extent - 2
    <3>1. g + 1 = new_end - 1 /\ g \in Int /\ Reach(g, 2, Expanded(new_end))
      BY <2>3, <2>5
    <3> HIDE DEF g
    <3>2. Start \in Nat /\ new_end - 1 >= Start
      BY <2>0, <2>2
    <3>3. new_end - 1 \in g..(g + 2 - 1) /\ new_end - 1 \notin (Start - 2)..(Start - 1)
      BY <2>2, <3>1, <3>2
    <3>4. PageOf(new_end - 1) \in Expanded(new_end)
      BY <3>1, <3>3 DEF Reach
    <3>5. /\ end \in Nat /\ Start <= end /\ AllBacked(end, backed)
          /\ backed \subseteq PageOf(Start)..(PageOf(MaxAddress) - 1)
      BY TypeFacts DEF IInv, TypeOK
    <3>6. AllBacked(new_end, Expanded(new_end))
      BY <2>2, <2>3, <3>4, <3>5, ExpandedIs
    <3>7. Expanded(new_end) \subseteq PageOf(Start)..(PageOf(MaxAddress) - 1)
      BY <2>2, <2>3, <3>4, <3>5, ExpandedIs
    <3> QED BY <1>3, <3>6, <3>7
  <2>7. UNCHANGED <<request, status, live, frees>> /\ end' = new_end
    BY <1>3
  <2>8. TypeOK'
    <3>1. end' \in Start..MaxAddress
      BY <2>0, <2>2, <2>3, <2>7
    <3>2. mem' \in [Words -> 0..(WordLimit - 1)] /\ index' \in Seq(Words)
      BY <2>5 DEF Mem
    <3> QED BY <2>6, <2>7, <3>1, <3>2 DEF IInv, TypeOK
  <2>9. Held(mem', live')
    <3>1. Held(mem, live) /\ Keeps(mem, mem', Headers(live))
      BY <2>5 DEF IInv, U
    <3>2. Held(mem', live)
      BY <2>4, <3>1, HeldKept DEF U
    <3> QED BY <2>7, <3>2
  <2>10. Laid(mem', ToSet(index'), Headers(live'), end') /\ Distinct(index')
    <3>1. Headers(live') = U
      BY <2>7 DEF U
    <3> QED BY <2>5, <2>7, <3>1
  <2>11. Bounds'
    <3>1. Start + MinSize <= end => Start + MinSize <= new_end
      BY <2>0, <2>2
    <3>2. Start < new_end
      BY <2>0, <2>2
    <3> QED BY <2>7, <3>1, <3>2 DEF IInv, Bounds
  <2>12. Keeps(mem, mem', Headers(live))
    BY <2>5 DEF U
  <2> QED BY <2>6, <2>8, <2>9, <2>10, <2>11, <2>12 DEF IInv
<1> QED BY <1>1, <1>2, <1>3

(* What alloc makes of the hole it has found.                              *)
LEMMA PlaceIs ==
  ASSUME IInv, InOrder, Place, status' = "ok"
  PROVE  /\ mem' \in Mem /\ index' \in Seq(Words) /\ Distinct(index')
         /\ Keeps(mem, mem', Headers(live))
         /\ \E h \in ToSet(index) :
               /\ Laid(mem', ToSet(index'), Headers(live) \cup {h}, end)
               /\ request.size + 5 <= SizeAt(mem', h)
               /\ live' = live \cup {[at |-> h + 3, size |-> request.size]}
         /\ request.size \in Sizes /\ request' = << >>
         /\ UNCHANGED <<end, backed, status, frees>>
<1> DEFINE aligned == request.page_align
           asked == request.size + Overhead
           i == FindSmallestHole(asked)
           hole == index[i]
           hole_size == SizeAt(mem, hole)
           slack == Slack(hole_size - asked)
           extent == request.size + slack
           block == IF aligned THEN hole + PageSize - (hole % PageSize) - 3 ELSE hole
           m1 == IF aligned
                 THEN Put(Put(mem, hole, Header(1, Sub(block, hole))), block - 2, Footer(hole))
                 ELSE mem
           rest == IF aligned THEN Sub(hole_size, SizeAt(m1, hole)) ELSE hole_size
           m2 == Put(Put(m1, block, Header(0, asked + slack)), block + 3 + extent, Footer(block))
           left == Sub(rest, asked + slack)
           behind == block + Overhead + extent
           tail == (behind + left - 2) % WordLimit
           m3 == IF left = 0 THEN m2
                 ELSE LET m == Put(m2, behind, Header(1, left))
                      IN  IF tail < end THEN Put(m, tail, Footer(behind)) ELSE m
           index1 == IF aligned THEN index ELSE RemoveAt(index, i)
<1>1. /\ \E m \in {m3, Put(m3, block + 3, [x \in 1..request.size |-> 0])} : mem' = m
      /\ index' = IF left = 0 THEN index1 ELSE Inserted(m3, index1, behind)
      /\ live' = live \cup {[at |-> block + 3, size |-> request.size]}
      /\ request' = << >>
      /\ UNCHANGED <<end, backed, status, frees>>
  BY DEF Place, Halt
<1>2. status = "ok" /\ request # << >> /\ i # 0
  BY DEF Place
<1>3. request.size \in Sizes /\ aligned = FALSE
  <2>1. request \in [size : Sizes, page_align : Aligns]
    BY <1>2 DEF IInv, TypeOK
  <2> QED BY <2>1 DEF InOrder
<1>4. request.size \in Nat /\ asked = request.size + 5
  <2>1. request.size \in Nat \ {0}
    BY <1>3, HeapAssumption
  <2> QED BY <2>1 DEF Overhead
<1> DEFINE n == request.size
           H == ToSet(index)
           U == Headers(live)
<1>5. index \in Seq(Words) /\ Distinct(index) /\ i \in 1..Len(index) /\ SizeAt(mem, hole) >= asked
  <2>1. index \in Seq(Words) /\ Distinct(index)
    BY TypeFacts DEF IInv
  <2>2. request.page_align = FALSE
    BY <1>3
  <2> HIDE DEF asked
  <2> QED BY <1>2, <2>1, <2>2, FindIs
<1>6. hole \in H
  BY <1>5, Members
<1>7. /\ Laid(mem, H, U, end) /\ mem \in Mem /\ end \in Nat /\ end <= MaxAddress
  BY TypeFacts DEF IInv
<1>8. /\ hole \in Nat /\ hole_size \in Nat /\ hole_size >= asked /\ hole + hole_size <= end
      /\ hole_size <= MaxAddress /\ Start \in Nat /\ MaxAddress \in Nat /\ Start <= hole
  <2>1. hole \in Nat /\ hole_size \in Nat /\ hole + hole_size <= end /\ Start <= hole
    BY <1>6, <1>7, ChunkNat
  <2>2. hole_size >= asked
    BY <1>5
  <2> HIDE DEF hole_size, asked
  <2>3. Start \in Nat /\ MaxAddress \in Nat
    BY HeapAssumption
  <2> QED BY <1>7, <2>1, <2>2, <2>3
<1>9. block = hole /\ m1 = mem /\ rest = hole_size /\ index1 = RemoveAt(index, i)
  BY <1>3
<1> HIDE DEF i, hole, hole_size, block, m1, rest, index1, n, H, U, aligned
<1>10. \E c \in Nat : /\ c >= asked /\ mem' \in Mem /\ index' \in Seq(Words) /\ Distinct(index')
                      /\ \E m \in Mem : /\ m = m3 /\ SizeAt(m, hole) = c
                                        /\ Laid(m, ToSet(index'), U \cup {hole}, end)
                                        /\ Keeps(mem, m, U)
  <2>0. mem' \in {m3, Put(m3, hole + 3, [x \in 1..n |-> 0])}
    BY <1>1, <1>9 DEF n
  <2>1. RemoveAt(index, i) \in Seq(Words) /\ Distinct(RemoveAt(index, i))
        /\ ToSet(RemoveAt(index, i)) = H \ {hole}
    BY <1>5, RemovedIs DEF H, hole
  <2>2. ASSUME NEW m \in Mem, m = m3 PROVE mem' \in Mem
    <3>1. hole + 3 \in Int /\ n \in Nat
      BY <1>4, <1>8 DEF n
    <3>2. Put(m3, hole + 3, [x \in 1..n |-> 0]) \in Mem
      BY <2>2, <3>1, PutZeros
    <3> QED BY <2>0, <2>2, <3>2
  <2>3. CASE hole_size - asked < 5
    <3>1. slack = hole_size - asked /\ asked + slack = hole_size
      BY <1>4, <1>8, <2>3 DEF Slack, Overhead
    <3>2. left = 0
      <4>1. hole_size % WordLimit = hole_size % WordLimit /\ 0 % WordLimit = 0
        BY HeapAssumption
      <4>2. left = 0 % WordLimit
        <5> HIDE DEF asked, slack
        <5> QED BY <1>8, <1>9, <3>1 DEF Sub
      <4> QED BY <4>1, <4>2
    <3>3. hole + 3 + extent = hole + hole_size - 2
      BY <1>4, <1>8, <3>1
    <3> DEFINE z == Put(Put(mem, hole, Header(0, hole_size)), hole + hole_size - 2, Footer(hole))
    <3>4. m3 = z
      <4> HIDE DEF left, asked, slack, extent
      <4> QED BY <1>9, <3>1, <3>2, <3>3
    <3>5. /\ z \in Mem /\ SizeAt(z, hole) = hole_size
          /\ Laid(z, H \ {hole}, U \cup {hole}, end) /\ Keeps(mem, z, U)
      BY <1>6, <1>7, PlacedWhole DEF hole_size
    <3>6. index' = RemoveAt(index, i)
      BY <1>1, <1>9, <3>2
    <3> HIDE DEF z, m3, asked
    <3> QED BY <1>8, <2>1, <2>2, <3>4, <3>5, <3>6
  <2>4. CASE hole_size - asked >= 5
    <3>1. slack = 0 /\ asked + slack = asked
      BY <1>4, <1>8, <2>4 DEF Slack, Overhead
    <3> DEFINE b == hole + asked
               l == hole_size - asked
    <3>2. l \in Nat /\ l <= MaxAddress /\ left = l /\ left # 0
      <4>1. l \in Nat /\ l <= MaxAddress /\ l # 0
        BY <1>4, <1>8, <2>4
      <4>2. left = l % WordLimit
        <5> HIDE DEF asked, slack
        <5> QED BY <1>9, <3>1 DEF Sub
      <4> HIDE DEF l, left
      <4> QED BY <4>1, <4>2, Fitting
    <3>3. /\ hole + 3 + extent = b - 2 /\ hole + Overhead + extent = b /\ b + l - 2 = hole + hole_size - 2
          /\ b \in Nat /\ b + l - 2 \in Nat /\ b + l - 2 < end /\ b + l - 2 <= MaxAddress
          /\ b < end /\ Start <= b
      BY <1>4, <1>7, <1>8, <2>4, <3>1 DEF Overhead
    <3> HIDE DEF slack, extent, asked
    <3>4. behind = b
      BY <1>9, <3>3
    <3>5. tail = b + l - 2
      <4>1. (b + l - 2) % WordLimit = b + l - 2
        BY <3>3, Fitting
      <4> HIDE DEF b, l, left, behind
      <4> QED BY <3>2, <3>4, <4>1
    <3> DEFINE z2 == Put(Put(mem, hole, Header(0, asked)), b - 2, Footer(hole))
               z == Put(Put(z2, b, Header(1, l)), b + l - 2, Footer(b))
    <3>6. m3 = z
      <4>1. m2 = z2
        <5> HIDE DEF b
        <5> QED BY <1>9, <3>1, <3>3
      <4> HIDE DEF b, l, left, behind, tail, m2, z2
      <4> QED BY <3>2, <3>3, <3>4, <3>5, <4>1
    <3>7. /\ z \in Mem /\ SizeAt(z, hole) = asked /\ b \notin H \cup U
          /\ Laid(z, (H \ {hole}) \cup {b}, U \cup {hole}, end) /\ Keeps(mem, z, U)
      <4>1. asked \in Nat /\ asked >= 5 /\ SizeAt(mem, hole) - asked >= 5
        BY <1>4, <2>4 DEF hole_size
      <4> QED BY <1>6, <1>7, <4>1, PlacedFront DEF hole_size
    <3>8. index' = Inserted(z, RemoveAt(index, i), b)
      <4> HIDE DEF z, b, left, m3, behind
      <4> QED BY <1>1, <1>9, <3>2, <3>4, <3>6
    <3>9. b \in Words
      <4>1. b \in Int /\ Start - 2 <= b /\ b < MaxAddress
        <5> HIDE DEF b
        <5> QED BY <1>7, <1>8, <3>3
      <4> QED BY <4>1, InHeap
    <3> HIDE DEF z, m3, b
    <3>10. b \notin H \ {hole}
      BY <3>7
    <3>11. /\ index' \in Seq(Words) /\ Distinct(index')
           /\ ToSet(index') = (H \ {hole}) \cup {b}
      BY <2>1, <3>8, <3>9, <3>10, InsertedIs
    <3>12. asked \in Nat /\ asked >= asked
      BY <1>4
    <3> QED BY <2>2, <3>6, <3>7, <3>11, <3>12
  <2>5. hole_size - asked < 5 \/ hole_size - asked >= 5
    <3>1. asked \in Nat
      BY <1>4
    <3> HIDE DEF asked
    <3> QED BY <1>8, <3>1
  <2> QED BY <2>3, <2>4, <2>5
<1> HIDE DEF m3, asked
<1>11. PICK c \in Nat : /\ c >= asked /\ mem' \in Mem /\ index' \in Seq(Words) /\ Distinct(index')
                        /\ \E m \in Mem : /\ m = m3 /\ SizeAt(m, hole) = c
                                          /\ Laid(m, ToSet(index'), U \cup {hole}, end)
                                          /\ Keeps(mem, m, U)
  BY <1>10
<1>12. /\ m3 \in Mem /\ SizeAt(m3, hole) = c /\ Laid(m3, ToSet(index'), U \cup {hole}, end)
       /\ Keeps(mem, m3, U)
  BY <1>11
<1>13. hole \notin U
  BY <1>6, <1>7, NoneBoth
<1>14. /\ Laid(mem', ToSet(index'), U \cup {hole}, end) /\ Keeps(mem, mem', U)
       /\ SizeAt(mem', hole) >= asked
  <2>1. CASE mem' = m3
    BY <1>11, <1>12, <2>1
  <2>2. CASE mem' = Put(m3, hole + 3, [x \in 1..n |-> 0])
    <3> DEFINE V == U \cup {hole}
    <3>1. hole + 3 \in Int /\ n \in Nat /\ c >= n + 5
      BY <1>4, <1>8, <1>11 DEF n
    <3>2. \A x : x \notin (hole + 3)..(hole + 3 + n - 1) => At(mem', x) = At(m3, x)
      BY <1>12, <2>2, <3>1, PutZeros
    <3>3. \A x \in Int : x < hole + 3 \/ hole + c - 2 <= x => At(mem', x) = At(m3, x)
      <4> SUFFICES ASSUME NEW x \in Int, x < hole + 3 \/ hole + c - 2 <= x
                   PROVE  At(mem', x) = At(m3, x)
        OBVIOUS
      <4>1. x \notin (hole + 3)..(hole + 3 + n - 1)
        BY <1>8, <3>1
      <4> QED BY <3>2, <4>1
    <3>4. hole \in V /\ Laid(m3, ToSet(index'), V, end) /\ SizeAt(m3, hole) = c
      BY <1>12
    <3> HIDE DEF V
    <3>5. Laid(mem', ToSet(index'), V, end) /\ Keeps(m3, mem', V \ {hole})
      BY <1>7, <3>3, <3>4, WrittenInside
    <3>6. V \ {hole} = U
      BY <1>13 DEF V
    <3>7. \A h \in U : Sound(mem, h, end)
      BY <1>7, ChunkNat
    <3>8. Keeps(mem, mem', U)
      BY <1>12, <3>5, <3>6, <3>7, KeepsBoth
    <3>9. SizeAt(mem', hole) = c
      <4>1. hole + 2 < hole + 3 /\ hole + 2 \in Int
        BY <1>8
      <4> QED BY <1>12, <3>3, <4>1 DEF SizeAt
    <3> QED BY <1>11, <3>5, <3>8, <3>9 DEF V
  <2> QED BY <1>1, <1>9, <2>1, <2>2 DEF n
<1>15. \E h \in ToSet(index) :
          /\ Laid(mem', ToSet(index'), Headers(live) \cup {h}, end)
          /\ request.size + 5 <= SizeAt(mem', h)
          /\ live' = live \cup {[at |-> h + 3, size |-> request.size]}
  <2>1. SizeAt(mem', hole) \in Nat
    <3>1. hole \in ToSet(index') \cup (U \cup {hole})
      OBVIOUS
    <3> QED BY <1>14, <3>1, ChunkNat
  <2>2. request.size + 5 <= SizeAt(mem', hole)
    BY <1>4, <1>14, <2>1
  <2> QED BY <1>1, <1>6, <1>9, <1>14, <2>2 DEF H, U
<1>16. /\ request' = << >> /\ UNCHANGED <<end, backed, status, frees>>
       /\ mem' \in Mem /\ index' \in Seq(Words) /\ Distinct(index')
  BY <1>1, <1>11
<1> QED BY <1>3, <1>14, <1>15, <1>16 DEF U

LEMMA PlaceIInv == ASSUME IInv, InOrder, Place PROVE IInv' /\ Keeps(mem, mem', Headers(live))
<1>1. ASSUME status' # "ok" PROVE IInv' /\ Keeps(mem, mem', Headers(live))
  <2>1. \E r \in {"assert", "unbacked"} : Halt(r)
    BY <1>1 DEF Place
  <2> QED BY <2>1, HaltIInv DEF Halt, Keeps, Untouched
<1>2. ASSUME status' = "ok" PROVE IInv' /\ Keeps(mem, mem', Headers(live))
  <2> DEFINE n == request.size
  <2>1. /\ mem' \in Mem /\ index' \in Seq(Words) /\ Distinct(index')
        /\ Keeps(mem, mem', Headers(live))
        /\ n \in Sizes /\ request' = << >>
        /\ UNCHANGED <<end, backed, status, frees>>
    BY <1>2, PlaceIs
  <2>2. PICK h \in ToSet(index) :
               /\ Laid(mem', ToSet(index'), Headers(live) \cup {h}, end)
               /\ n + 5 <= SizeAt(mem', h)
               /\ live' = live \cup {[at |-> h + 3, size |-> n]}
    BY <1>2, PlaceIs
  <2> HIDE DEF n
  <2>3. Laid(mem, ToSet(index), Headers(live), end) /\ Held(mem, live) /\ end <= MaxAddress
    BY TypeFacts DEF IInv
  <2>4. h \in Nat /\ h + 3 \in Words /\ h \notin Headers(live)
    <3>1. h \in Nat /\ SizeAt(mem, h) \in Nat /\ SizeAt(mem, h) >= 5 /\ Start <= h /\ h + SizeAt(mem, h) <= end
      BY <2>3, ChunkNat
    <3>2. Start \in Nat /\ MaxAddress \in Nat /\ end \in Nat
      BY HeapAssumption, TypeFacts
    <3>3. h + 3 \in Int /\ Start - 2 <= h + 3 /\ h + 3 < MaxAddress
      BY <2>3, <3>1, <3>2
    <3> QED BY <2>3, <3>1, <3>3, InHeap, NoneBoth
  <2> DEFINE new == [at |-> h + 3, size |-> n]
  <2>5. new.at = h + 3 /\ new.size = n /\ new.at - 3 = h
    BY <2>4
  <2>6. live' = live \cup {new}
    BY <2>2
  <2>7. new \in [at : Words, size : Sizes]
    BY <2>1, <2>4
  <2> HIDE DEF new
  <2>8. Headers(live') = Headers(live) \cup {h}
    BY <2>5, <2>6 DEF Headers
  <2>9. Held(mem', live')
    <3>1. Held(mem', live)
      BY <2>1, <2>3, HeldKept
    <3>2. new.size + 5 <= SizeAt(mem', new.at - 3)
      BY <2>2, <2>5
    <3>3. \A b \in live : b.at # new.at
      BY <2>4, <2>5 DEF Headers
    <3> QED BY <2>6, <3>1, <3>2, <3>3 DEF Held
  <2>10. TypeOK'
    <3>1. live' \subseteq [at : Words, size : Sizes]
      BY <2>6, <2>7 DEF IInv, TypeOK
    <3>2. mem' \in [Words -> 0..(WordLimit - 1)]
      BY <2>1 DEF Mem
    <3> QED BY <2>1, <3>1, <3>2 DEF IInv, TypeOK
  <2>11. AllBacked(end', backed') /\ Bounds'
    BY <2>1 DEF IInv, Bounds
  <2>12. Laid(mem', ToSet(index'), Headers(live'), end')
    BY <2>1, <2>2, <2>8
  <2> QED BY <2>1, <2>9, <2>10, <2>11, <2>12 DEF IInv
<1> QED BY <1>1, <1>2

(* What free leaves, and how much of the heap.                             *)
LEMMA ContractedIs ==
  ASSUME MaxFrees > 0, NEW k \in Nat, Contracted(k) >= k + 5
  PROVE  Contracted(k) \in Nat /\ Contracted(k) % PageSize = 0 /\ Contracted(k) = MinSize
<1> DEFINE A == {MinSize, IF PageOf(k) % 2 = 1 THEN 2 * PageSize ELSE k}
<1>1. /\ MinSize \in Nat /\ MinSize % PageSize = 0 /\ 2 * PageSize <= MinSize
      /\ PageSize \in Nat
  BY HeapAssumption, LeastSizeAssumption
<1>2. A \in SUBSET Nat /\ A # {}
  BY <1>1
<1> DEFINE top == MinSize + k
<1>3. top \in Nat /\ \A x \in A : x <= top
  BY <1>1
<1>4. Max(A) \in A /\ \A x \in A : x <= Max(A)
  BY <1>2, <1>3, MaxIs
<1>5. Contracted(k) = Max(A)
  BY DEF Contracted
<1>6. MinSize <= Max(A) /\ (Max(A) = MinSize \/ Max(A) = 2 * PageSize \/ Max(A) = k)
  BY <1>4
<1> HIDE DEF A
<1>7. Max(A) # k
  BY <1>5
<1>8. Max(A) = MinSize
  BY <1>1, <1>6, <1>7
<1> QED BY <1>1, <1>5, <1>8

LEMMA FreeIs ==
  ASSUME IInv, InOrder, NEW b \in live, Harmless(b.at), Free(b.at), status' = "ok"
  PROVE  /\ mem' \in Mem /\ index' \in Seq(Words) /\ Distinct(index')
         /\ Laid(mem', ToSet(index'), Headers(live) \ {b.at - 3}, end')
         /\ Keeps(mem, mem', Headers(live) \ {b.at - 3})
         /\ Start < end' /\ end' <= MaxAddress /\ end' \in Nat /\ Start + MinSize <= end'
         /\ AllBacked(end', backed') /\ backed' \subseteq backed
         /\ live' = {c \in live : c.at # b.at} /\ frees' = frees + 1 /\ frees < MaxFrees
         /\ UNCHANGED <<request, status>>
<1> DEFINE own == b.at - 3
           footer == own + SizeAt(mem, own) - 2
           front == At(mem, own - 1)
           m1 == Put(mem, own + 1, <<1>>)
           joins == Joins(m1, own)
           header == IF joins THEN front ELSE own
           m2 == IF joins
                 THEN Put(Put(m1, footer + 1, <<front>>), front + 2,
                          <<Add(SizeAt(m1, front), SizeAt(m1, own))>>)
                 ELSE m1
           behind == footer + 2
           eats == EatsHole(m2, behind)
           m3 == IF eats THEN Put(m2, header + 2, <<Add(SizeAt(m2, header), SizeAt(m2, behind))>>)
                 ELSE m2
           chunk_end == IF eats THEN behind + SizeAt(m3, behind) ELSE behind
           index3 == Unlisted(index, eats, behind)
           at_end == chunk_end = end
           length == IF at_end THEN Contracted(header - Start) ELSE end - Start
           extent == Sub(SizeAt(m3, header), (end - Start) - length)
           m4 == IF at_end /\ extent # 0
                 THEN Put(Put(m3, header + 2, <<extent>>), header + extent - 2, Footer(header))
                 ELSE m3
           index4 == Unlisted(index3, at_end /\ extent = 0, behind)
           pages == IF at_end THEN backed \ GivenBack(length) ELSE backed
<1>1. /\ eats => behind \in ToSet(index)
      /\ at_end => header \in Start..(end - 1)
      /\ mem' = m4
      /\ end' = Start + length
      /\ backed' = pages
      /\ index' = IF joins THEN index4 ELSE Inserted(m4, index4, header)
      /\ live' = {c \in live : c.at # b.at}
      /\ frees' = frees + 1
      /\ UNCHANGED <<request, status>>
  BY DEF Free, Halt
<1>2. frees < MaxFrees /\ frees \in Nat /\ MaxFrees \in Nat /\ MaxFrees > 0
  <2>1. frees < MaxFrees
    BY DEF Free
  <2>2. frees \in 0..MaxFrees
    BY DEF IInv, TypeOK
  <2> QED BY <2>1, <2>2, HeapAssumption
<1> DEFINE H == ToSet(index)
           U == Headers(live)
           V == U \ {own}
<1>3. /\ Laid(mem, H, U, end) /\ mem \in Mem /\ end \in Nat /\ end <= MaxAddress /\ own \in U
      /\ index \in Seq(Words) /\ Distinct(index)
  BY TypeFacts DEF IInv
<1>4. /\ m2 \in Mem /\ Laid(m2, H \cup {header}, V, end) /\ Keeps(mem, m2, V)
      /\ joins <=> Joins(mem, own)
      /\ joins => header \in H
      /\ ~joins => header = own
      /\ own \notin H /\ behind = own + SizeAt(mem, own) /\ behind \in Nat /\ behind <= end
      /\ header \in Nat /\ Start <= header /\ header + 5 <= behind
      /\ header + SizeAt(m2, header) = behind
      /\ \A x \in Int : behind <= x => At(m2, x) = At(mem, x)
  <2>1. mem \in Mem /\ own \in U /\ Laid(mem, H, U, end) /\ end \in Nat /\ end <= MaxAddress
    BY <1>3
  <2> HIDE DEF H, U, own
  <2>2. /\ m2 \in Mem /\ Laid(m2, H \cup {header}, U \ {own}, end) /\ Keeps(mem, m2, U \ {own})
        /\ joins <=> Joins(mem, own)
        /\ joins => header \in H
        /\ ~joins => header = own
        /\ own \notin H /\ behind = own + SizeAt(mem, own) /\ behind \in Nat /\ behind <= end
        /\ header \in Nat /\ Start <= header /\ header + 5 <= behind
        /\ header + SizeAt(m2, header) = behind
        /\ \A x \in Int : behind <= x => At(m2, x) = At(mem, x)
    <3>1. /\ (joins <=> JoinsFreed(mem, own)) /\ header = HeaderFreed(mem, own)
          /\ m2 = MemFreed(mem, own) /\ behind = BehindFreed(mem, own)
      BY DEF JoinsFreed, HeaderFreed, MemFreed, BehindFreed
    <3>2. IsFreed(mem, MemFreed(mem, own), H, U, end, own, JoinsFreed(mem, own),
                  HeaderFreed(mem, own), BehindFreed(mem, own))
      BY <2>1, Released
    <3> HIDE DEF joins, header, m2, behind
    <3> QED BY <3>1, <3>2 DEF IsFreed
  <2> QED BY <2>2 DEF V
<1> DEFINE header0 == IF Joins(mem, own) THEN At(mem, own - 1) ELSE own
           behind0 == own + SizeAt(mem, own)
           ends == IF behind0 \in ToSet(index) THEN behind0 + SizeAt(mem, behind0) ELSE behind0
<1>5. /\ behind0 \in ToSet(index) => ends = end
      /\ ends = end => Contracted(header0 - Start) >= header0 - Start + Overhead
  BY DEF Harmless
<1>6. behind0 = behind /\ header0 = header
  BY <1>4
<1> HIDE DEF m2, behind, header, header0, behind0, H, U, V, own, joins, footer
<1>7. Start \in Nat /\ MaxAddress \in Nat /\ MinSize \in Nat /\ Start + MinSize <= end /\ Start < end
      /\ MinSize >= 1
  BY <1>2, HeapAssumption, LeastSizeAssumption DEF IInv, Bounds
<1>8. header < behind /\ header \in H \cup {header} /\ header \in Words /\ behind # header
  <2>1. header < behind /\ behind # header
    BY <1>4
  <2>2. header \in Int /\ Start - 2 <= header /\ header < MaxAddress
    BY <1>3, <1>4, <1>7, <2>1
  <2> QED BY <2>1, <2>2, InHeap
<1> DEFINE H3 == IF eats THEN (H \cup {header}) \ {behind} ELSE H \cup {header}
<1>9. SizeAt(m2, header) \in Nat /\ SizeAt(m2, header) = behind - header
  <2>1. SizeAt(m2, header) \in Nat
    BY <1>4, <1>8, ChunkNat
  <2> QED BY <1>4, <2>1
(* A hole behind the block ends the heap.                                  *)
<1>10. ASSUME eats
       PROVE  /\ behind \in H /\ behind + SizeAt(mem, behind) = end
              /\ SizeAt(m2, behind) = SizeAt(mem, behind) /\ SizeAt(m2, behind) \in Nat
              /\ SizeAt(m3, behind) = SizeAt(m2, behind) /\ at_end
              /\ SizeAt(m3, header) = end - header /\ behind < end /\ ends = end
              /\ \E v \in 0..(WordLimit - 1) : m3 = Put(m2, header + 2, <<v>>)
  <2>1. behind \in H
    BY <1>1, <1>10 DEF H
  <2>2. behind + SizeAt(mem, behind) = end /\ ends = end
    BY <1>5, <1>6, <2>1 DEF H
  <2>3. SizeAt(m2, behind) = SizeAt(mem, behind)
    <3>1. behind + 2 \in Int /\ behind <= behind + 2
      BY <1>4
    <3> QED BY <1>4, <3>1 DEF SizeAt
  <2>4. SizeAt(m2, behind) \in Nat /\ SizeAt(m2, behind) >= 5
    BY <1>4, <2>1, ChunkNat
  <2> DEFINE t == SizeAt(m2, header) + SizeAt(m2, behind)
  <2>5. t \in Nat /\ t = end - header /\ t <= MaxAddress /\ behind < end
    <3>1. t = (behind - header) + SizeAt(m2, behind)
      BY <1>9
    <3>2. header \in Nat /\ behind \in Nat /\ header < behind
      BY <1>4, <1>8
    <3>3. end \in Nat /\ end <= MaxAddress /\ MaxAddress \in Nat
      BY <1>3, <1>7
    <3>4. behind + SizeAt(m2, behind) = end
      BY <2>2, <2>3
    <3> HIDE DEF t
    <3> QED BY <2>4, <3>1, <3>2, <3>3, <3>4
  <2>6. m3 = Put(m2, header + 2, <<t>>) /\ t \in 0..(WordLimit - 1)
    <3>1. t \in 0..(WordLimit - 1) /\ t % WordLimit = t
      BY <2>5, Fitting
    <3> QED BY <1>10, <3>1 DEF Add
  <2>7. header + 2 \in Words
    <3>1. header + 2 \in Int /\ Start - 2 <= header + 2 /\ header + 2 < MaxAddress
      BY <1>3, <1>4, <1>7
    <3> QED BY <3>1, InHeap
  <2> HIDE DEF t, m3
  <2> DEFINE z == Put(m2, header + 2, <<t>>)
  <2>8. At(m3, header + 2) = t /\ \A x : x # header + 2 => At(m3, x) = At(m2, x)
    <3>1. At(z, header + 2) = t /\ \A x : x # header + 2 => At(z, x) = At(m2, x)
      <4>1. m2 \in Mem /\ t \in 0..(WordLimit - 1)
        BY <1>4, <2>6
      <4> QED BY <2>7, <4>1, PutWord
    <3> HIDE DEF z
    <3> QED BY <2>6, <3>1 DEF z
  <2>9. SizeAt(m3, behind) = SizeAt(m2, behind)
    <3>1. behind + 2 # header + 2
      BY <1>4, <1>8
    <3> QED BY <2>8, <3>1 DEF SizeAt
  <2>10. at_end
    BY <1>10, <2>2, <2>3, <2>9
  <2>11. SizeAt(m3, header) = end - header
    BY <2>5, <2>8 DEF SizeAt
  <2> QED BY <2>1, <2>2, <2>3, <2>4, <2>5, <2>6, <2>9, <2>10, <2>11
<1>11. ASSUME ~eats PROVE m3 = m2 /\ chunk_end = behind /\ index3 = index
  BY <1>11 DEF Unlisted
(* A block behind it, and nothing happens to the end of the heap.          *)
<1>12. ASSUME ~eats, at_end PROVE behind = end /\ ends = end /\ SizeAt(m3, header) = end - header
  <2>1. behind = end
    BY <1>11, <1>12
  <2>2. behind \notin H
    <3>1. ASSUME behind \in H PROVE FALSE
      <4>1. SizeAt(mem, behind) \in Nat /\ SizeAt(mem, behind) >= 5 /\ behind + SizeAt(mem, behind) <= end
        BY <1>3, <3>1, ChunkNat
      <4> QED BY <1>3, <2>1, <4>1
    <3> QED BY <3>1
  <2>3. ends = end
    BY <1>6, <2>1, <2>2 DEF H
  <2> QED BY <1>9, <1>11, <1>12, <2>1, <2>3
(* The last hole, or what is left of it.                                   *)
<1>13. ASSUME at_end
       PROVE  /\ m4 \in Mem /\ Laid(m4, H3, V, end') /\ Keeps(mem, m4, V)
              /\ extent # 0 /\ length = MinSize /\ length % PageSize = 0 /\ end' <= end
  <2> DEFINE k == header - Start
             t == Start + length - header
  <2>1. ends = end /\ SizeAt(m3, header) = end - header
    BY <1>10, <1>12, <1>13
  <2>2. length = Contracted(k)
    BY <1>13
  <2>3. k \in Nat /\ Contracted(k) >= k + 5
    BY <1>4, <1>5, <1>6, <1>7, <2>1 DEF Overhead
  <2>4. length \in Nat /\ length % PageSize = 0 /\ length = MinSize /\ length >= k + 5
    <3> HIDE DEF k, length
    <3> QED BY <1>2, <2>2, <2>3, ContractedIs
  <2>5. end' = Start + length
    BY <1>1
  <2> HIDE DEF length
  <2>6. end' <= end /\ end' \in Nat /\ header + t = end' /\ t \in Nat /\ t >= 5 /\ t <= MaxAddress
        /\ t = (end - header) - ((end - Start) - length)
    <3>1. /\ header \in Nat /\ Start \in Nat /\ end \in Nat /\ MaxAddress \in Nat
          /\ Start + MinSize <= end /\ end <= MaxAddress /\ Start <= header
      BY <1>3, <1>4, <1>7, <2>3
    <3>2. header + t = Start + length /\ t \in Int /\ length >= header - Start + 5
      BY <2>4, <3>1
    <3>3. t = (end - header) - ((end - Start) - length)
      BY <2>4, <3>1
    <3> HIDE DEF t, k
    <3> QED BY <2>4, <2>5, <3>1, <3>2, <3>3
  <2>7. extent = t
    <3>1. t % WordLimit = t
      <4> HIDE DEF t
      <4> QED BY <2>6, Fitting
    <3>2. extent = ((end - header) - ((end - Start) - length)) % WordLimit
      BY <2>1 DEF Sub
    <3> HIDE DEF t, extent
    <3> QED BY <2>6, <3>1, <3>2
  <2>8. extent # 0
    <3> HIDE DEF t, extent
    <3> QED BY <2>6, <2>7
  <2> DEFINE r == Put(Put(m3, header + 2, <<t>>), header + t - 2, Footer(header))
  <2>9. m4 = r
    <3> HIDE DEF t, extent
    <3> QED BY <1>13, <2>7, <2>8
  <2> DEFINE B == IF eats THEN {behind} ELSE {}
             G == H \cup {header}
  <2>10. /\ B \in SUBSET G /\ header \notin B
         /\ Within(m2, G, V, (G \cup V) \ ({header} \cup B), header, end)
    <3>1. header \in G \cup V /\ Laid(m2, G, V, end)
      BY <1>4
    <3>2. CASE eats
      <4>1. behind \in G \cup V /\ behind \in G
        BY <1>10, <3>2
      <4>2. Within(m2, G, V, (G \cup V) \ {header, behind}, header, behind + SizeAt(m2, behind))
        <5> HIDE DEF G
        <5> QED BY <1>4, <3>1, <4>1, Pair
      <4>3. behind + SizeAt(m2, behind) = end
        BY <1>10, <3>2
      <4>4. B = {behind} /\ {header} \cup B = {header, behind}
        BY <3>2
      <4> HIDE DEF B, G
      <4> QED BY <1>8, <4>1, <4>2, <4>3, <4>4
    <3>3. CASE ~eats
      <4>1. Within(m2, G, V, (G \cup V) \ {header}, header, header + SizeAt(m2, header))
        <5> HIDE DEF G
        <5> QED BY <3>1, Alone
      <4>2. header + SizeAt(m2, header) = end
        BY <1>4, <1>12, <1>13, <3>3
      <4>3. B = {} /\ {header} \cup B = {header}
        BY <3>3
      <4> HIDE DEF B, G
      <4> QED BY <4>1, <4>2, <4>3
    <3> QED BY <3>2, <3>3
  <2>11. m3 \in Mem /\ \A x : x # header + 2 => At(m3, x) = At(m2, x)
    <3>1. CASE eats
      <4>1. PICK v \in 0..(WordLimit - 1) : m3 = Put(m2, header + 2, <<v>>)
        BY <1>10, <3>1
      <4>2. header + 2 \in Words
        <5>1. header + 2 \in Int /\ Start - 2 <= header + 2 /\ header + 2 < MaxAddress
          BY <1>3, <1>4, <1>7
        <5> QED BY <5>1, InHeap
      <4> DEFINE z == Put(m2, header + 2, <<v>>)
      <4>3. z \in Mem /\ \A x : x # header + 2 => At(z, x) = At(m2, x)
        BY <1>4, <4>1, <4>2, PutWord
      <4> HIDE DEF z, m3
      <4> QED BY <4>1, <4>3 DEF z
    <3>2. CASE ~eats
      BY <1>4, <1>11, <3>2
    <3> QED BY <3>1, <3>2
  <2> HIDE DEF B, G, t, m3
  <2>12. r \in Mem /\ Laid(r, G \ B, V, header + t) /\ Keeps(m2, r, V)
    <3>1. /\ m2 \in Mem /\ header \in G /\ Laid(m2, G, V, end) /\ header < end /\ end \in Nat
          /\ end <= MaxAddress
      BY <1>3, <1>4, <1>8 DEF G
    <3>2. t \in Nat /\ t >= 5 /\ header + t <= end
      BY <2>6
    <3> QED BY <2>10, <2>11, <3>1, <3>2, Shrunk
  <2>13. G \ B = H3
    BY DEF G, B
  <2>14. Keeps(mem, r, V)
    <3>1. \A h \in V : Sound(mem, h, end)
      BY <1>3, ChunkNat DEF V
    <3> HIDE DEF r
    <3> QED BY <1>4, <2>12, <3>1, KeepsBoth
  <2> HIDE DEF r, H3, m4
  <2> QED BY <2>4, <2>6, <2>8, <2>9, <2>12, <2>13, <2>14
<1>14. ASSUME ~at_end
       PROVE  /\ ~eats /\ m4 \in Mem /\ Laid(m4, H3, V, end') /\ Keeps(mem, m4, V) /\ end' = end
              /\ pages = backed
  <2>1. ~eats
    BY <1>10, <1>14
  <2>2. m4 = m2 /\ H3 = H \cup {header} /\ pages = backed
    BY <1>11, <1>14, <2>1
  <2>3. end' = end
    <3>1. end' = Start + (end - Start)
      BY <1>1, <1>14
    <3> QED BY <1>3, <1>7, <3>1
  <2> HIDE DEF m4, H3, at_end, eats, pages
  <2> QED BY <1>4, <2>1, <2>2, <2>3
<1> HIDE DEF H3, m4, m3
<1>15. index' \in Seq(Words) /\ Distinct(index') /\ ToSet(index') = H3
  <2>1. eats \in BOOLEAN
    BY DEF EatsHole
  <2>2. index4 = index3
    <3>1. ~(at_end /\ extent = 0)
      BY <1>13
    <3> HIDE DEF at_end, extent, index3
    <3> QED BY <3>1 DEF Unlisted
  <2> HIDE DEF eats, index4
  <2>3. /\ index3 \in Seq(Words) /\ Distinct(index3)
        /\ ToSet(index3) = IF eats THEN H \ {behind} ELSE H
    BY <1>3, <2>1, UnlistedIs DEF H
  <2> HIDE DEF index3
  <2>4. CASE joins
    <3>1. index' = index3 /\ header \in H
      BY <1>1, <1>4, <2>2, <2>4
    <3> QED BY <1>8, <2>3, <3>1 DEF H3
  <2>5. CASE ~joins
    <3>1. index' = Inserted(m4, index3, header) /\ header \notin H
      BY <1>1, <1>4, <2>2, <2>5
    <3>2. header \notin ToSet(index3)
      BY <2>3, <3>1
    <3>3. index' \in Seq(Words) /\ Distinct(index') /\ ToSet(index') = ToSet(index3) \cup {header}
      BY <1>8, <2>3, <3>1, <3>2, InsertedIs
    <3> QED BY <1>8, <2>3, <3>3 DEF H3
  <2> QED BY <2>4, <2>5
<1>16. AllBacked(end', backed') /\ backed' \subseteq backed
  <2>1. AllBacked(end, backed)
    BY DEF IInv
  <2>2. CASE at_end
    <3>1. backed' = backed \ GivenBack(length) /\ end' = Start + length
      BY <1>1, <2>2
    <3>2. length \in Nat /\ length % PageSize = 0 /\ Start + length <= end
      BY <1>7, <1>13, <2>2, <3>1
    <3> HIDE DEF length, at_end
    <3> QED BY <1>3, <2>1, <3>1, <3>2, GivenBackIs
  <2>3. CASE ~at_end
    BY <1>1, <1>14, <2>1, <2>3
  <2> QED BY <2>2, <2>3
<1> HIDE DEF at_end, eats, length, extent, pages, index3, index4
<1>17. /\ Start < end' /\ end' <= MaxAddress /\ end' \in Nat /\ Start + MinSize <= end'
  <2>1. CASE at_end
    <3>1. end' = Start + MinSize /\ end' <= end
      BY <1>1, <1>13, <2>1
    <3> QED BY <1>3, <1>7, <3>1
  <2>2. CASE ~at_end
    BY <1>3, <1>7, <1>14, <2>2
  <2> QED BY <2>1, <2>2
<1>18. mem' \in Mem /\ Laid(mem', H3, V, end') /\ Keeps(mem, mem', V)
  BY <1>1, <1>13, <1>14
<1>19. V = Headers(live) \ {b.at - 3}
  BY DEF V, U, own
<1> QED BY <1>1, <1>2, <1>15, <1>16, <1>17, <1>18, <1>19

LEMMA FreeIInv ==
  ASSUME IInv, InOrder, NEW b \in live, (AnyOrder \/ Harmless(b.at)) /\ Free(b.at)
  PROVE  /\ IInv'
         /\ live' \subseteq live /\ Keeps(mem, mem', Headers(live'))
         /\ live' = live \/ live' = live \ {b}
<1>1. ASSUME status' # "ok" PROVE IInv' /\ live' = live /\ Keeps(mem, mem', Headers(live'))
  <2>1. \E r \in {"assert", "unbacked"} : Halt(r)
    <3>1. Free(b.at) /\ status = "ok"
      BY DEF Free
    <3> QED BY <1>1, <3>1 DEF Free
  <2> QED BY <2>1, HaltIInv DEF Halt, Keeps, Untouched
<1>2. ASSUME status' = "ok"
      PROVE  IInv' /\ live' = live \ {b} /\ Keeps(mem, mem', Headers(live'))
  <2> DEFINE V == Headers(live) \ {b.at - 3}
  <2>1. /\ mem' \in Mem /\ index' \in Seq(Words) /\ Distinct(index')
        /\ Laid(mem', ToSet(index'), V, end') /\ Keeps(mem, mem', V)
        /\ Start < end' /\ end' <= MaxAddress /\ end' \in Nat /\ Start + MinSize <= end'
        /\ AllBacked(end', backed') /\ backed' \subseteq backed
        /\ live' = {c \in live : c.at # b.at} /\ frees' = frees + 1 /\ frees < MaxFrees
        /\ UNCHANGED <<request, status>>
    <3>1. Harmless(b.at) /\ Free(b.at)
      BY DEF InOrder
    <3> QED BY <1>2, <3>1, FreeIs
  <2>2. Headers(live') = V
    <3>1. \A c \in live : c.at \in Int /\ (c.at - 3 = b.at - 3 <=> c.at = b.at)
      <4> SUFFICES ASSUME NEW c \in live
                   PROVE  c.at \in Int /\ (c.at - 3 = b.at - 3 <=> c.at = b.at)
        OBVIOUS
      <4>1. c.at \in Int /\ b.at \in Int
        BY TypeFacts
      <4> QED BY <4>1
    <3> QED BY <2>1, <3>1 DEF Headers
  <2>3. live' = live \ {b} /\ live' \subseteq live
    BY <2>1 DEF IInv, Held
  <2> HIDE DEF V
  <2>4. Held(mem', live')
    <3>1. /\ Laid(mem, ToSet(index), Headers(live), end) /\ Held(mem, live)
          /\ Headers(live') \subseteq Headers(live)
      BY <2>2 DEF IInv, V
    <3> QED BY <2>1, <2>2, <2>3, <3>1, HeldKept
  <2>5. TypeOK'
    <3>1. end' \in Start..MaxAddress /\ frees' \in 0..MaxFrees
      <4>1. frees \in 0..MaxFrees /\ MaxFrees \in Nat /\ Start \in Nat /\ MaxAddress \in Nat
        BY HeapAssumption DEF IInv, TypeOK
      <4> QED BY <2>1, <4>1
    <3>2. mem' \in [Words -> 0..(WordLimit - 1)]
      BY <2>1 DEF Mem
    <3>3. /\ backed' \subseteq PageOf(Start)..(PageOf(MaxAddress) - 1)
          /\ live' \subseteq [at : Words, size : Sizes]
      BY <2>1, <2>3 DEF IInv, TypeOK
    <3> QED BY <2>1, <3>1, <3>2, <3>3 DEF IInv, TypeOK
  <2>6. Bounds'
    BY <2>1 DEF Bounds
  <2> QED BY <2>1, <2>2, <2>3, <2>4, <2>5, <2>6 DEF IInv
<1> QED BY <1>1, <1>2

LEMMA NextIInv == ASSUME IInv, InOrder, [Next]_vars PROVE IInv'
<1>1. ASSUME NEW extent \in Sizes, NEW a \in Aligns, Alloc(extent, a) PROVE IInv'
  BY <1>1, AllocIInv
<1>2. ASSUME (AnyOrder \/ HarmlessGrowth) /\ Grow PROVE IInv'
  BY <1>2, GrowIInv
<1>3. ASSUME Place PROVE IInv'
  BY <1>3, PlaceIInv
<1>4. ASSUME NEW b \in live, (AnyOrder \/ Harmless(b.at)) /\ Free(b.at) PROVE IInv'
  BY <1>4, FreeIInv
<1>5. ASSUME UNCHANGED vars PROVE IInv'
  <2>1. /\ UNCHANGED <<mem, index, end, backed, live>>
        /\ UNCHANGED <<request, status, frees>>
    BY <1>5 DEF vars
  <2>2. TypeOK'
    BY <2>1 DEF IInv, TypeOK
  <2>3. /\ Laid(mem', ToSet(index'), Headers(live'), end') /\ Distinct(index') /\ Held(mem', live')
        /\ AllBacked(end', backed')
    BY <2>1 DEF IInv
  <2>4. Bounds'
    BY <2>1 DEF IInv, Bounds
  <2> QED BY <2>2, <2>3, <2>4 DEF IInv
<1> QED BY <1>1, <1>2, <1>3, <1>4, <1>5 DEF Next
-----------------------------------------------------------------------------
(* Whatever is allocated and freed in that order, every variable of the    *)
(* heap keeps its range: addresses stay in the heap and sizes fit a word.  *)
THEOREM SpecTypeOK == InOrder => (Spec => []TypeOK)
<1> SUFFICES ASSUME InOrder PROVE Spec => []TypeOK
  OBVIOUS
<1>1. Init => IInv
  BY InitIInv
<1>2. IInv /\ [Next]_vars => IInv'
  BY NextIInv
<1>3. IInv => TypeOK
  BY DEF IInv
<1> QED BY <1>1, <1>2, <1>3, PTL DEF Spec

LEMMA ChunksApart ==
  ASSUME NEW H, NEW U, NEW e, Laid(mem, H, U, e), NEW g \in H \cup U, NEW h \in H \cup U, g # h
  PROVE  Chunk(g) \cap Chunk(h) = {}
<1>1. g \in Nat /\ SizeAt(mem, g) \in Nat /\ h \in Nat /\ SizeAt(mem, h) \in Nat
  BY ChunkNat
<1>2. (g < h => g + SizeAt(mem, g) <= h) /\ (h < g => h + SizeAt(mem, h) <= g)
  BY DEF Laid, Apart
<1> QED BY <1>1, <1>2 DEF Chunk

LEMMA ChunkWithin ==
  ASSUME NEW H, NEW U, NEW e \in Nat, Laid(mem, H, U, e), NEW h \in H \cup U
  PROVE  Chunk(h) \subseteq Start..(e - 1)
<1>1. h \in Nat /\ SizeAt(mem, h) \in Nat /\ Start <= h /\ h + SizeAt(mem, h) <= e
  BY ChunkNat
<1>2. Start \in Nat
  BY HeapAssumption
<1> QED BY <1>1, <1>2 DEF Chunk

LEMMA BlockIs ==
  ASSUME IInv, NEW b \in live
  PROVE  LET h == b.at - 3
         IN  /\ h \in Headers(live) /\ h \in Nat /\ b.at = h + 3 /\ b.size \in Nat /\ b.size > 0
             /\ SizeAt(mem, h) \in Nat /\ b.size + 5 <= SizeAt(mem, h)
             /\ IsUsed(mem, h, end)
<1> DEFINE h == b.at - 3
<1>1. h \in Headers(live) /\ b.at \in Int /\ b.size \in Nat /\ b.size > 0
  BY TypeFacts
<1>2. Laid(mem, ToSet(index), Headers(live), end) /\ b.size + 5 <= SizeAt(mem, h)
  BY DEF IInv, Held
<1>3. h \in Nat /\ SizeAt(mem, h) \in Nat /\ IsUsed(mem, h, end)
  <2> HIDE DEF h
  <2> QED BY <1>1, <1>2, ChunkNat DEF Laid
<1>4. b.at = h + 3
  BY <1>1
<1> QED BY <1>1, <1>2, <1>3, <1>4

LEMMA FramesKept == IInv => HeadersIntact
<1> SUFFICES ASSUME IInv, NEW b \in live
             PROVE  LET h == b.at - 3
                    IN  /\ At(mem, h) = Magic /\ At(mem, h + 1) = 0 /\ SizeAt(mem, h) >= b.size + 5
                        /\ At(mem, h + SizeAt(mem, h) - 2) = Magic
                        /\ At(mem, h + SizeAt(mem, h) - 1) = h
  BY DEF HeadersIntact
<1> DEFINE h == b.at - 3
<1>1. IsUsed(mem, h, end) /\ SizeAt(mem, h) \in Nat /\ b.size + 5 <= SizeAt(mem, h) /\ b.size \in Nat
  BY BlockIs
<1> HIDE DEF h
<1>2. /\ At(mem, h) = Magic /\ At(mem, h + 1) = 0 /\ SizeAt(mem, h) >= b.size + 5
      /\ At(mem, h + SizeAt(mem, h) - 2) = Magic
      /\ At(mem, h + SizeAt(mem, h) - 1) = h
  BY <1>1 DEF IsUsed, Sound, Framed
<1> QED BY <1>2 DEF h

LEMMA Divided == IInv => SpaceDivided
<1> SUFFICES ASSUME IInv PROVE SpaceDivided
  OBVIOUS
<1> DEFINE H == ToSet(index)
           U == Headers(live)
<1>1. Laid(mem, H, U, end) /\ end \in Nat /\ index \in Seq(Words) /\ Distinct(index)
  BY TypeFacts DEF IInv
<1>2. H \cap U = {}
  BY <1>1, NoneBoth
<1>3. ASSUME NEW b \in live
      PROVE  LET h == b.at - 3
             IN  Payload(b) \subseteq Chunk(h) /\ Chunk(h) \subseteq Start..(end - 1)
                 /\ Reach(h, SizeAt(mem, h), backed)
                 /\ \A c \in live : b # c => Chunk(h) \cap Chunk(c.at - 3) = {}
  <2> DEFINE h == b.at - 3
  <2>1. /\ h \in U /\ h \in Nat /\ b.at = h + 3 /\ b.size \in Nat
        /\ SizeAt(mem, h) \in Nat /\ b.size + 5 <= SizeAt(mem, h)
    BY BlockIs
  <2>2. \A c \in live : b # c => c.at - 3 \in U /\ c.at - 3 # h
    <3> SUFFICES ASSUME NEW c \in live, b # c PROVE c.at - 3 \in U /\ c.at - 3 # h
      OBVIOUS
    <3>1. c.at - 3 \in U /\ c.at \in Int /\ b.at \in Int /\ c.at # b.at
      BY TypeFacts DEF IInv, Held
    <3> QED BY <3>1
  <2> HIDE DEF h
  <2>3. Payload(b) \subseteq Chunk(h)
    BY <2>1 DEF Payload, Chunk
  <2>4. Chunk(h) \subseteq Start..(end - 1)
    BY <1>1, <2>1, ChunkWithin
  <2>5. Reach(h, SizeAt(mem, h), backed)
    BY <2>4 DEF IInv, AllBacked, Reach, Chunk
  <2>6. \A c \in live : b # c => Chunk(h) \cap Chunk(c.at - 3) = {}
    <3> SUFFICES ASSUME NEW c \in live, b # c PROVE Chunk(h) \cap Chunk(c.at - 3) = {}
      OBVIOUS
    <3> DEFINE g == c.at - 3
    <3>1. g \in U /\ g # h
      BY <2>2
    <3> HIDE DEF g
    <3>2. Chunk(h) \cap Chunk(g) = {}
      BY <1>1, <2>1, <3>1, ChunksApart
    <3> QED BY <3>2 DEF g
  <2> QED BY <2>3, <2>4, <2>5, <2>6 DEF h
<1>4. ASSUME NEW i \in 1..Len(index)
      PROVE  /\ At(mem, index[i]) = Magic /\ At(mem, index[i] + 1) = 1
             /\ Chunk(index[i]) \subseteq Start..(end - 1)
             /\ \A b \in live : Chunk(index[i]) \cap Chunk(b.at - 3) = {}
             /\ \A j \in 1..Len(index) : i # j => Chunk(index[i]) \cap Chunk(index[j]) = {}
  <2> DEFINE g == index[i]
  <2>1. g \in H /\ \A j \in 1..Len(index) : i # j => index[j] \in H /\ index[j] # g
    BY <1>1, Members DEF Distinct
  <2>2. \A b \in live : b.at - 3 \in U
    BY TypeFacts
  <2> HIDE DEF g, H, U
  <2>3. At(mem, g) = Magic /\ At(mem, g + 1) = 1
    BY <1>1, <2>1 DEF Laid, IsHole, Sound
  <2>4. Chunk(g) \subseteq Start..(end - 1)
    BY <1>1, <2>1, ChunkWithin
  <2>5. \A h \in H \cup U : h # g => Chunk(g) \cap Chunk(h) = {}
    BY <1>1, <2>1, ChunksApart
  <2>6. \A b \in live : Chunk(g) \cap Chunk(b.at - 3) = {}
    <3>1. g \notin U
      BY <1>2, <2>1
    <3> QED BY <2>2, <2>5, <3>1
  <2>7. \A j \in 1..Len(index) : i # j => Chunk(g) \cap Chunk(index[j]) = {}
    BY <2>1, <2>5
  <2> QED BY <2>3, <2>4, <2>6, <2>7 DEF g
<1> QED BY <1>3, <1>4 DEF SpaceDivided

LEMMA NothingLost == IInv => Conserved
<1> SUFFICES ASSUME IInv, NEW x \in Start..(end - 1)
             PROVE  \/ \E h \in ToSet(index) : x \in Chunk(h)
                    \/ \E b \in live : x \in Chunk(b.at - 3)
  BY DEF Conserved
<1>1. Laid(mem, ToSet(index), Headers(live), end)
  BY DEF IInv
<1>2. PICK h \in ToSet(index) \cup Headers(live) : h <= x /\ x < h + SizeAt(mem, h)
  BY <1>1 DEF Laid, Covers
<1>3. h \in Nat /\ SizeAt(mem, h) \in Nat /\ x \in Int
  BY <1>1, ChunkNat, HeapAssumption
<1>4. x \in Chunk(h)
  BY <1>2, <1>3 DEF Chunk
<1> QED BY <1>2, <1>4 DEF Headers

(* Every block stays framed by its header and footer, blocks and holes     *)
(* divide the heap, none overlapping another and every block in pages of   *)
(* its own, and no word of the heap is lost by alloc, expand and free.     *)
THEOREM HeapSafe == InOrder => (Spec => [](HeadersIntact /\ SpaceDivided /\ Conserved))
<1> SUFFICES ASSUME InOrder PROVE Spec => [](HeadersIntact /\ SpaceDivided /\ Conserved)
  OBVIOUS
<1>1. Init => IInv
  BY InitIInv
<1>2. IInv /\ [Next]_vars => IInv'
  BY NextIInv
<1>3. IInv => HeadersIntact /\ SpaceDivided /\ Conserved
  BY FramesKept, Divided, NothingLost
<1> QED BY <1>1, <1>2, <1>3, PTL DEF Spec
-----------------------------------------------------------------------------
(* The contents of the blocks that stay.                                   *)
LEMMA WordsKept ==
  ASSUME IInv, NEW b \in live, Untouched(mem, mem', b.at - 3)
  PROVE  \A x \in Payload(b) : At(mem', x) = At(mem, x)
<1> DEFINE h == b.at - 3
<1>1. /\ h \in Nat /\ b.at = h + 3 /\ b.size \in Nat
      /\ SizeAt(mem, h) \in Nat /\ b.size + 5 <= SizeAt(mem, h)
  BY BlockIs
<1>2. \A x \in h..(h + SizeAt(mem, h) - 1) : At(mem', x) = At(mem, x)
  BY DEF Untouched
<1> HIDE DEF h
<1>3. Payload(b) \subseteq h..(h + SizeAt(mem, h) - 1)
  BY <1>1 DEF Payload
<1> QED BY <1>2, <1>3

LEMMA ContentsKept ==
  ASSUME IInv, NEW B, B \subseteq live, B \subseteq live', Keeps(mem, mem', Headers(B))
  PROVE  Promise!Keeps(B)
<1> SUFFICES ASSUME NEW b \in B PROVE Contents'[b] = Contents[b]
  BY DEF Promise!Keeps
<1>1. b.at - 3 \in Headers(B)
  BY DEF Headers
<1>2. \A x \in Payload(b) : At(mem', x) = At(mem, x)
  BY <1>1, WordsKept DEF Keeps
<1>3. b.at \in Int /\ b.size \in Nat
  BY TypeFacts
<1>4. \A i \in 1..b.size : At(mem', b.at + i - 1) = At(mem, b.at + i - 1)
  <2> SUFFICES ASSUME NEW i \in 1..b.size PROVE At(mem', b.at + i - 1) = At(mem, b.at + i - 1)
    OBVIOUS
  <2>1. b.at + i - 1 \in Payload(b)
    BY <1>3 DEF Payload
  <2> QED BY <1>2, <2>1
<1>5. Contents[b] = [i \in 1..b.size |-> At(mem, b.at + i - 1)]
  BY DEF Contents
<1>6. Contents'[b] = [i \in 1..b.size |-> At(mem', b.at + i - 1)]
  BY DEF Contents
<1> QED BY <1>4, <1>5, <1>6

(* Nothing is placed or freed: the promise does not notice.                *)
LEMMA StutterPromise ==
  ASSUME IInv, live' = live, Keeps(mem, mem', Headers(live))
  PROVE  UNCHANGED <<live, Contents>>
<1>1. \A b \in live : Contents'[b] = Contents[b]
  BY ContentsKept DEF Promise!Keeps
<1> DEFINE f == Contents
           g == Contents'
<1>2. /\ f = [b \in live |-> f[b]]
      /\ g = [b \in live' |-> g[b]]
  BY DEF Contents
<1> HIDE DEF f, g
<1>3. \A b \in live : g[b] = f[b]
  BY <1>1 DEF f, g
<1>4. g = f
  BY <1>2, <1>3
<1> QED BY <1>4 DEF f, g

LEMMA PlacePromise ==
  ASSUME IInv, InOrder, Place, status' = "ok"
  PROVE  Promise!Alloc
<1> DEFINE n == request.size
<1>1. n \in Sizes /\ Keeps(mem, mem', Headers(live)) /\ end \in Nat
  BY PlaceIs, TypeFacts
<1>2. PICK h \in ToSet(index) :
             /\ Laid(mem', ToSet(index'), Headers(live) \cup {h}, end)
             /\ n + 5 <= SizeAt(mem', h)
             /\ live' = live \cup {[at |-> h + 3, size |-> n]}
  BY PlaceIs
<1> HIDE DEF n
<1>3. /\ Laid(mem, ToSet(index), Headers(live), end) /\ Held(mem, live) /\ end <= MaxAddress
  BY TypeFacts DEF IInv
<1>4. Held(mem', live) /\ h \notin Headers(live)
  BY <1>1, <1>3, HeldKept, NoneBoth
<1> DEFINE new == [at |-> h + 3, size |-> n]
<1>5. /\ h \in Nat /\ SizeAt(mem', h) \in Nat /\ Start <= h /\ h + SizeAt(mem', h) <= end
      /\ n \in Nat /\ Start \in Nat /\ MaxAddress \in Nat
  <2>1. h \in ToSet(index') \cup (Headers(live) \cup {h})
    OBVIOUS
  <2>2. h \in Nat /\ SizeAt(mem', h) \in Nat /\ Start <= h /\ h + SizeAt(mem', h) <= end
    BY <1>2, <2>1, ChunkNat
  <2>3. n \in Nat \ {0}
    BY <1>1, HeapAssumption
  <2> QED BY <2>2, <2>3, HeapAssumption
<1>6. new.at = h + 3 /\ new.size = n
  OBVIOUS
<1>7. Promise!Span(new) \subseteq Start..(MaxAddress - 1) /\ h + 3 \in Start..(MaxAddress - 1)
  <2>1. Promise!Span(new) = (h + 3)..(h + 3 + n - 1)
    BY <1>6 DEF Promise!Span
  <2>2. h + 3 \in Start..(MaxAddress - 1)
    BY <1>1, <1>2, <1>3, <1>5
  <2>3. \A x \in (h + 3)..(h + 3 + n - 1) : x \in Start..(MaxAddress - 1)
    BY <1>1, <1>2, <1>3, <1>5
  <2> QED BY <2>1, <2>2, <2>3
<1>8. ASSUME NEW c \in live PROVE Promise!Span(new) \cap Promise!Span(c) = {}
  <2> DEFINE g == c.at - 3
  <2>1. g \in Headers(live) /\ g \in Nat /\ c.at = g + 3 /\ c.size \in Nat
    BY BlockIs
  <2>2. c.size + 5 <= SizeAt(mem', g)
    BY <1>4 DEF Held
  <2> HIDE DEF g
  <2>3. SizeAt(mem', g) \in Nat
    BY <1>2, <2>1, ChunkNat
  <2>4. g # h
    BY <1>4, <2>1
  <2>5. (g < h => g + SizeAt(mem', g) <= h) /\ (h < g => h + SizeAt(mem', h) <= g)
    BY <1>2, <2>1 DEF Laid, Apart
  <2>6. ((h + 3)..(h + 3 + n - 1)) \cap ((g + 3)..(g + 3 + c.size - 1)) = {}
    BY <1>2, <1>5, <2>1, <2>2, <2>3, <2>4, <2>5
  <2> QED BY <1>6, <2>1, <2>6 DEF Promise!Span
<1>9. Promise!Keeps(live)
  <2>1. live \subseteq live'
    BY <1>2
  <2> QED BY <1>1, <2>1, ContentsKept
<1>10. live' = live \cup {new}
  BY <1>2
<1> HIDE DEF new
<1>11. new = [at |-> h + 3, size |-> n]
  BY DEF new
<1> QED BY <1>1, <1>7, <1>8, <1>9, <1>10, <1>11 DEF Promise!Alloc

LEMMA PromiseSteps ==
  ASSUME IInv, InOrder, [Next]_vars
  PROVE  [Promise!Next]_<<live, Contents>>
<1>1. ASSUME NEW extent \in Sizes, NEW a \in Aligns, Alloc(extent, a)
      PROVE  UNCHANGED <<live, Contents>>
  <2>1. live' = live /\ mem' = mem
    BY <1>1 DEF Alloc
  <2>2. Keeps(mem, mem', Headers(live))
    BY <2>1 DEF Keeps, Untouched
  <2> QED BY <2>1, <2>2, StutterPromise
<1>2. ASSUME (AnyOrder \/ HarmlessGrowth) /\ Grow PROVE UNCHANGED <<live, Contents>>
  <2>1. live' = live
    BY <1>2 DEF Grow, Halt
  <2> QED BY <1>2, <2>1, GrowIInv, StutterPromise
<1>3. ASSUME Place PROVE [Promise!Next]_<<live, Contents>>
  <2>1. CASE status' = "ok"
    BY <1>3, <2>1, PlacePromise DEF Promise!Next
  <2>2. CASE status' # "ok"
    <3>1. \E r \in {"assert", "unbacked"} : Halt(r)
      BY <1>3, <2>2 DEF Place
    <3>2. live' = live
      BY <3>1 DEF Halt
    <3> QED BY <1>3, <3>2, PlaceIInv, StutterPromise
  <2> QED BY <2>1, <2>2
<1>4. ASSUME NEW b \in live, (AnyOrder \/ Harmless(b.at)) /\ Free(b.at)
      PROVE  [Promise!Next]_<<live, Contents>>
  <2>1. /\ live' \subseteq live /\ Keeps(mem, mem', Headers(live'))
        /\ live' = live \/ live' = live \ {b}
    BY <1>4, FreeIInv
  <2>2. CASE live' = live
    BY <2>1, <2>2, StutterPromise
  <2>3. CASE live' = live \ {b}
    <3>1. Promise!Keeps(live')
      BY <2>1, ContentsKept
    <3>2. Promise!Free(b)
      BY <2>3, <3>1 DEF Promise!Free
    <3> QED BY <3>2 DEF Promise!Next
  <2> QED BY <2>1, <2>2, <2>3
<1>5. ASSUME UNCHANGED vars PROVE UNCHANGED <<live, Contents>>
  <2>1. live' = live /\ mem' = mem
    BY <1>5 DEF vars
  <2>2. Keeps(mem, mem', Headers(live))
    BY <2>1 DEF Keeps, Untouched
  <2> QED BY <2>1, <2>2, StutterPromise
<1> QED BY <1>1, <1>2, <1>3, <1>4, <1>5 DEF Next

(* The heap keeps the promise of an allocator: a new block overlaps no     *)
(* other, and what a client has written stays until the block is freed.    *)
THEOREM SpecImplementsAllocator == InOrder => (Spec => ImplementsAllocator)
<1> SUFFICES ASSUME InOrder PROVE Spec => ImplementsAllocator
  OBVIOUS
<1>1. Init => Promise!Init
  <2> SUFFICES ASSUME Init PROVE Promise!Init
    OBVIOUS
  <2>1. live = {}
    BY DEF Init
  <2>2. Contents = << >>
    BY <2>1 DEF Contents
  <2> QED BY <2>1, <2>2 DEF Promise!Init
<1>2. Init => IInv
  BY InitIInv
<1>3. IInv /\ [Next]_vars => IInv' /\ [Promise!Next]_<<live, Contents>>
  BY NextIInv, PromiseSteps
<1> QED BY <1>1, <1>2, <1>3, PTL DEF Spec, ImplementsAllocator, Promise!Spec

LEMMA StepKeeps ==
  ASSUME IInv, InOrder, [Next]_vars
  PROVE  Keeps(mem, mem', Headers(live \cap live'))
<1>1. Headers(live \cap live') \subseteq Headers(live) /\ Headers(live \cap live') \subseteq Headers(live')
  BY DEF Headers
<1>2. ASSUME mem' = mem PROVE Keeps(mem, mem', Headers(live \cap live'))
  BY <1>2 DEF Keeps, Untouched
<1>3. ASSUME NEW extent \in Sizes, NEW a \in Aligns, Alloc(extent, a) PROVE mem' = mem
  BY <1>3 DEF Alloc
<1>4. ASSUME (AnyOrder \/ HarmlessGrowth) /\ Grow PROVE Keeps(mem, mem', Headers(live))
  BY <1>4, GrowIInv
<1>5. ASSUME Place PROVE Keeps(mem, mem', Headers(live))
  BY <1>5, PlaceIInv
<1>6. ASSUME NEW b \in live, (AnyOrder \/ Harmless(b.at)) /\ Free(b.at)
      PROVE  Keeps(mem, mem', Headers(live'))
  BY <1>6, FreeIInv
<1>7. ASSUME UNCHANGED vars PROVE mem' = mem
  BY <1>7 DEF vars
<1>8. mem' = mem \/ Keeps(mem, mem', Headers(live)) \/ Keeps(mem, mem', Headers(live'))
  BY <1>3, <1>4, <1>5, <1>6, <1>7 DEF Next
<1> QED BY <1>1, <1>2, <1>8 DEF Keeps

(* alloc and free write no word of a block that stays.  In other orders of *)
(* calls they do: a footer that names a chunk merged long ago is believed. *)
THEOREM SpecPayloadStable == InOrder => (Spec => PayloadStable)
<1> SUFFICES ASSUME InOrder PROVE Spec => PayloadStable
  OBVIOUS
<1> DEFINE A == \A b \in live \cap live' : \A x \in Payload(b) : mem'[x] = mem[x]
<1>1. Init => IInv
  BY InitIInv
<1>2. ASSUME IInv, [Next]_vars PROVE IInv' /\ [A]_vars
  <2> SUFFICES ASSUME NEW b \in live \cap live', NEW x \in Payload(b) PROVE mem'[x] = mem[x]
    BY <1>2, NextIInv
  <2>1. b.at - 3 \in Headers(live \cap live')
    BY DEF Headers
  <2>2. Untouched(mem, mem', b.at - 3)
    BY <1>2, <2>1, StepKeeps DEF Keeps
  <2>3. At(mem', x) = At(mem, x)
    BY <1>2, <2>2, WordsKept
  <2>4. x \in Words
    <3>1. SpaceDivided
      BY <1>2, Divided
    <3>2. x \in Start..(end - 1) /\ end \in Nat /\ end <= MaxAddress
      BY <1>2, <3>1, TypeFacts DEF SpaceDivided
    <3> QED BY <3>2, HeapAssumption DEF Words
  <2> QED BY <2>3, <2>4 DEF At
<1> QED BY <1>1, <1>2, PTL DEF Spec, PayloadStable
-----------------------------------------------------------------------------
(* The index of the holes: the ordered array behind it, for every set of   *)
(* items, sizes and slots.                                                 *)
ArrayInv == TypeOKArray /\ SortedUnlessResized

LEMMA InitArrayInv == InitArray => ArrayInv
<1> SUFFICES ASSUME InitArray PROVE ArrayInv
  OBVIOUS
<1>1. size \in Slots /\ size <= MaxSize
  BY MaxSizeAssumption DEF InitArray, Slots
<1>2. Indexed \subseteq Items /\ Sorted
  BY DEF InitArray, Indexed, Sorted
<1>3. array \in [Slots -> Items \cup {Nil}] /\ key \in [Items -> Keys]
  BY DEF InitArray
<1>4. resized \in BOOLEAN /\ overrun \in BOOLEAN
  BY DEF InitArray
<1> QED BY <1>1, <1>2, <1>3, <1>4 DEF ArrayInv, TypeOKArray, SortedUnlessResized

(* An insertion that is not one too many has found a slot.                 *)
LEMMA SlotFound ==
  ASSUME TypeOKArray, NEW item \in Items, Insert(item), ~overrun'
  PROVE  ~overrun /\ size < MaxSize
<1>1. ~overrun /\ ~(size >= MaxSize)
  BY Zenon DEF Insert
<1>2. size \in Int /\ MaxSize \in Int
  BY MaxSizeAssumption DEF TypeOKArray, Slots
<1>3. size < MaxSize
  BY <1>1, <1>2
<1> QED BY <1>1, <1>3

(* What an insertion does to the slots, whatever lies in them.             *)
LEMMA InsertedAt ==
  ASSUME TypeOKArray, NEW item \in Items, Insert(item)
  PROVE  \E it \in 0..size :
            /\ Indexed \subseteq Items => StopsAt(it, item)
            /\ array' \in [Slots -> Items \cup {Nil}]
            /\ \A s \in Slots : array'[s] = IF s < it \/ s > size THEN array[s]
                                            ELSE IF s = it THEN item ELSE array[s - 1]
<1> USE MaxSizeAssumption
<1>1. PICK it \in 0..size : /\ Indexed \subseteq Items => StopsAt(it, item)
                            /\ array' = ShiftedUp(it, item)
  BY DEF Insert
<1>2. array' \in [Slots -> Items \cup {Nil}]
  BY <1>1 DEF ShiftedUp, TypeOKArray, Slots
<1>3. \A s \in Slots : array'[s] = IF s < it \/ s > size THEN array[s]
                                   ELSE IF s = it THEN item ELSE array[s - 1]
  BY <1>1 DEF ShiftedUp
<1> QED BY <1>1, <1>2, <1>3

(* Insertion at the position where the scan stops keeps the order.         *)
LEMMA InsertArrayInv ==
  ASSUME ArrayInv, NEW item \in Items, Insert(item) PROVE ArrayInv'
<1> USE MaxSizeAssumption, KeyAssumption, NilAssumption
<1>1. PICK it \in 0..size :
            /\ Indexed \subseteq Items => StopsAt(it, item)
            /\ array' \in [Slots -> Items \cup {Nil}]
            /\ \A s \in Slots : array'[s] = IF s < it \/ s > size THEN array[s]
                                            ELSE IF s = it THEN item ELSE array[s - 1]
  BY InsertedAt DEF ArrayInv
<1>2. /\ size \in Slots /\ size' = size + 1 /\ size' \in Slots /\ key' = key
      /\ resized' = resized /\ overrun' = (overrun \/ size >= MaxSize)
  BY DEF Insert, ArrayInv, TypeOKArray, Slots
<1>3. \A s \in 0..size : array'[s] = IF s < it THEN array[s]
                                    ELSE IF s = it THEN item ELSE array[s - 1]
  BY <1>1, <1>2 DEF Slots
<1>4. ~overrun => \A u \in 0..(size - 1) : array[u] \in Items
  BY DEF ArrayInv, TypeOKArray, Indexed
<1>5. TypeOKArray'
  <2>1. ASSUME ~overrun' PROVE size' <= MaxSize /\ Indexed' \subseteq Items
    <3>1. size' <= MaxSize /\ ~overrun
      BY <1>2, <2>1, SlotFound DEF ArrayInv, Slots
    <3>2. \A s \in 0..size : array'[s] \in Items
      BY <1>2, <1>3, <1>4, <3>1 DEF Slots
    <3> QED BY <1>2, <3>1, <3>2 DEF Indexed, Slots
  <2> QED BY <1>1, <1>2, <2>1 DEF ArrayInv, TypeOKArray
<1>6. ASSUME ~resized', ~overrun' PROVE Sorted'
  <2> SUFFICES ASSUME NEW s \in 0..size, NEW t \in 0..size, s < t
               PROVE  key[array'[s]] <= key[array'[t]]
    BY <1>2 DEF Sorted, Slots
  <2>1. ~overrun /\ Sorted
    BY <1>2, <1>6 DEF ArrayInv, SortedUnlessResized
  <2>2. \A u \in 0..(size - 1) : array[u] \in Items /\ key[array[u]] \in Int
    BY <1>4, <2>1 DEF ArrayInv, TypeOKArray
  <2>3. StopsAt(it, item)
    BY <1>1, <2>1 DEF ArrayInv, TypeOKArray
  <2>4. \A u \in 0..(it - 1) : key[array[u]] < key[item]
    BY <2>3 DEF StopsAt, Less
  <2>5. key[item] \in Int
    BY DEF ArrayInv, TypeOKArray
  <2>6. \A u \in it..(size - 1) : key[item] <= key[array[u]]
    BY <1>2, <2>1, <2>2, <2>3, <2>5 DEF StopsAt, Less, Sorted, Slots
  <2> QED BY <1>2, <1>3, <2>1, <2>2, <2>4, <2>5, <2>6 DEF Sorted, Slots
<1> QED BY <1>5, <1>6 DEF ArrayInv, SortedUnlessResized

LEMMA RemoveArrayInv ==
  ASSUME ArrayInv, NEW i \in 0..(size - 1), RemoveSlot(i) PROVE ArrayInv'
<1> USE MaxSizeAssumption, NilAssumption
<1>1. /\ size \in Slots /\ size' = size - 1 /\ size' \in Slots /\ key' = key
      /\ overrun' = overrun /\ resized' = (resized /\ size > 1)
  BY DEF RemoveSlot, ArrayInv, TypeOKArray, Slots
<1>2. \A s \in 0..(size - 1) : array'[s] = IF i <= s THEN array[s + 1] ELSE array[s]
  BY <1>1 DEF RemoveSlot, ShiftedDown, Slots
<1>3. \A s \in 0..(size' - 1) : \E u \in 0..(size - 1) : array'[s] = array[u]
  <2> SUFFICES ASSUME NEW s \in 0..(size' - 1) PROVE \E u \in 0..(size - 1) : array'[s] = array[u]
    OBVIOUS
  <2>1. s \in 0..(size - 1) /\ s + 1 \in 0..(size - 1)
    BY <1>1 DEF Slots
  <2> QED BY <1>2, <2>1
<1>4. Indexed' \subseteq Indexed
  BY <1>3 DEF Indexed
<1>5. TypeOKArray'
  <2>1. array' \in [Slots -> Items \cup {Nil}]
    BY <1>1 DEF RemoveSlot, ShiftedDown, ArrayInv, TypeOKArray, Slots
  <2>2. ~overrun => size' <= MaxSize
    BY <1>1 DEF ArrayInv, TypeOKArray, Slots
  <2> QED BY <1>1, <1>4, <2>1, <2>2 DEF ArrayInv, TypeOKArray
<1>6. ASSUME ~resized', ~overrun' PROVE Sorted'
  <2>1. CASE size <= 1
    BY <1>1, <2>1 DEF Sorted, Slots
  <2>2. CASE size > 1
    <3>1. Sorted
      BY <1>1, <1>6, <2>2 DEF ArrayInv, SortedUnlessResized
    <3> QED BY <1>1, <1>2, <3>1 DEF Sorted, Slots
  <2> QED BY <1>1, <2>1, <2>2 DEF Slots
<1> QED BY <1>5, <1>6 DEF ArrayInv, SortedUnlessResized

(* A header that is resized while it is indexed may be out of its order;   *)
(* one that is not indexed orders nothing.                                 *)
LEMMA ResizeArrayInv ==
  ASSUME ArrayInv, NEW item \in Items, Resize(item) PROVE ArrayInv'
<1>1. /\ array' = array /\ size' = size /\ overrun' = overrun
      /\ resized' = (resized \/ item \in Indexed)
  BY DEF Resize
<1>2. PICK k \in Keys : key' = [key EXCEPT ![item] = k]
  BY DEF Resize
<1>3. Indexed' = Indexed
  BY <1>1 DEF Indexed
<1>4. TypeOKArray'
  BY <1>1, <1>2, <1>3 DEF ArrayInv, TypeOKArray
<1>5. ASSUME ~resized', ~overrun' PROVE Sorted'
  <2>1. Sorted /\ Indexed \subseteq Items
    BY <1>1, <1>5 DEF ArrayInv, SortedUnlessResized, TypeOKArray
  <2>2. \A s \in 0..(size - 1) : array[s] \in Items /\ array[s] # item
    BY <1>1, <1>5, <2>1 DEF Indexed
  <2>3. \A s \in 0..(size - 1) : key'[array[s]] = key[array[s]]
    BY <1>2, <2>2 DEF ArrayInv, TypeOKArray
  <2> QED BY <1>1, <2>1, <2>3 DEF Sorted
<1> QED BY <1>4, <1>5 DEF ArrayInv, SortedUnlessResized

(* What the heap writes behind the slots is no matter until they are used. *)
LEMMA WriteHeaderInv ==
  ASSUME ArrayInv, NEW h \in MaxSize..(MaxSize + Behind), WriteHeader(h) PROVE ArrayInv'
<1> USE MaxSizeAssumption
<1>1. /\ array' = [array EXCEPT ![h] = Nil] /\ size' = size /\ key' = key
      /\ resized' = resized /\ overrun' = overrun
  BY DEF WriteHeader
<1>2. ASSUME ~overrun PROVE \A s \in 0..(size - 1) : array'[s] = array[s]
  <2>1. size <= MaxSize /\ size \in Slots
    BY <1>2 DEF ArrayInv, TypeOKArray
  <2> QED BY <1>1, <2>1 DEF ArrayInv, TypeOKArray, Slots
<1>3. ~overrun => Indexed' = Indexed
  BY <1>1, <1>2 DEF Indexed
<1>4. TypeOKArray'
  BY <1>1, <1>3 DEF ArrayInv, TypeOKArray, Slots
<1>5. SortedUnlessResized'
  BY <1>1, <1>2 DEF ArrayInv, SortedUnlessResized, Sorted
<1> QED BY <1>4, <1>5 DEF ArrayInv

LEMMA StepArrayInv == ArrayInv /\ [NextArray]_avars => ArrayInv'
<1> SUFFICES ASSUME ArrayInv, [NextArray]_avars PROVE ArrayInv'
  OBVIOUS
<1>1. CASE \E item \in Items : Insert(item)
  BY <1>1, InsertArrayInv
<1>2. CASE \E i \in 0..(size - 1) : RemoveSlot(i)
  BY <1>2, RemoveArrayInv
<1>3. CASE \E item \in Items : Resize(item)
  BY <1>3, ResizeArrayInv
<1>4. CASE \E s \in MaxSize..(MaxSize + Behind) : WriteHeader(s)
  BY <1>4, WriteHeaderInv
<1>5. CASE UNCHANGED avars
  BY <1>5 DEF ArrayInv, TypeOKArray, SortedUnlessResized, Sorted, Indexed, avars
<1> QED BY <1>1, <1>2, <1>3, <1>4, <1>5 DEF NextArray

(* However sizes change, in the array or out of it: insertions and         *)
(* removals keep the order, so that it is lost only by resizing an item    *)
(* that is indexed or by an item too many.                                 *)
THEOREM ArraySorted == SpecArray => []SortedUnlessResized
  BY InitArrayInv, StepArrayInv, PTL DEF SpecArray, ArrayInv
(* As long as the slots suffice, those in use hold items: nobody           *)
(* dereferences a stale word.                                              *)
THEOREM ArrayTyped == SpecArray => []TypeOKArray
  BY InitArrayInv, StepArrayInv, PTL DEF SpecArray, ArrayInv
-----------------------------------------------------------------------------
(* A word behind the slots is written only by an insertion that has found  *)
(* them all in use, or after one.                                          *)
THEOREM ArrayPastEnd == SpecArray => PastEndUntouched
<1> DEFINE Off == size' # size /\ ~overrun' =>
                        \A s \in MaxSize..(MaxSize + Behind) : array'[s] = array[s]
<1>1. ArrayInv /\ [NextArray]_avars => [Off]_avars
  <2> SUFFICES ASSUME ArrayInv, NextArray, size' # size, ~overrun',
                      NEW s \in MaxSize..(MaxSize + Behind)
               PROVE  array'[s] = array[s]
    OBVIOUS
  <2> USE MaxSizeAssumption
  <2>1. size \in Slots /\ s \in Slots /\ s >= MaxSize
    BY DEF ArrayInv, TypeOKArray, Slots
  <2>2. ASSUME NEW item \in Items, Insert(item) PROVE array'[s] = array[s]
    <3>1. size < MaxSize
      BY <2>2, SlotFound DEF ArrayInv
    <3>2. s > size
      BY <2>1, <3>1 DEF Slots
    <3> QED BY <2>1, <2>2, <3>2, InsertedAt DEF ArrayInv
  <2>3. ASSUME NEW i \in 0..(size - 1), RemoveSlot(i) PROVE array'[s] = array[s]
    <3>1. size <= MaxSize
      BY <2>3 DEF RemoveSlot, ArrayInv, TypeOKArray
    <3> QED BY <2>1, <2>3, <3>1 DEF RemoveSlot, ShiftedDown, Slots
  <2> QED BY <2>2, <2>3 DEF NextArray, Resize, WriteHeader
<1> QED BY <1>1, InitArrayInv, StepArrayInv, PTL DEF SpecArray, PastEndUntouched
-----------------------------------------------------------------------------
LEMMA ListedLen == TypeOKArray => size \in Nat /\ Len(Listed) = size
  BY MaxSizeAssumption DEF TypeOKArray, Slots, Listed

(* While the slots suffice, an insertion into the array is an insertion    *)
(* into the list it stands for.                                            *)
LEMMA InsertArrayRefines ==
  ASSUME ArrayInv, NEW item \in Items, Insert(item), ~overrun' PROVE SL!Insert(item)
<1> USE MaxSizeAssumption, KeyAssumption
<1>1. PICK it \in 0..size :
            /\ Indexed \subseteq Items => StopsAt(it, item)
            /\ array' \in [Slots -> Items \cup {Nil}]
            /\ \A s \in Slots : array'[s] = IF s < it \/ s > size THEN array[s]
                                            ELSE IF s = it THEN item ELSE array[s - 1]
  BY InsertedAt DEF ArrayInv
<1>2. size \in Slots /\ size < MaxSize /\ size' = size + 1 /\ ~overrun
  BY SlotFound DEF Insert, ArrayInv, TypeOKArray
<1>3. Len(Listed) = size
  BY <1>2, ListedLen DEF ArrayInv
<1>4. \A u \in 0..(size - 1) : array[u] \in Items /\ key[array[u]] \in Int
  BY <1>2 DEF ArrayInv, TypeOKArray, Indexed
<1>5. key[item] \in Int /\ StopsAt(it, item)
  BY <1>1, <1>2 DEF ArrayInv, TypeOKArray
<1>6. ASSUME SL!InOrder PROVE SL!Before(it, item)
  <2>1. \A j \in 1..it : key[Listed[j]] < key[item]
    BY <1>2, <1>5 DEF StopsAt, Less, Listed, Slots
  <2>2. \A j \in (it + 1)..size : key[Listed[j]] >= key[item]
    <3> SUFFICES ASSUME NEW j \in (it + 1)..size
                 PROVE  key[Listed[j]] >= key[item]
      OBVIOUS
    <3>1. it + 1 \in 1..size /\ j \in 1..size /\ it + 1 <= j
      BY <1>2 DEF Slots
    <3>2. Listed[it + 1] = array[it] /\ Listed[j] = array[j - 1]
      BY <3>1, <1>2 DEF Listed, Slots
    <3>3. key[array[it]] >= key[item]
      BY <1>2, <1>4, <1>5, <3>1 DEF StopsAt, Less, Slots
    <3>4. it + 1 < j => key[array[it]] <= key[array[j - 1]]
      BY <1>3, <1>6, <3>1, <3>2 DEF SL!InOrder
    <3>5. it + 1 = j => array[it] = array[j - 1]
      BY <1>2, <3>1 DEF Slots
    <3> QED BY <1>2, <1>4, <1>5, <3>1, <3>2, <3>3, <3>4, <3>5 DEF Slots
  <2> QED BY <2>1, <2>2, <1>3 DEF SL!Before
<1>7. Listed' = [j \in 1..(Len(Listed) + 1) |->
                    IF j <= it THEN Listed[j]
                    ELSE IF j = it + 1 THEN item ELSE Listed[j - 1]]
  <2>1. \A j \in 1..(size + 1) :
            array'[j - 1] = IF j <= it THEN Listed[j]
                            ELSE IF j = it + 1 THEN item ELSE Listed[j - 1]
    BY <1>1, <1>2 DEF Listed, Slots
  <2> QED BY <2>1, <1>2, <1>3 DEF Listed
<1>8. key' = key /\ overrun' = overrun
  <2>1. overrun \in BOOLEAN /\ overrun' \in BOOLEAN
    BY InsertArrayInv DEF ArrayInv, TypeOKArray
  <2>2. overrun' = overrun
    BY <1>2, <2>1, Zenon
  <2> QED BY <2>2 DEF Insert
<1> QED BY <1>2, <1>3, <1>6, <1>7, <1>8 DEF SL!Insert, Slots

LEMMA RemoveArrayRefines ==
  ASSUME ArrayInv, NEW i \in 0..(size - 1), RemoveSlot(i) PROVE SL!Remove(i)
<1> USE MaxSizeAssumption
<1>1. size \in Slots /\ size' = size - 1 /\ key' = key /\ overrun' = overrun
  BY DEF RemoveSlot, ArrayInv, TypeOKArray
<1>2. Len(Listed) = size
  BY ListedLen DEF ArrayInv
<1>3. \A j \in 1..(size - 1) :
          array'[j - 1] = IF j <= i THEN Listed[j] ELSE Listed[j + 1]
  BY <1>1 DEF RemoveSlot, ShiftedDown, Listed, Slots
<1> QED BY <1>1, <1>2, <1>3 DEF SL!Remove, Listed

(* The array implements the list, whatever its items, sizes and slots:     *)
(* every step is an insertion, a removal, a resizing, a step after one     *)
(* item too many, or none of the list's.                                   *)
THEOREM ArrayImplements == SpecArray => ImplementsSortedList
<1>1. InitArray => SL!Init
  BY DEF InitArray, SL!Init, Listed
<1>2. ArrayInv /\ [NextArray]_avars => [SL!Next]_(SL!vars)
  <2> SUFFICES ASSUME ArrayInv, [NextArray]_avars PROVE [SL!Next]_(SL!vars)
    OBVIOUS
  <2>1. size \in Nat /\ Len(Listed) = size
    BY ListedLen DEF ArrayInv
  <2>2. CASE overrun'
    <3>1. CASE overrun
      BY <2>2, <3>1 DEF SL!Next, SL!Overrun
    <3>2. CASE ~overrun
      <4>1. size >= MaxSize /\ size <= MaxSize
        BY <2>2, <3>2 DEF NextArray, Insert, RemoveSlot, Resize, WriteHeader, avars,
           ArrayInv, TypeOKArray
      <4> QED BY <2>1, <2>2, <4>1, MaxSizeAssumption DEF SL!Next, SL!Overrun
    <3> QED BY <3>1, <3>2
  <2>3. CASE ~overrun'
    <3>1. ASSUME NEW item \in Items, Insert(item) PROVE SL!Next
      BY <2>3, <3>1, InsertArrayRefines DEF SL!Next
    <3>2. ASSUME NEW i \in 0..(size - 1), RemoveSlot(i) PROVE SL!Next
      BY <2>1, <3>2, RemoveArrayRefines DEF SL!Next
    <3>3. ASSUME NEW item \in Items, Resize(item) PROVE SL!Next
      <4>1. SL!Resize(item)
        BY <3>3 DEF Resize, SL!Resize, Listed
      <4> QED BY <3>3, <4>1 DEF SL!Next
    <3>4. ASSUME NEW s \in MaxSize..(MaxSize + Behind), WriteHeader(s)
          PROVE  UNCHANGED SL!vars
      <4>1. size <= MaxSize /\ size' = size /\ key' = key /\ overrun' = overrun
        BY <2>3, <3>4 DEF WriteHeader, ArrayInv, TypeOKArray
      <4>2. \A j \in 1..size : array'[j - 1] = array[j - 1]
        BY <2>1, <3>4, <4>1, MaxSizeAssumption DEF WriteHeader, ArrayInv, TypeOKArray, Slots
      <4>3. Listed' = Listed
        BY <4>1, <4>2 DEF Listed
      <4> QED BY <4>1, <4>3 DEF SL!vars
    <3>5. CASE UNCHANGED avars
      BY <3>5 DEF avars, Listed, SL!vars
    <3> QED BY <3>1, <3>2, <3>3, <3>4, <3>5 DEF NextArray
  <2> QED BY <2>2, <2>3 DEF ArrayInv, TypeOKArray
<1> QED BY <1>1, <1>2, InitArrayInv, StepArrayInv, PTL DEF SpecArray, ImplementsSortedList, SL!Spec
=============================================================================
