---------------------------- MODULE ShellProofs -----------------------------
(* The shell's read of a file is the file store's, and cat and ls keep what *)
(* they promise where the memory of the nodes' names was cleared: for any   *)
(* files, lines and sizes.  The recursive functions of the image and of ls  *)
(* are unfolded by induction over the number of files.                      *)
EXTENDS Shell, SequenceTheorems, WellFoundedInduction, TLAPS

(* A set of numbers has a least one, and what holds of 0 and of every next  *)
(* number holds of all.                                                     *)
LEMMA LeastNumber ==
  ASSUME NEW A \in SUBSET Nat, A # {}
  PROVE  \E m \in A : \A k \in A : m <= k
<1> DEFINE R == OpToRel(<, Nat)
<1>1. IsWellFoundedOn(R, Nat)
  BY NatLessThanWellFounded, Zenon
<1>2. \A x, y \in Nat : y < x => <<y, x>> \in R
  BY DEF OpToRel
<1> HIDE DEF R
<1>3. PICK m \in A : \A k \in A : ~(<<k, m>> \in R)
  BY <1>1, WFMin, Zenon
<1>4. \A k \in A : m \in Nat /\ k \in Nat /\ ~(k < m) => m <= k
  OBVIOUS
<1> QED BY <1>2, <1>3, <1>4

LEMMA SetInduction ==
  ASSUME NEW S, 0 \in S, \A n \in Nat : n \in S => n + 1 \in S
  PROVE  Nat \subseteq S
<1> DEFINE T == Nat \ S
<1>1. CASE T # {}
  <2>1. PICK x \in T : \A y \in T : x <= y
    BY <1>1, LeastNumber
  <2>2. x \in Nat /\ x # 0 /\ x \notin S
    BY <2>1
  <2>3. x - 1 \in Nat /\ ~(x <= x - 1) /\ (x - 1) + 1 = x
    BY <2>2
  <2>4. x - 1 \in S
    BY <2>1, <2>3
  <2> QED BY <2>2, <2>3, <2>4
<1> QED BY <1>1

LEMMA StrongInduction ==
  ASSUME NEW T, NEW M \in Nat,
         \A k \in 0..M : (\A j \in 0..(k - 1) : j \in T) => k \in T
  PROVE  0..M \subseteq T
<1> DEFINE U == {n \in Nat : \A j \in 0..n : j \in 0..M => j \in T}
<1>1. 0 \in U
  <2>1. 0 \in T
    OBVIOUS
  <2> QED BY <2>1
<1>2. ASSUME NEW n \in Nat, n \in U PROVE n + 1 \in U
  <2>1. n + 1 \in 0..M => \A j \in 0..((n + 1) - 1) : j \in T
    BY <1>2
  <2>2. n + 1 \in 0..M => n + 1 \in T
    BY <2>1
  <2>3. \A j \in 0..(n + 1) : j = n + 1 \/ j \in 0..n
    OBVIOUS
  <2> QED BY <1>2, <2>2, <2>3
<1>3. Nat \subseteq U
  <2> HIDE DEF U
  <2> QED BY <1>1, <1>2, SetInduction
<1> QED BY <1>3

(* A loop of M rounds computes a function on 0..M, from what it begins     *)
(* with and what a round makes of what the one before has left.            *)
Loop(S, b, M, g) == b \in S /\ M \in Nat /\ g \in [(1..M) \X S -> S]
After(f, S, b, M, g) ==
    f \in [0..M -> S] /\ f[0] = b /\ \A k \in 1..M : f[k] = g[<<k, f[k - 1]>>]

LEMMA LoopEnds ==
  ASSUME NEW S, NEW b, NEW M, NEW g, Loop(S, b, M, g)
  PROVE  \E f : After(f, S, b, M, g)
<1>0. b \in S /\ M \in Nat /\ g \in [(1..M) \X S -> S]
  BY DEF Loop
<1> DEFINE Good(n, f) == f[0] = b /\ \A k \in 1..n : f[k] = g[<<k, f[k - 1]>>]
           T == {n \in Nat : n <= M => \E f \in [0..n -> S] : Good(n, f)}
<1>1. 0 \in T
  <2>1. [k \in 0..0 |-> b] \in [0..0 -> S] /\ Good(0, [k \in 0..0 |-> b])
    BY <1>0
  <2> QED BY <2>1
<1>2. ASSUME NEW n \in Nat, n \in T PROVE n + 1 \in T
  <2> SUFFICES ASSUME n + 1 <= M PROVE \E f \in [0..(n + 1) -> S] : Good(n + 1, f)
    OBVIOUS
  <2>1. PICK f \in [0..n -> S] : Good(n, f)
    BY <1>0, <1>2
  <2> DEFINE next == g[<<n + 1, f[n]>>]
             h == [k \in 0..(n + 1) |-> IF k = n + 1 THEN next ELSE f[k]]
  <2>2. next \in S
    BY <1>0, <2>1
  <2>3. h \in [0..(n + 1) -> S] /\ h[0] = b
    <3> HIDE DEF next
    <3> QED BY <1>0, <2>1, <2>2
  <2>4. ASSUME NEW k \in 1..(n + 1) PROVE h[k] = g[<<k, h[k - 1]>>]
    <3>1. k - 1 \in 0..n /\ h[k - 1] = f[k - 1]
      OBVIOUS
    <3>2. CASE k = n + 1
      <4>1. h[n + 1] = next /\ k = n + 1
        BY <3>2
      <4> HIDE DEF h
      <4> QED BY <3>1, <4>1
    <3>3. CASE k # n + 1
      <4>1. k \in 1..n /\ h[k] = f[k]
        BY <3>3
      <4> HIDE DEF h
      <4> QED BY <2>1, <3>1, <4>1
    <3> QED BY <3>2, <3>3
  <2> HIDE DEF h
  <2> QED BY <2>3, <2>4
<1>3. M \in T
  <2> HIDE DEF T
  <2>1. Nat \subseteq T
    BY <1>1, <1>2, SetInduction
  <2> QED BY <1>0, <2>1
<1>4. PICK f \in [0..M -> S] : Good(M, f)
  <2>1. M <= M
    BY <1>0
  <2> QED BY <1>3, <2>1
<1> QED BY <1>4 DEF After

LEMMA LoopIs ==
  ASSUME NEW S, NEW b, NEW M, NEW g, Loop(S, b, M, g),
         NEW h, h = [k \in 0..M |-> h[k]], h[0] = b,
         \A k \in 1..M : h[k - 1] \in S => h[k] = g[<<k, h[k - 1]>>]
  PROVE  After(h, S, b, M, g)
<1>0. b \in S /\ M \in Nat /\ g \in [(1..M) \X S -> S]
  BY DEF Loop
<1> DEFINE T == {k \in 0..M : h[k] \in S}
<1>1. ASSUME NEW k \in 0..M, \A j \in 0..(k - 1) : j \in T PROVE k \in T
  <2>1. CASE k = 0
    BY <1>0, <2>1
  <2>2. CASE k # 0
    <3>1. k \in 1..M /\ k - 1 \in 0..(k - 1)
      BY <1>0, <2>2
    <3>2. h[k - 1] \in S
      BY <1>1, <3>1
    <3>3. h[k] = g[<<k, h[k - 1]>>]
      BY <3>1, <3>2
    <3>4. g[<<k, h[k - 1]>>] \in S
      BY <1>0, <3>1, <3>2
    <3> QED BY <3>3, <3>4
  <2> QED BY <2>1, <2>2
<1>2. 0..M \subseteq T
  <2> HIDE DEF T
  <2> QED BY <1>0, <1>1, StrongInduction
<1>3. \A k \in 1..M : k - 1 \in 0..M
  BY <1>0
<1> QED BY <1>2, <1>3 DEF After
-----------------------------------------------------------------------------
Strings == Seq(Characters)

LEMMA MinIs ==
  ASSUME NEW S \in SUBSET Nat, NEW n \in S, \A k \in S : n <= k
  PROVE  Min(S) = n
<1>1. \A x \in S : x <= n /\ n <= x => x = n
  OBVIOUS
<1> QED BY <1>1 DEF Min

LEMMA PrefixIs ==
  ASSUME NEW s \in Strings, NEW n \in 0..Len(s)
  PROVE  /\ SubSeq(s, 1, n) \in Strings /\ Len(SubSeq(s, 1, n)) = n
         /\ \A i \in 1..n : SubSeq(s, 1, n)[i] = s[i]
  BY DEF Strings

LEMMA MiddleIs ==
  ASSUME NEW s \in Strings, NEW m \in Nat, NEW n \in Nat, m + n <= Len(s)
  PROVE  /\ SubSeq(s, m + 1, m + n) \in Strings /\ Len(SubSeq(s, m + 1, m + n)) = n
         /\ \A i \in 1..n : SubSeq(s, m + 1, m + n)[i] = s[m + i]
  BY DEF Strings

LEMMA SameSequence ==
  ASSUME NEW s \in Strings, NEW t \in Strings, Len(s) = Len(t), \A i \in 1..Len(s) : s[i] = t[i]
  PROVE  s = t
  BY DEF Strings

LEMMA UpToIs ==
  ASSUME NEW c, NEW s \in Strings, NEW n \in 0..Len(s),
         \A i \in 1..n : s[i] # c, n < Len(s) => s[n + 1] = c
  PROVE  UpTo(c, s) = SubSeq(s, 1, n)
<1> DEFINE I == {i \in 1..Len(s) : s[i] = c}
<1>0. Len(s) \in Nat
  BY DEF Strings
<1>1. UpTo(c, s) = LET i == IF I # {} THEN Min(I) ELSE 0
                   IN  IF i = 0 THEN s ELSE SubSeq(s, 1, i - 1)
  BY DEF UpTo, SelectInSeq
<1>2. CASE n < Len(s)
  <2>1. n + 1 \in I /\ \A k \in I : n + 1 <= k
    BY <1>0, <1>2
  <2>2. Min(I) = n + 1
    <3>1. I \in SUBSET Nat
      BY <1>0
    <3> HIDE DEF I
    <3> QED BY <2>1, <3>1, MinIs
  <2> HIDE DEF I
  <2> QED BY <1>1, <2>1, <2>2
<1>3. CASE n = Len(s)
  <2>1. I = {}
    BY <1>3
  <2>2. s = SubSeq(s, 1, n)
    BY <1>0, <1>3, PrefixIs, SameSequence
  <2> HIDE DEF I
  <2> QED BY <1>1, <2>1, <2>2
<1> QED BY <1>0, <1>2, <1>3

(* Every sequence has such a place.                                        *)
LEMMA UpToSplits ==
  ASSUME NEW c, NEW s \in Strings
  PROVE  \E n \in 0..Len(s) : /\ \A i \in 1..n : s[i] # c
                              /\ n < Len(s) => s[n + 1] = c
                              /\ UpTo(c, s) = SubSeq(s, 1, n)
<1>0. Len(s) \in Nat
  BY DEF Strings
<1> DEFINE I == {i \in 1..Len(s) : s[i] = c}
<1>1. CASE I = {}
  BY <1>0, <1>1, UpToIs
<1>2. CASE I # {}
  <2>1. \E m \in I : \A k \in I : m <= k
    <3>1. I \in SUBSET Nat
      BY <1>0
    <3> HIDE DEF I
    <3> QED BY <1>2, <3>1, LeastNumber
  <2>2. PICK m \in I : \A k \in I : m <= k
    BY <2>1
  <2> DEFINE n == m - 1
  <2>3. n \in 0..Len(s) /\ n < Len(s) /\ s[n + 1] = c /\ \A i \in 1..n : i \in 1..Len(s) /\ i < m
    BY <1>0
  <2>4. \A i \in 1..n : s[i] # c
    BY <1>0, <2>2, <2>3
  <2> HIDE DEF n, I
  <2> QED BY <2>3, <2>4, UpToIs
<1> QED BY <1>1, <1>2

LEMMA UpToTyped == ASSUME NEW c, NEW s \in Strings PROVE UpTo(c, s) \in Strings
<1>1. PICK n \in 0..Len(s) : UpTo(c, s) = SubSeq(s, 1, n)
  BY UpToSplits
<1> QED BY <1>1, PrefixIs

(* A name that is followed by a 0 is found whatever lies behind.           *)
LEMMA NameFound ==
  ASSUME NEW name \in Strings, "nul" \notin ToSet(name), NEW s \in Strings,
         Len(name) < Len(s), \A i \in 1..Len(name) : s[i] = name[i], s[Len(name) + 1] = "nul"
  PROVE  UpTo("nul", s) = name
<1> DEFINE n == Len(name)
<1>1. n \in 0..Len(s) /\ \A i \in 1..n : s[i] # "nul"
  BY DEF ToSet, Strings
<1>2. UpTo("nul", s) = SubSeq(s, 1, n)
  <2> HIDE DEF n
  <2> QED BY <1>1, UpToIs DEF n
<1> DEFINE u == SubSeq(s, 1, n)
<1>3. u \in Strings /\ Len(u) = Len(name) /\ \A i \in 1..n : u[i] = s[i]
  BY <1>1, PrefixIs
<1>4. \A i \in 1..Len(u) : u[i] = name[i]
  BY <1>3
<1> HIDE DEF u
<1>5. u = name
  BY <1>3, <1>4, SameSequence
<1> QED BY <1>2, <1>5 DEF u

LEMMA Joined ==
  ASSUME NEW s \in Strings, NEW t \in Strings
  PROVE  /\ s \o t \in Strings /\ Len(s \o t) = Len(s) + Len(t)
         /\ \A i \in 1..Len(s) : (s \o t)[i] = s[i]
         /\ \A i \in 1..Len(t) : (s \o t)[Len(s) + i] = t[i]
<1>1. Len(s) \in Nat /\ Len(t) \in Nat
  BY DEF Strings
<1>2. s \o t \in Strings /\ Len(s \o t) = Len(s) + Len(t)
  BY DEF Strings
<1>3. \A i \in 1..Len(s) : (s \o t)[i] = s[i]
  BY DEF Strings
<1>4. \A i \in 1..Len(t) : (s \o t)[Len(s) + i] = t[i]
  BY <1>1 DEF Strings
<1> QED BY <1>2, <1>3, <1>4

LEMMA JoinedLists ==
  ASSUME NEW s \in Seq(Strings), NEW t \in Seq(Strings)
  PROVE  /\ s \o t \in Seq(Strings) /\ Len(s \o t) = Len(s) + Len(t)
         /\ \A i \in 1..Len(s) : (s \o t)[i] = s[i]
         /\ \A i \in 1..Len(t) : (s \o t)[Len(s) + i] = t[i]
<1>1. Len(s) \in Nat /\ Len(t) \in Nat
  OBVIOUS
<1>2. s \o t \in Seq(Strings) /\ Len(s \o t) = Len(s) + Len(t)
  OBVIOUS
<1>3. \A i \in 1..Len(s) : (s \o t)[i] = s[i]
  OBVIOUS
<1>4. \A i \in 1..Len(t) : (s \o t)[Len(s) + i] = t[i]
  BY <1>1
<1> QED BY <1>2, <1>3, <1>4

LEMMA OverIs ==
  ASSUME NEW text \in Strings, NEW dest \in Strings
  PROVE  /\ Over(text, dest) \in Strings
         /\ Len(Over(text, dest)) = IF Len(text) < Len(dest) THEN Len(dest) ELSE Len(text)
         /\ \A i \in 1..Len(text) : Over(text, dest)[i] = text[i]
         /\ \A i \in (Len(text) + 1)..Len(dest) : Over(text, dest)[i] = dest[i]
<1> DEFINE rest == SubSeq(dest, Len(text) + 1, Len(dest))
<1>1. Len(text) \in Nat /\ Len(dest) \in Nat
  BY DEF Strings
<1>2. /\ rest \in Strings
      /\ Len(rest) = IF Len(text) < Len(dest) THEN Len(dest) - Len(text) ELSE 0
      /\ \A i \in 1..Len(rest) : rest[i] = dest[Len(text) + i]
  BY <1>1 DEF Strings
<1> HIDE DEF rest
<1>3. /\ text \o rest \in Strings /\ Len(text \o rest) = Len(text) + Len(rest)
      /\ \A i \in 1..Len(text) : (text \o rest)[i] = text[i]
      /\ \A i \in 1..Len(rest) : (text \o rest)[Len(text) + i] = rest[i]
  BY <1>2 DEF Strings
<1>4. Over(text, dest) = text \o rest
  BY DEF Over, rest
<1>5. ASSUME NEW i \in (Len(text) + 1)..Len(dest) PROVE (text \o rest)[i] = dest[i]
  <2>1. i - Len(text) \in 1..Len(rest) /\ Len(text) + (i - Len(text)) = i
    BY <1>1, <1>2
  <2> QED BY <1>2, <1>3, <2>1
<1> QED BY <1>1, <1>2, <1>3, <1>4, <1>5
-----------------------------------------------------------------------------
(* The files on the host and in the image.                                 *)
N == Len(Host)

LEMMA HostIs ==
  /\ N \in Nat /\ Files = 1..N
  /\ \A f \in Files : /\ Host[f].name \in Strings /\ Host[f].data \in Strings
                       /\ Len(Host[f].name) \in 1..(NameSize - 1)
                       /\ "nul" \notin ToSet(Host[f].name)
                       /\ Len(Host[f].data) \in Nat
<1>1. Host \in Seq([name : Strings, data : Strings])
  BY InitrdAssumption DEF Strings
<1> DEFINE R == [name : Strings, data : Strings]
<1>2. N \in Nat /\ Files = 1..N /\ \A f \in Files : Host[f] \in R
  <2> HIDE DEF R
  <2>1. Host \in Seq(R)
    BY <1>1 DEF R
  <2> QED BY <2>1 DEF N, Files
<1>3. \A s \in Strings : Len(s) \in Nat
  BY DEF Strings
<1> QED BY <1>2, <1>3, InitrdAssumption

LEMMA SizesAre ==
  /\ SizeOfFirst \in [0..N -> Nat] /\ SizeOfFirst[0] = 0
  /\ \A n \in 1..N : SizeOfFirst[n] = SizeOfFirst[n - 1] + Len(Host[n].data)
<1> DEFINE step(n, v) == v + Len(Host[n].data)
           g == [x \in (1..N) \X Nat |-> step(x[1], x[2])]
           Eq(h) == h = [n \in 0..N |-> IF n = 0 THEN 0 ELSE step(n, h[n - 1])]
           V == SizeOfFirst
<1>1. N \in Nat /\ \A n \in 1..N : n - 1 \in 0..N /\ n \in 0..N /\ n # 0
  BY HostIs
<1>2. \A n \in 1..N, v \in Nat : step(n, v) \in Nat
  BY HostIs
<1>3. /\ g \in [(1..N) \X Nat -> Nat]
      /\ \A n \in 1..N, v \in Nat : g[<<n, v>>] = step(n, v)
  <2> HIDE DEF step
  <2> QED BY <1>2
<1>4. Loop(Nat, 0, N, g)
  <2> HIDE DEF g
  <2> QED BY <1>1, <1>3 DEF Loop
<1>5. PICK f : After(f, Nat, 0, N, g)
  <2> HIDE DEF g
  <2> QED BY <1>4, LoopEnds
<1>6. Eq(f)
  <2> HIDE DEF g, step
  <2>1. \A n \in 0..N : n = 0 \/ n \in 1..N
    BY <1>1
  <2>2. f = [n \in 0..N |-> f[n]]
    BY <1>5 DEF After
  <2>3. \A n \in 0..N : f[n] = IF n = 0 THEN 0 ELSE step(n, f[n - 1])
    BY <1>1, <1>3, <1>5, <2>1 DEF After
  <2> QED BY <2>2, <2>3, Zenon
<1>7. Eq(V)
  BY <1>6 DEF SizeOfFirst, N
<1>8. /\ V = [n \in 0..N |-> V[n]] /\ V[0] = 0
      /\ \A n \in 1..N : V[n] = step(n, V[n - 1])
  <2> HIDE DEF step, V
  <2>1. \A n \in 0..N : V[n] = IF n = 0 THEN 0 ELSE step(n, V[n - 1])
    BY <1>7, Zenon
  <2>2. V = [n \in 0..N |-> V[n]]
    BY <1>7, <2>1, Zenon
  <2>3. 0 \in 0..N
    BY <1>1
  <2> QED BY <1>1, <2>1, <2>2, <2>3
<1>9. After(V, Nat, 0, N, g)
  <2> HIDE DEF step, V, g
  <2>1. \A n \in 1..N : V[n - 1] \in Nat => V[n] = g[<<n, V[n - 1]>>]
    BY <1>3, <1>8
  <2> QED BY <1>4, <1>8, <2>1, LoopIs
<1> QED BY <1>8, <1>9 DEF After

LEMMA WrittenIs ==
  /\ Written \in [0..N -> Strings] /\ Written[0] = << >>
  /\ \A n \in 1..N : Written[n] = Written[n - 1] \o Host[n].data
<1> DEFINE step(n, v) == v \o Host[n].data
           g == [x \in (1..N) \X Strings |-> step(x[1], x[2])]
           Eq(h) == h = [n \in 0..N |-> IF n = 0 THEN << >> ELSE step(n, h[n - 1])]
           V == Written
<1>1. N \in Nat /\ \A n \in 1..N : n - 1 \in 0..N /\ n \in 0..N /\ n # 0
  BY HostIs
<1>2. \A n \in 1..N, v \in Strings : step(n, v) \in Strings
  BY HostIs DEF Strings
<1>3. /\ g \in [(1..N) \X Strings -> Strings]
      /\ \A n \in 1..N, v \in Strings : g[<<n, v>>] = step(n, v)
  <2> HIDE DEF step
  <2> QED BY <1>2
<1>4. Loop(Strings, << >>, N, g)
  <2>1. << >> \in Strings
    BY DEF Strings
  <2> HIDE DEF g
  <2> QED BY <1>1, <1>3, <2>1 DEF Loop
<1>5. PICK f : After(f, Strings, << >>, N, g)
  <2> HIDE DEF g
  <2> QED BY <1>4, LoopEnds
<1>6. Eq(f)
  <2> HIDE DEF g, step
  <2>1. \A n \in 0..N : n = 0 \/ n \in 1..N
    BY <1>1
  <2>2. f = [n \in 0..N |-> f[n]]
    BY <1>5 DEF After
  <2>3. \A n \in 0..N : f[n] = IF n = 0 THEN << >> ELSE step(n, f[n - 1])
    BY <1>1, <1>3, <1>5, <2>1 DEF After
  <2> QED BY <2>2, <2>3, Zenon
<1>7. Eq(V)
  BY <1>6 DEF Written, N
<1>8. /\ V = [n \in 0..N |-> V[n]] /\ V[0] = << >>
      /\ \A n \in 1..N : V[n] = step(n, V[n - 1])
  <2> HIDE DEF step, V
  <2>1. \A n \in 0..N : V[n] = IF n = 0 THEN << >> ELSE step(n, V[n - 1])
    BY <1>7, Zenon
  <2>2. V = [n \in 0..N |-> V[n]]
    BY <1>7, <2>1, Zenon
  <2>3. 0 \in 0..N
    BY <1>1
  <2> QED BY <1>1, <2>1, <2>2, <2>3
<1>9. After(V, Strings, << >>, N, g)
  <2> HIDE DEF step, V, g
  <2>1. \A n \in 1..N : V[n - 1] \in Strings => V[n] = g[<<n, V[n - 1]>>]
    BY <1>3, <1>8
  <2> QED BY <1>4, <1>8, <2>1, LoopIs
<1> QED BY <1>8, <1>9 DEF After

(* Files lie one behind the other.                                         *)
LEMMA SizesGrow ==
  \A n \in 0..N : \A m \in 0..n : SizeOfFirst[m] <= SizeOfFirst[n]
<1> DEFINE V == SizeOfFirst
           T == {n \in 0..N : \A m \in 0..n : V[m] <= V[n]}
<1> HIDE DEF V
<1>1. N \in Nat /\ \A n \in 0..N : V[n] \in Nat
  BY SizesAre, HostIs DEF V
<1>2. \A n \in 1..N : V[n - 1] <= V[n]
  <2> TAKE n \in 1..N
  <2>1. V[n] = V[n - 1] + Len(Host[n].data) /\ Len(Host[n].data) \in Nat
    BY SizesAre, HostIs DEF V
  <2>2. n - 1 \in 0..N
    BY <1>1
  <2>3. V[n - 1] \in Nat
    BY <1>1, <2>2
  <2> DEFINE l == Len(Host[n].data)
  <2> HIDE DEF l
  <2>4. V[n] = V[n - 1] + l /\ l \in Nat
    BY <2>1 DEF l
  <2> QED BY <2>3, <2>4
<1>3. ASSUME NEW n \in 0..N, \A j \in 0..(n - 1) : j \in T PROVE n \in T
  <2> SUFFICES ASSUME NEW m \in 0..n PROVE V[m] <= V[n]
    OBVIOUS
  <2>0. V[m] \in Nat /\ V[n] \in Nat
    BY <1>1
  <2>1. CASE m = n
    BY <2>0, <2>1
  <2>2. CASE m # n
    <3>1. n \in 1..N /\ n - 1 \in 0..(n - 1) /\ n - 1 \in 0..N /\ m \in 0..(n - 1) /\ m \in 0..N
      BY <1>1, <2>2
    <3>3. n - 1 \in T
      <4> HIDE DEF T
      <4> QED BY <1>3, <3>1
    <3>2. V[m] <= V[n - 1]
      BY <3>1, <3>3
    <3>4. V[n - 1] <= V[n] /\ V[n - 1] \in Nat
      BY <1>1, <1>2, <3>1
    <3> QED BY <2>0, <3>2, <3>4
  <2> QED BY <2>1, <2>2
<1> HIDE DEF T
<1>4. 0..N \subseteq T
  BY <1>1, <1>3, StrongInduction
<1> QED BY <1>4 DEF T, V

(* The bytes of the first n files, with another one behind them.           *)
LEMMA OneMore ==
  ASSUME NEW w \in Strings, NEW d \in Strings, NEW n \in Nat \ {0}, n \in 1..N,
         d = Host[n].data, Len(w) = SizeOfFirst[n - 1],
         \A f \in 1..(n - 1) : \A i \in 1..Len(Host[f].data) :
            w[SizeOfFirst[f - 1] + i] = Host[f].data[i]
  PROVE  /\ Len(w \o d) = SizeOfFirst[n]
         /\ \A f \in 1..n : \A i \in 1..Len(Host[f].data) :
               (w \o d)[SizeOfFirst[f - 1] + i] = Host[f].data[i]
<1> DEFINE V == SizeOfFirst
           wd == w \o d
<1>1. /\ wd \in Strings /\ Len(wd) = Len(w) + Len(d)
      /\ \A i \in 1..Len(w) : wd[i] = w[i]
      /\ \A i \in 1..Len(d) : wd[Len(w) + i] = d[i]
  BY Joined, Zenon
<1> HIDE DEF V, wd
<1>2. V[n] = Len(w) + Len(d) /\ Len(w) \in Nat /\ Len(d) \in Nat /\ Len(w) = V[n - 1]
  BY SizesAre DEF V, Strings
<1>3. ASSUME NEW f \in 1..n, NEW i \in 1..Len(Host[f].data)
      PROVE  wd[V[f - 1] + i] = Host[f].data[i]
  <2>1. CASE f = n
    <3>1. i \in 1..Len(d) /\ d[i] = Host[f].data[i] /\ V[f - 1] + i = Len(w) + i
      BY <1>2, <2>1
    <3> QED BY <1>1, <3>1
  <2>2. CASE f # n
    <3> DEFINE l == Len(Host[f].data)
    <3>1. f \in 1..(n - 1) /\ f \in 1..N /\ f \in 0..(n - 1) /\ n - 1 \in 0..N /\ f - 1 \in 0..N
      BY <2>2, HostIs
    <3>2. V[f] = V[f - 1] + l
      BY <3>1, SizesAre DEF V
    <3>3. V[f - 1] \in Nat /\ V[f] \in Nat /\ l \in Nat
      BY <3>1, SizesAre, HostIs DEF V
    <3>4. V[f] <= V[n - 1]
      BY <3>1, SizesGrow DEF V
    <3>5. w[V[f - 1] + i] = Host[f].data[i]
      BY <3>1 DEF V
    <3> HIDE DEF l
    <3>6. i \in Nat /\ 1 <= i /\ i <= l
      BY <3>3 DEF l
    <3> DEFINE low == V[f - 1]
               high == V[f]
               last == V[n - 1]
    <3>7. low \in Nat /\ high = low + l /\ l \in Nat /\ last = Len(w) /\ high <= last
      BY <1>2, <3>2, <3>3, <3>4
    <3> HIDE DEF low, high, last
    <3>8. low + i \in 1..Len(w)
      BY <1>2, <3>6, <3>7
    <3>9. V[f - 1] + i \in 1..Len(w)
      BY <3>8 DEF low
    <3> QED BY <1>1, <3>5, <3>9
  <2> QED BY <2>1, <2>2
<1> QED BY <1>1, <1>2, <1>3 DEF V, wd

LEMMA ImageIs ==
  /\ Image \in Strings /\ Len(Image) = SizeOfFirst[N]
  /\ \A f \in Files : \A i \in 1..Len(Host[f].data) :
        Image[SizeBefore(f) + i] = Host[f].data[i]
<1> DEFINE V == SizeOfFirst
           Right(w, n) == /\ Len(w) = V[n]
                          /\ \A f \in 1..n : \A i \in 1..Len(Host[f].data) :
                                w[V[f - 1] + i] = Host[f].data[i]
           T == {n \in 0..N : Right(Written[n], n)}
<1>1. N \in Nat
  BY HostIs
<1>2. ASSUME NEW n \in 0..N, \A j \in 0..(n - 1) : j \in T PROVE n \in T
  <2>1. CASE n = 0
    BY <2>1, WrittenIs, SizesAre
  <2>2. CASE n # 0
    <3>1. n \in 1..N /\ n - 1 \in 0..(n - 1) /\ n - 1 \in 0..N /\ n \in Nat \ {0}
      BY <1>1, <2>2
    <3>2. n - 1 \in T
      <4> HIDE DEF T
      <4> QED BY <1>2, <3>1
    <3> DEFINE w == Written[n - 1]
               d == Host[n].data
    <3>3. w \in Strings /\ Right(w, n - 1)
      BY <3>1, <3>2, WrittenIs
    <3>4. d \in Strings
      BY <3>1, HostIs
    <3>5. Written[n] = w \o d
      BY <3>1, WrittenIs, Zenon
    <3>6. Right(w \o d, n)
      <4> HIDE DEF w
      <4> QED BY <3>1, <3>3, <3>4, OneMore, Zenon
    <3> HIDE DEF w, d
    <3>7. Right(Written[n], n)
      BY <3>5, <3>6, Zenon
    <3> QED BY <3>7
  <2> QED BY <2>1, <2>2
<1>3. N \in T
  <2> HIDE DEF T
  <2>1. 0..N \subseteq T
    BY <1>1, <1>2, StrongInduction
  <2> QED BY <1>1, <2>1
<1>4. Image = Written[N] /\ Files = 1..N
  BY HostIs DEF Image, N
<1>5. Image \in Strings
  BY <1>1, <1>4, WrittenIs
<1> QED BY <1>3, <1>4, <1>5 DEF SizeBefore
-----------------------------------------------------------------------------
(* Where the bytes of a file lie: those of two files never overlap.        *)
LEMMA PlaceIs ==
  ASSUME NEW f \in Files
  PROVE  /\ f \in 1..N /\ f - 1 \in 0..N /\ SizeBefore(f) \in Nat /\ Len(Host[f].data) \in Nat
         /\ SizeOfFirst[f] = SizeBefore(f) + Len(Host[f].data) /\ SizeOfFirst[f] \in Nat
         /\ SizeOfFirst[N] \in Nat /\ SizeOfFirst[f] <= SizeOfFirst[N]
<1>1. f \in 1..N /\ f - 1 \in 0..N /\ f \in 0..N /\ N \in 0..N /\ f \in 0..N
  BY HostIs
<1>2. SizeOfFirst[f] <= SizeOfFirst[N]
  BY <1>1, SizesGrow
<1>3. SizeOfFirst[f] \in Nat /\ SizeOfFirst[f - 1] \in Nat /\ SizeOfFirst[N] \in Nat
  BY <1>1, SizesAre
<1>4. SizeOfFirst[f] = SizeOfFirst[f - 1] + Len(Host[f].data)
  BY <1>1, SizesAre
<1> QED BY <1>1, <1>2, <1>3, <1>4, HostIs DEF SizeBefore

LEMMA FilesApart ==
  ASSUME NEW f \in Files, NEW g \in Files, f # g, NEW i \in 1..Len(Host[g].data)
  PROVE  SizeBefore(g) + i \notin (SizeBefore(f) + 1)..(SizeBefore(f) + Len(Host[f].data))
<1> DEFINE bf == SizeBefore(f)
           bg == SizeBefore(g)
           lf == Len(Host[f].data)
           lg == Len(Host[g].data)
<1>1. /\ f \in 1..N /\ bf \in Nat /\ lf \in Nat /\ SizeOfFirst[f] = bf + lf
      /\ g \in 1..N /\ bg \in Nat /\ lg \in Nat /\ SizeOfFirst[g] = bg + lg
  BY PlaceIs
<1>2. f < g => SizeOfFirst[f] <= SizeOfFirst[g - 1]
  <2>1. f < g => g - 1 \in 0..N /\ f \in 0..(g - 1)
    BY <1>1, HostIs
  <2> QED BY <2>1, SizesGrow
<1>3. g < f => SizeOfFirst[g] <= SizeOfFirst[f - 1]
  <2>1. g < f => f - 1 \in 0..N /\ g \in 0..(f - 1)
    BY <1>1, HostIs
  <2> QED BY <2>1, SizesGrow
<1>4. bf = SizeOfFirst[f - 1] /\ bg = SizeOfFirst[g - 1]
  BY DEF SizeBefore
<1> HIDE DEF bf, bg, lf, lg
<1>5. i \in 1..lg
  BY DEF lg
<1>6. bg + i \notin (bf + 1)..(bf + lf)
  <2>1. CASE f < g
    <3>1. bf + lf <= bg
      BY <1>1, <1>2, <1>4, <2>1
    <3> QED BY <1>1, <1>5, <3>1
  <2>2. CASE g < f
    <3>1. bg + lg <= bf
      BY <1>1, <1>3, <1>4, <2>2
    <3> QED BY <1>1, <1>5, <3>1
  <2>3. f < g \/ g < f
    BY <1>1
  <2> QED BY <2>1, <2>2, <2>3
<1> QED BY <1>6 DEF bf, bg, lf

(* The offsets in the headers count from the start of the image, of which  *)
(* the number of files is a part: with Location they name the bytes.       *)
LEMMA AddressIs ==
  ASSUME NEW f \in Files, NEW i \in Int
  PROVE  /\ Mounted(f).length = Len(Host[f].data)
         /\ Byte(Mounted(f).offset + 0 + i - 1) = SizeBefore(f) + i
         /\ Byte(Mounted(f).offset + 0) = SizeBefore(f) + 1
<1>1. Mounted(f).length = Len(Host[f].data) /\ Mounted(f).offset = (DataAt + SizeBefore(f)) + Location
  BY DEF Mounted, Header
<1>2. DataAt = FilesAt /\ FilesAt \in Int
  <2> DEFINE p == HeaderSize * Slots
  <2>1. HeaderSize \in Nat /\ Slots \in Nat /\ IntSize \in Nat
    BY InitrdAssumption
  <2>2. p \in Int
    BY <2>1
  <2>3. DataAt = p + IntSize /\ FilesAt = IntSize + p
    BY DEF DataAt, FilesAt
  <2> HIDE DEF p
  <2> QED BY <2>1, <2>2, <2>3
<1>3. Location \in Nat /\ SizeBefore(f) \in Nat
  BY InitrdAssumption, PlaceIs
<1> QED BY <1>1, <1>2, <1>3 DEF Byte

Memory(img) == img \in Strings /\ Len(img) = SizeOfFirst[N]
BytesOf(img, f) == [i \in 1..Len(Host[f].data) |-> img[SizeBefore(f) + i]]

LEMMA BytesAre ==
  ASSUME NEW img, Memory(img), NEW f \in Files
  PROVE  /\ BytesOf(img, f) \in Strings /\ Len(BytesOf(img, f)) = Len(Host[f].data)
         /\ \A i \in 1..Len(Host[f].data) :
               /\ SizeBefore(f) + i \in 1..Len(img) /\ SizeBefore(f) + i \in DOMAIN img
               /\ BytesOf(img, f)[i] = img[SizeBefore(f) + i]
<1> DEFINE l == Len(Host[f].data)
<1>1. l \in Nat /\ SizeBefore(f) \in Nat /\ SizeBefore(f) + l <= Len(img) /\ Len(img) \in Nat
  BY PlaceIs DEF Memory
<1> HIDE DEF l
<1>2. \A i \in 1..l : SizeBefore(f) + i \in 1..Len(img)
  BY <1>1
<1>3. DOMAIN img = 1..Len(img) /\ \A i \in 1..Len(img) : img[i] \in Characters
  BY DEF Memory, Strings
<1>4. BytesOf(img, f) = [i \in 1..l |-> img[SizeBefore(f) + i]]
  BY DEF BytesOf, l
<1>5. BytesOf(img, f) \in Strings /\ Len(BytesOf(img, f)) = l
  BY <1>1, <1>2, <1>3, <1>4 DEF Strings
<1> QED BY <1>2, <1>3, <1>4, <1>5 DEF l

(* At first they are what the files hold on the host.                      *)
LEMMA ImageHolds ==
  /\ Memory(Image) /\ \A f \in Files : BytesOf(Image, f) = Host[f].data
<1>1. Memory(Image)
  BY ImageIs DEF Memory
<1>2. ASSUME NEW f \in Files PROVE BytesOf(Image, f) = Host[f].data
  <2>1. Host[f].data \in Strings
    BY HostIs
  <2>2. /\ BytesOf(Image, f) \in Strings /\ Len(BytesOf(Image, f)) = Len(Host[f].data)
        /\ \A i \in 1..Len(Host[f].data) : BytesOf(Image, f)[i] = Image[SizeBefore(f) + i]
    BY <1>1, BytesAre
  <2>3. \A i \in 1..Len(Host[f].data) : BytesOf(Image, f)[i] = Host[f].data[i]
    BY <2>2, ImageIs
  <2> DEFINE b == BytesOf(Image, f)
             d == Host[f].data
  <2> HIDE DEF b, d
  <2>4. b \in Strings /\ d \in Strings /\ Len(b) = Len(d) /\ \A i \in 1..Len(b) : b[i] = d[i]
    BY <2>1, <2>2, <2>3 DEF b, d
  <2>5. b = d
    BY <2>4, SameSequence
  <2> QED BY <2>5 DEF b, d
<1> QED BY <1>1, <1>2
-----------------------------------------------------------------------------
(* What read and write do to a file.                                       *)
LEMMA StoreMinIs ==
  ASSUME NEW S \in SUBSET Nat, NEW n \in S, \A k \in S : n <= k
  PROVE  Store!Min(S) = n
<1>1. \A x \in S : x <= n /\ n <= x => x = n
  OBVIOUS
<1> QED BY <1>1 DEF Store!Min

LEMMA PrefixOfPrefix ==
  ASSUME NEW s \in Strings, NEW k \in 0..Len(s), NEW n \in 0..k
  PROVE  SubSeq(SubSeq(s, 1, k), 1, n) = SubSeq(s, 1, n)
<1> DEFINE p == SubSeq(s, 1, k)
           a == SubSeq(p, 1, n)
           b == SubSeq(s, 1, n)
<1>1. Len(s) \in Nat /\ n \in 0..Len(s)
  BY DEF Strings
<1>2. p \in Strings /\ Len(p) = k /\ \A i \in 1..k : p[i] = s[i]
  BY PrefixIs
<1> HIDE DEF p
<1>3. a \in Strings /\ Len(a) = n /\ \A i \in 1..n : a[i] = p[i]
  BY <1>2, PrefixIs
<1>4. b \in Strings /\ Len(b) = n /\ \A i \in 1..n : b[i] = s[i]
  BY <1>1, PrefixIs
<1> HIDE DEF a, b
<1>5. \A i \in 1..Len(a) : a[i] = b[i]
  BY <1>1, <1>2, <1>3, <1>4
<1>6. a = b
  BY <1>3, <1>4, <1>5, SameSequence
<1> QED BY <1>6 DEF a, b, p

(* What is visible of a text that ends after n characters.                 *)
LEMMA VisibleIs ==
  ASSUME NEW c \in Strings, NEW k \in Nat, k <= Len(c), k <= ReadSize, k = Len(c) \/ k = ReadSize,
         NEW n \in 0..k, \A i \in 1..n : c[i] # "nul", n < k => c[n + 1] = "nul"
  PROVE  Store!Visible(c) = SubSeq(c, 1, n)
<1> DEFINE I == {i \in 1..Len(c) : c[i] = "nul" \/ i = ReadSize + 1}
<1>0. Len(c) \in Nat /\ ReadSize \in Nat
  BY ShellAssumption DEF Strings
<1>1. DOMAIN c = 1..Len(c)
  BY DEF Strings
<1>2. Store!Visible(c) = IF I = {} THEN c ELSE SubSeq(c, 1, Store!Min(I) - 1)
  BY <1>1, Zenon DEF Store!Visible
<1>3. I \in SUBSET Nat
  BY <1>0
<1>4. CASE n < Len(c)
  <2>1. n + 1 \in I
    BY <1>0, <1>4
  <2>2. \A i \in I : n + 1 <= i
    BY <1>0
  <2>3. Store!Min(I) = n + 1
    <3> HIDE DEF I
    <3> QED BY <1>3, <2>1, <2>2, StoreMinIs
  <2>4. (n + 1) - 1 = n
    OBVIOUS
  <2> HIDE DEF I
  <2> QED BY <1>2, <2>1, <2>3, <2>4
<1>5. CASE n = Len(c)
  <2>1. I = {}
    BY <1>0, <1>5
  <2>2. c = SubSeq(c, 1, n)
    BY <1>5 DEF Strings
  <2> HIDE DEF I
  <2> QED BY <1>2, <2>1, <2>2
<1> QED BY <1>0, <1>4, <1>5

LEMMA ReadShows ==
  ASSUME NEW img, Memory(img), NEW f \in Files
  PROVE  UpTo("nul", ReadFs(img, FileNode(f), 0, ReadSize)) = Store!Visible(BytesOf(img, f))
<1> DEFINE c == BytesOf(img, f)
           k == IF ReadSize < Len(c) THEN ReadSize ELSE Len(c)
           r == ReadFs(img, FileNode(f), 0, ReadSize)
           d == Len(Host[f].data)
<1>1. /\ c \in Strings /\ Len(c) = d /\ d \in Nat
      /\ \A i \in 1..d : SizeBefore(f) + i \in DOMAIN img /\ c[i] = img[SizeBefore(f) + i]
  BY BytesAre, PlaceIs
<1>2. ReadSize \in Nat
  BY ShellAssumption
<1>3. ReadLength(Mounted(f), 0, ReadSize) = k
  <2>1. Mounted(f).length = d
    BY AddressIs
  <2> HIDE DEF d, c
  <2>2. ReadLength(Mounted(f), 0, ReadSize) = IF ReadSize > d THEN d ELSE ReadSize
    BY <1>1, <1>2, <2>1 DEF ReadLength
  <2> QED BY <1>1, <1>2, <2>2
<1>4. r = [i \in 1..k |-> IF Byte(Mounted(f).offset + 0 + i - 1) \in DOMAIN img
                          THEN img[Byte(Mounted(f).offset + 0 + i - 1)] ELSE "beyond"]
  <2> HIDE DEF k
  <2>1. r = InitrdRead(img, FileNode(f), 0, ReadSize) /\ FileNode(f).inode = f
    BY DEF ReadFs, FileNode
  <2> QED BY <1>3, <2>1 DEF InitrdRead
<1>5. k \in 0..Len(c) /\ k \in Nat /\ k <= Len(c) /\ k <= ReadSize /\ (k = Len(c) \/ k = ReadSize)
  <2> HIDE DEF c
  <2> QED BY <1>1, <1>2
<1> HIDE DEF r, c, k
<1>6. r = [i \in 1..k |-> c[i]]
  <2>1. ASSUME NEW i \in 1..k
        PROVE  (IF Byte(Mounted(f).offset + 0 + i - 1) \in DOMAIN img
                THEN img[Byte(Mounted(f).offset + 0 + i - 1)] ELSE "beyond") = c[i]
    <3>1. i \in Int /\ i \in 1..d
      BY <1>1, <1>5
    <3>2. Byte(Mounted(f).offset + 0 + i - 1) = SizeBefore(f) + i
      BY <3>1, AddressIs
    <3> HIDE DEF d
    <3> QED BY <1>1, <3>1, <3>2
  <2> QED BY <1>4, <2>1
<1>7. r = SubSeq(c, 1, k)
  <2> DEFINE p == SubSeq(c, 1, k)
  <2>1. p \in Strings /\ Len(p) = k /\ \A i \in 1..k : p[i] = c[i]
    BY <1>1, <1>5, PrefixIs
  <2>2. r \in Strings /\ Len(r) = k /\ \A i \in 1..k : r[i] = c[i]
    BY <1>1, <1>5, <1>6 DEF Strings
  <2> HIDE DEF p
  <2>3. r = p
    BY <2>1, <2>2, SameSequence
  <2> QED BY <2>3 DEF p
<1>8. r \in Strings /\ Len(r) = k /\ \A i \in 1..k : r[i] = c[i]
  BY <1>1, <1>5, <1>7, PrefixIs
<1>9. PICK n \in 0..Len(r) : /\ \A i \in 1..n : r[i] # "nul"
                             /\ n < Len(r) => r[n + 1] = "nul"
                             /\ UpTo("nul", r) = SubSeq(r, 1, n)
  BY <1>8, UpToSplits
<1>10. n \in 0..k /\ \A i \in 1..n : c[i] # "nul"
  BY <1>5, <1>8, <1>9
<1>11. n < k => c[n + 1] = "nul"
  BY <1>5, <1>8, <1>9
<1>12. Store!Visible(c) = SubSeq(c, 1, n)
  BY <1>1, <1>5, <1>10, <1>11, VisibleIs
<1>13. SubSeq(r, 1, n) = SubSeq(c, 1, n)
  BY <1>1, <1>5, <1>7, <1>10, PrefixOfPrefix
<1> QED BY <1>9, <1>12, <1>13 DEF r, c

(* A write changes one file, within its length, and begins it with the text. *)
LEMMA WriteKeeps ==
  ASSUME NEW img, Memory(img), NEW f \in Files, NEW b \in Strings, NEW text \in Strings,
         Len(text) <= Len(b), \A i \in 1..Len(text) : b[i] = text[i]
  PROVE  LET new == WriteFs(img, FileNode(f), 0, 0, b)
         IN  /\ Memory(new)
             /\ \A g \in Files \ {f} : BytesOf(new, g) = BytesOf(img, g)
             /\ Len(BytesOf(new, f)) = Len(BytesOf(img, f))
             /\ Store!BeginsWith(BytesOf(new, f), text)
<1> DEFINE new == WriteFs(img, FileNode(f), 0, 0, b)
           d == Len(Host[f].data)
           at == SizeBefore(f)
<1>1. d \in Nat /\ at \in Nat /\ Len(text) \in Nat /\ Len(b) \in Nat
  BY PlaceIs DEF Strings
<1>2. img \in Strings /\ Len(img) \in Nat /\ Len(img) = SizeOfFirst[N]
  BY DEF Memory, Strings
<1>3. new = Memcpy(img, at + 1, b, d)
  <2>1. new = InitrdWrite(img, FileNode(f), 0, 0, b) /\ FileNode(f).inode = f
    BY DEF WriteFs, FileNode
  <2>2. Byte(Mounted(f).offset + 0) = at + 1 /\ WriteLength(Mounted(f), 0) = d
    BY AddressIs DEF WriteLength
  <2> HIDE DEF new, at, d
  <2> QED BY <2>1, <2>2 DEF InitrdWrite
<1> HIDE DEF new
<1>4. /\ DOMAIN img = 1..Len(img) /\ \A i \in 1..Len(img) : img[i] \in Characters
      /\ DOMAIN b = 1..Len(b) /\ \A i \in 1..Len(b) : b[i] \in Characters
  BY <1>2 DEF Strings
<1> HIDE DEF d, at
<1>5. \A i \in 1..Len(img) : /\ i \notin (at + 1)..(at + d) => new[i] = img[i]
                             /\ i \in (at + 1)..(at + d) /\ i - at \in 1..Len(b) => new[i] = b[i - at]
                             /\ new[i] \in Characters
  <2> TAKE i \in 1..Len(img)
  <2>1. new[i] = IF i \notin (at + 1)..((at + 1) + d - 1) THEN img[i]
                 ELSE IF i - (at + 1) + 1 \in DOMAIN b THEN b[i - (at + 1) + 1] ELSE "beyond"
    BY <1>3, <1>4 DEF Memcpy
  <2>2. (at + 1) + d - 1 = at + d /\ i - (at + 1) + 1 = i - at
    BY <1>1, <1>2
  <2>3. CASE i \notin (at + 1)..(at + d)
    BY <1>4, <2>1, <2>2, <2>3
  <2>4. CASE i \in (at + 1)..(at + d)
    <3>0. new[i] = IF i - at \in 1..Len(b) THEN b[i - at] ELSE "beyond"
      BY <1>4, <2>1, <2>2, <2>4
    <3>1. CASE i - at \in 1..Len(b)
      <4>1. b[i - at] \in Characters /\ new[i] = b[i - at]
        BY <1>4, <3>0, <3>1
      <4> QED BY <2>4, <4>1
    <3>2. CASE i - at \notin 1..Len(b)
      <4>2. new[i] = "beyond"
        BY <3>0, <3>2
      <4>3. "beyond" \in Characters
        BY InitrdAssumption
      <4>1. new[i] \in Characters
        BY <4>2, <4>3, Zenon
      <4> QED BY <2>4, <3>2, <4>1
    <3> QED BY <3>1, <3>2
  <2> QED BY <2>3, <2>4
<1>6. Memory(new)
  <2>1. new = [i \in 1..Len(img) |-> new[i]]
    BY <1>3, <1>4 DEF Memcpy
  <2> DEFINE m == Len(img)
  <2>3. m \in Nat /\ new = [i \in 1..m |-> new[i]] /\ \A i \in 1..m : new[i] \in Characters
    BY <1>2, <1>5, <2>1, Zenon
  <2> HIDE DEF m
  <2>4. new \in [1..m -> Characters]
    BY <2>3
  <2>5. new \in Seq(Characters) /\ Len(new) = m
    BY <2>3, <2>4
  <2>2. new \in Strings /\ Len(new) = Len(img)
    BY <2>5 DEF Strings, m
  <2> QED BY <1>2, <2>2 DEF Memory
<1>7. ASSUME NEW g \in Files \ {f} PROVE BytesOf(new, g) = BytesOf(img, g)
  <2>1. ASSUME NEW i \in 1..Len(Host[g].data)
        PROVE  new[SizeBefore(g) + i] = img[SizeBefore(g) + i]
    <3>1. SizeBefore(g) + i \in 1..Len(img)
      BY BytesAre
    <3>2. SizeBefore(g) + i \notin (at + 1)..(at + d)
      BY FilesApart DEF at, d
    <3> QED BY <1>5, <3>1, <3>2
  <2> QED BY <2>1 DEF BytesOf
<1>8. Len(BytesOf(new, f)) = d /\ Len(BytesOf(img, f)) = d
  BY <1>6, BytesAre DEF d
<1>9. Store!BeginsWith(BytesOf(new, f), text)
  <2> SUFFICES ASSUME NEW i \in DOMAIN BytesOf(new, f) \cap DOMAIN text
               PROVE  BytesOf(new, f)[i] = text[i]
    BY DEF Store!BeginsWith
  <2>1. i \in 1..d /\ i \in 1..Len(text)
    BY DEF BytesOf, Strings, d
  <2>2. BytesOf(new, f)[i] = new[at + i] /\ at + i \in 1..Len(new)
    BY <1>6, <2>1, BytesAre DEF at, d
  <2>3. Len(new) = Len(img)
    BY <1>2, <1>6 DEF Memory
  <2>4. at + i \in (at + 1)..(at + d) /\ (at + i) - at = i /\ i \in 1..Len(b)
    BY <1>1, <2>1
  <2>5. new[at + i] = b[i]
    BY <1>5, <2>2, <2>3, <2>4
  <2> QED BY <2>1, <2>2, <2>5
<1> QED BY <1>6, <1>7, <1>8, <1>9 DEF new
-----------------------------------------------------------------------------
(* finddir in the root directory: the directory, no node, or the first of  *)
(* the files with that name.                                               *)
SameName(x) == {f \in Files : Strcmp(x, FileNode(f).name)}

LEMMA FoundIs ==
  ASSUME NEW x
  PROVE  \/ Strcmp(x, Dev) /\ FinddirFs(RootNode, x) = DevNode
         \/ ~Strcmp(x, Dev) /\ SameName(x) = {} /\ FinddirFs(RootNode, x) = NoNode
         \/ ~Strcmp(x, Dev) /\ \E f \in SameName(x) : FinddirFs(RootNode, x) = FileNode(f)
<1> DEFINE same == SameName(x)
           r == FinddirFs(RootNode, x)
<1>1. r = InitrdFinddir(RootNode, x) /\ IsRoot(RootNode)
  BY DEF FinddirFs, RootNode, Directory, IsRoot
<1>2. r = CASE IsRoot(RootNode) /\ Strcmp(x, Dev) -> DevNode
            [] ~(IsRoot(RootNode) /\ Strcmp(x, Dev)) /\ same = {} -> NoNode
            [] OTHER -> FileNode(CHOOSE f \in same : \A g \in same : f <= g)
  BY <1>1 DEF InitrdFinddir, SameName
<1>3. same # {} => \E f \in same : \A g \in same : f <= g
  <2>1. same \in SUBSET Nat
    BY HostIs DEF SameName
  <2> HIDE DEF same
  <2> QED BY <2>1, LeastNumber
<1> DEFINE least == CHOOSE f \in same : \A g \in same : f <= g
<1>4. same # {} => least \in same
  <2> HIDE DEF same
  <2> QED BY <1>3
<1>5. CASE Strcmp(x, Dev)
  <2> HIDE DEF r, same
  <2>1. r = DevNode
    BY <1>1, <1>2, <1>5
  <2> QED BY <1>5, <2>1 DEF r
<1>6. CASE ~Strcmp(x, Dev) /\ same = {}
  <2> HIDE DEF r, same
  <2>1. r = NoNode
    BY <1>2, <1>6
  <2> QED BY <1>6, <2>1 DEF r, same
<1>7. CASE ~Strcmp(x, Dev) /\ same # {}
  <2> HIDE DEF r, same, least
  <2>1. r = FileNode(least)
    BY <1>2, <1>7 DEF least
  <2> QED BY <1>4, <1>7, <2>1 DEF r, same
<1> QED BY <1>5, <1>6, <1>7

LEMMA NamedAreFiles ==
  ASSUME NEW b, NEW node \in FilesNamed(b) PROVE \E f \in Files : node = FileNode(f)
<1>1. node.flags = "file" /\ \E x : node = FinddirFs(RootNode, x)
  BY DEF FilesNamed, Named
<1>2. PICK x : node = FinddirFs(RootNode, x)
  BY <1>1
<1>3. node # DevNode /\ node # NoNode
  BY <1>1 DEF DevNode, Directory, NoNode
<1>4. \E f \in SameName(x) : node = FileNode(f)
  BY <1>2, <1>3, FoundIs
<1> QED BY <1>4 DEF SameName
-----------------------------------------------------------------------------
(* A line, as it lies in the buffer.                                       *)
LEMMA LineIs ==
  ASSUME NEW line \in Lines
  PROVE  /\ line \in Strings /\ Len(line) \in Nat
         /\ Append(line, "nul") \in Strings /\ Len(Append(line, "nul")) = Len(line) + 1
         /\ \A i \in 1..Len(line) : Append(line, "nul")[i] = line[i]
         /\ Append(line, "nul")[Len(line) + 1] = "nul"
<1>1. line \in Strings /\ "nul" \in Characters
  BY ShellAssumption, InitrdAssumption DEF Strings
<1> QED BY <1>1 DEF Strings

LEMMA FillerIs ==
  ASSUME NEW n \in Nat
  PROVE  Filler(n) \in Strings /\ Len(Filler(n)) = n /\ \A i \in 1..n : Filler(n)[i] = "0"
<1>1. "0" \in Characters
  BY InitrdAssumption
<1> QED BY <1>1 DEF Filler, Strings

LEMMA TypedIs ==
  ASSUME behind \in Strings, NEW line \in Lines
  PROVE  /\ Typed(line) \in Strings /\ Len(line) + 1 <= Len(Typed(line))
         /\ BufSize + Len(behind) <= Len(Typed(line)) /\ Len(Typed(line)) \in Nat
         /\ Len(line) + 1 <= BufSize + Len(behind) => Len(Typed(line)) = BufSize + Len(behind)
         /\ \A i \in 1..(Len(line) + 1) : Typed(line)[i] = Append(line, "nul")[i]
         /\ \A i \in (Len(line) + 2)..BufSize : Typed(line)[i] = "0"
<1> DEFINE a == Append(line, "nul")
           z == Filler(BufSize)
           d == z \o behind
<1>1. a \in Strings /\ Len(a) = Len(line) + 1 /\ Len(line) \in Nat
  BY LineIs
<1>2. BufSize \in Nat
  BY ShellAssumption
<1>3. z \in Strings /\ Len(z) = BufSize /\ \A i \in 1..BufSize : z[i] = "0"
  BY <1>2, FillerIs
<1> HIDE DEF a, z
<1>4. d \in Strings /\ Len(d) = BufSize + Len(behind) /\ \A i \in 1..BufSize : d[i] = z[i]
  BY <1>3, Joined
<1>5. Len(behind) \in Nat
  BY DEF Strings
<1> HIDE DEF d
<1>6. /\ Over(a, d) \in Strings
      /\ Len(Over(a, d)) = IF Len(a) < Len(d) THEN Len(d) ELSE Len(a)
      /\ \A i \in 1..Len(a) : Over(a, d)[i] = a[i]
      /\ \A i \in (Len(a) + 1)..Len(d) : Over(a, d)[i] = d[i]
  BY <1>1, <1>4, OverIs
<1>7. Typed(line) = Over(a, d)
  BY DEF Typed, a, d, z
<1>8. \A i \in (Len(line) + 2)..BufSize : Over(a, d)[i] = "0"
  BY <1>1, <1>2, <1>3, <1>4, <1>5, <1>6
<1>9. Len(line) + 1 <= Len(Over(a, d)) /\ BufSize + Len(behind) <= Len(Over(a, d))
      /\ Len(Over(a, d)) \in Nat
      /\ (Len(line) + 1 <= BufSize + Len(behind) => Len(Over(a, d)) = BufSize + Len(behind))
  BY <1>1, <1>2, <1>4, <1>5, <1>6
<1> QED BY <1>1, <1>6, <1>7, <1>8, <1>9 DEF a
-----------------------------------------------------------------------------
StoreInv ==
    Memory(image) /\ behind \in Strings /\ Len(behind) = Spare /\ input \in BOOLEAN

LEMMA StoreIs ==
  /\ [f \in Files |-> Content(f)] = [f \in Files |-> BytesOf(image, f)]
  /\ [f \in Files |-> Content(f)]' = [f \in Files |-> BytesOf(image', f)]
  BY DEF Content, BytesOf

LEMMA CatShows ==
  ASSUME StoreInv, NEW x, NEW cats \in BOOLEAN, shown' = IF cats THEN Cat(x) ELSE << >>
  PROVE  Store!Shows
<1>1. CASE ~cats \/ FilesNamed(x) = {}
  BY <1>1 DEF Cat, Store!Shows
<1>2. CASE cats /\ FilesNamed(x) # {}
  <2> DEFINE node == CHOOSE n \in FilesNamed(x) : TRUE
  <2>1. node \in FilesNamed(x)
    BY <1>2
  <2> HIDE DEF node
  <2>2. PICK f \in Files : node = FileNode(f)
    BY <2>1, NamedAreFiles
  <2>3. shown' = UpTo("nul", ReadFs(image, node, 0, ReadSize))
    BY <1>2 DEF Cat, node
  <2>4. shown' = Store!Visible(BytesOf(image, f))
    BY <2>2, <2>3, ReadShows DEF StoreInv
  <2>5. [g \in Files |-> Content(g)][f] = BytesOf(image, f)
    BY DEF Content, BytesOf
  <2> QED BY <2>4, <2>5 DEF Store!Shows
<1> QED BY <1>1, <1>2

(* One file is written, and only after a line that asked for it.           *)
LEMMA WriteSaves ==
  ASSUME StoreInv, NEW x, NEW line \in Lines, image' \in Write(x, Typed(line)),
         input, input' = FALSE, Store!Shows
  PROVE  Store!Next /\ Memory(image')
<1>1. PICK node \in FilesNamed(x) : image' = WriteFs(image, node, 0, 0, Typed(line))
  BY DEF Write
<1>2. PICK f \in Files : node = FileNode(f)
  BY NamedAreFiles
<1> DEFINE b == Typed(line)
           a == Append(line, "nul")
<1>3. b \in Strings /\ a \in Strings /\ Len(a) <= Len(b) /\ \A i \in 1..Len(a) : b[i] = a[i]
  BY TypedIs, LineIs DEF StoreInv
<1>4. image' = WriteFs(image, FileNode(f), 0, 0, b)
  BY <1>1, <1>2
<1> HIDE DEF b, a
<1>5. /\ Memory(image')
      /\ \A g \in Files \ {f} : BytesOf(image', g) = BytesOf(image, g)
      /\ Len(BytesOf(image', f)) = Len(BytesOf(image, f))
      /\ Store!BeginsWith(BytesOf(image', f), a)
  BY <1>3, <1>4, WriteKeeps DEF StoreInv
<1>6. Store!Save(f, line)
  BY <1>5, StoreIs DEF Store!Save, a
<1> QED BY <1>5, <1>6 DEF Store!Next

LEMMA InterpretStores ==
  ASSUME StoreInv, NEW line \in Lines, Interpret(line)
  PROVE  StoreInv' /\ [Store!Next]_(Store!vars)
<1> DEFINE b == Typed(line)
           lists == Is("ls", b)
           cats == StartsWith("cat", b)
           writes == StartsWith("write", b) /\ ~input
           clean == IF input THEN internal_buf ELSE Filler(InternalSize)
           named == IF cats \/ writes THEN Tailed(b, clean) ELSE clean
           saved == IF input THEN Write(named, b) ELSE {}
           lost == TooLong(line) \/ ((cats \/ writes) /\ ~Ends(b))
<1>1. \/ UNCHANGED <<image, behind, input, shown>>
      \/ /\ behind' = SubSeq(b, BufSize + 1, BufSize + Spare)
         /\ shown' = (IF cats THEN Cat(named) ELSE << >>)
         /\ input' = writes
         /\ IF saved # {} THEN image' \in saved ELSE UNCHANGED image
  BY Zenon DEF Interpret
<1>2. cats \in BOOLEAN /\ writes \in BOOLEAN
  BY DEF StartsWith, StoreInv
<1>3. b \in Strings
  BY TypedIs DEF StoreInv
<1> HIDE DEF b, cats, clean, named
<1>4. CASE UNCHANGED <<image, behind, input, shown>>
  BY <1>4 DEF StoreInv, Memory, Store!vars, Content
<1>5. CASE /\ behind' = SubSeq(b, BufSize + 1, BufSize + Spare)
           /\ shown' = (IF cats THEN Cat(named) ELSE << >>)
           /\ input' = writes
           /\ IF saved # {} THEN image' \in saved ELSE UNCHANGED image
  <2>1. Store!Shows
    <3>1. cats \in BOOLEAN /\ shown' = IF cats THEN Cat(named) ELSE << >>
      BY <1>2, <1>5
    <3> QED BY <3>1, CatShows
  <2>2. behind' \in Strings /\ Len(behind') = Spare
    <3>1. BufSize \in Nat /\ Spare \in Nat
      BY ShellAssumption
    <3>2. BufSize + Spare <= Len(b)
      BY TypedIs DEF StoreInv, b
    <3> QED BY <1>3, <1>5, <3>1, <3>2, MiddleIs
  <2>3. input' \in BOOLEAN
    BY <1>2, <1>5
  <2>4. CASE saved = {}
    <3>1. image' = image
      BY <1>5, <2>4
    <3>2. [f \in Files |-> Content(f)]' = [f \in Files |-> Content(f)]
      BY <3>1 DEF Content
    <3>3. Store!Next
      <4>1. CASE input
        <5>1. input' = FALSE
          BY <1>5, <4>1
        <5> QED BY <2>1, <3>2, <4>1, <5>1 DEF Store!Next, Store!Drop
      <4>2. CASE ~input /\ writes
        <5>1. input' = TRUE
          BY <1>2, <1>5, <4>2
        <5> QED BY <2>1, <3>2, <4>2, <5>1 DEF Store!Next, Store!Ask
      <4>3. CASE ~input /\ ~writes
        <5>1. input' = FALSE /\ input = FALSE
          BY <1>2, <1>5, <4>3 DEF StoreInv
        <5> QED BY <2>1, <3>2, <5>1 DEF Store!Next, Store!Command
      <4> QED BY <4>1, <4>2, <4>3
    <3> QED BY <2>2, <2>3, <3>1, <3>3 DEF StoreInv, Memory
  <2>5. CASE saved # {}
    <3>1. image' \in saved /\ input
      BY <1>5, <2>5
    <3>2. image' \in Write(named, Typed(line)) /\ input' = FALSE
      BY <1>5, <2>5, <3>1 DEF b
    <3>3. Store!Next /\ Memory(image')
      BY <2>1, <3>1, <3>2, WriteSaves
    <3> QED BY <2>2, <2>3, <3>3 DEF StoreInv, Memory
  <2> QED BY <2>4, <2>5
<1> QED BY <1>1, <1>4, <1>5

LEMMA InitStores == Init => StoreInv /\ Store!Init
<1> SUFFICES ASSUME Init PROVE StoreInv /\ Store!Init
  OBVIOUS
<1>1. image = Image /\ input = FALSE /\ shown = << >> /\ behind = [i \in 1..Spare |-> "nul"]
  BY DEF Init
<1>2. behind \in Strings /\ Len(behind) = Spare
  <2>1. Spare \in Nat /\ "nul" \in Characters
    BY ShellAssumption, InitrdAssumption
  <2> QED BY <1>1, <2>1 DEF Strings
<1>3. Memory(image)
  BY <1>1, ImageHolds
<1>4. [f \in Files |-> Content(f)] = [f \in Files |-> Host[f].data]
  <2>1. \A f \in Files : Content(f) = Host[f].data
    BY <1>1, ImageHolds DEF Content, BytesOf
  <2> QED BY <2>1
<1> QED BY <1>1, <1>2, <1>3, <1>4 DEF StoreInv, Store!Init

(* The shell keeps the promise of a file store: the files start as the     *)
(* host had them and change only by the line that follows a "write", one   *)
(* at a time and within its length, and cat shows what is there.           *)
THEOREM SpecImplementsFileStore == Spec => ImplementsFileStore
<1>1. StoreInv /\ [Next]_vars => StoreInv' /\ [Store!Next]_(Store!vars)
  <2> SUFFICES ASSUME StoreInv, [Next]_vars
               PROVE  StoreInv' /\ [Store!Next]_(Store!vars)
    OBVIOUS
  <2>1. CASE Next
    BY <2>1, InterpretStores DEF Next
  <2>2. CASE UNCHANGED vars
    BY <2>2 DEF vars, history, StoreInv, Memory, Store!vars, Content
  <2> QED BY <2>1, <2>2
<1> QED BY <1>1, InitStores, PTL DEF Spec, ImplementsFileStore, Store!Spec
-----------------------------------------------------------------------------
(* What strtail takes out of the buffer.                                   *)
LEMMA TailPlace ==
  ASSUME NEW b \in Strings, NEW p \in 1..Len(b), b[p] = "space", \A i \in 1..(p - 1) : b[i] # "space"
  PROVE  TailAt(b) = p + 1
<1> DEFINE I == {i \in 1..Len(b) : b[i] = "space"}
<1>0. Len(b) \in Nat
  BY DEF Strings
<1>1. TailAt(b) = (IF I # {} THEN Min(I) ELSE 0) + 1
  BY DEF TailAt, SelectInSeq
<1>2. p \in I /\ \A k \in I : p <= k
  BY <1>0
<1>3. Min(I) = p
  <2>1. I \in SUBSET Nat
    BY <1>0
  <2> HIDE DEF I
  <2> QED BY <1>2, <2>1, MinIs
<1> HIDE DEF I
<1> QED BY <1>1, <1>2, <1>3

LEMMA StrTailIs ==
  ASSUME NEW b \in Strings, NEW p \in 1..(Len(b) - 1), b[p] = "space", \A i \in 1..(p - 1) : b[i] # "space"
  PROVE  /\ StrTail(b) \in Strings
         /\ \A n \in 1..(Len(b) - p) :
               (\A i \in 2..n : b[p + i] # "0")
               => Len(StrTail(b)) >= n /\ \A i \in 1..n : StrTail(b)[i] = b[p + i]
<1> DEFINE m == Len(b)
           t == SubSeq(b, p + 1, m)
           u == SubSeq(t, 2, Len(t))
           v == UpTo("0", u)
           one == <<t[1]>>
<1>1. m \in Nat /\ p \in Nat /\ p + 1 <= m
  BY DEF Strings
<1>2. TailAt(b) = p + 1
  <2>1. p \in 1..Len(b)
    BY <1>1
  <2> QED BY <2>1, TailPlace
<1>3. t \in Strings /\ Len(t) = m - p /\ \A i \in 1..(m - p) : t[i] = b[p + i]
  <2> DEFINE k == m - p
  <2>1. k \in Nat /\ p + k = m /\ p + k <= Len(b)
    BY <1>1
  <2> HIDE DEF k, m
  <2>2. SubSeq(b, p + 1, p + k) = t
    BY <2>1
  <2>3. t \in Strings /\ Len(t) = k /\ \A i \in 1..k : t[i] = b[p + i]
    BY <1>1, <2>1, <2>2, MiddleIs
  <2> QED BY <2>3 DEF k
<1>4. StrTail(b) = one \o v
  BY <1>2 DEF StrTail
<1> HIDE DEF t, m
<1>5. u \in Strings /\ Len(u) = (m - p) - 1 /\ \A i \in 1..((m - p) - 1) : u[i] = t[i + 1]
  <2> DEFINE k == Len(t) - 1
  <2>1. k \in Nat /\ 1 + k = Len(t) /\ k = (m - p) - 1
    BY <1>1, <1>3
  <2> HIDE DEF k
  <2>2. SubSeq(t, 1 + 1, 1 + k) = u
    BY <2>1
  <2> HIDE DEF u
  <2>5. 1 \in Nat /\ 1 + k <= Len(t)
    BY <1>1, <1>3, <2>1
  <2>6. /\ SubSeq(t, 1 + 1, 1 + k) \in Strings /\ Len(SubSeq(t, 1 + 1, 1 + k)) = k
        /\ \A i \in 1..k : SubSeq(t, 1 + 1, 1 + k)[i] = t[1 + i]
    BY <1>3, <2>1, <2>5, MiddleIs, Zenon
  <2>3. u \in Strings /\ Len(u) = k /\ \A i \in 1..k : u[i] = t[1 + i]
    BY <2>2, <2>6, Zenon
  <2>4. \A i \in 1..k : 1 + i = i + 1
    BY <2>1
  <2> QED BY <2>1, <2>3, <2>4
<1>6. PICK l \in 0..Len(u) : /\ \A i \in 1..l : u[i] # "0"
                             /\ l < Len(u) => u[l + 1] = "0"
                             /\ v = SubSeq(u, 1, l)
  <2> HIDE DEF u
  <2> QED BY <1>5, UpToSplits, Zenon
<1> HIDE DEF u
<1>7. v \in Strings /\ Len(v) = l /\ \A i \in 1..l : v[i] = u[i]
  <2> HIDE DEF v
  <2>1. u \in Strings /\ l \in 0..Len(u) /\ v = SubSeq(u, 1, l)
    BY <1>5, <1>6
  <2> QED BY <2>1, PrefixIs, Zenon
<1>8. one \in Strings /\ Len(one) = 1 /\ one[1] = t[1]
  <2>1. t[1] \in Characters
    BY <1>1, <1>3 DEF Strings
  <2> QED BY <2>1 DEF Strings
<1> HIDE DEF v, one
<1>9. /\ one \o v \in Strings /\ Len(one \o v) = 1 + l
      /\ (one \o v)[1] = t[1] /\ \A i \in 1..l : (one \o v)[1 + i] = v[i]
  <2>1. /\ one \o v \in Strings /\ Len(one \o v) = Len(one) + Len(v)
        /\ \A i \in 1..Len(one) : (one \o v)[i] = one[i]
        /\ \A i \in 1..Len(v) : (one \o v)[Len(one) + i] = v[i]
    BY <1>7, <1>8, Joined, Zenon
  <2> QED BY <1>7, <1>8, <2>1
<1>10. ASSUME NEW n \in 1..(m - p), \A i \in 2..n : b[p + i] # "0"
       PROVE  1 + l >= n /\ \A i \in 1..n : (one \o v)[i] = b[p + i]
  <2>1. 1 + l >= n
    <3> SUFFICES ASSUME 1 + l < n PROVE FALSE
      BY <1>1, <1>5
    <3>1. l < Len(u) /\ l + 1 \in 1..((m - p) - 1) /\ l + 2 \in 2..n /\ l + 2 \in 1..(m - p)
      BY <1>1, <1>5
    <3>2. u[l + 1] = "0" /\ u[l + 1] = t[(l + 1) + 1] /\ t[l + 2] = b[p + (l + 2)]
      BY <1>3, <1>5, <1>6, <3>1
    <3>3. (l + 1) + 1 = l + 2
      BY <1>1, <1>5
    <3> QED BY <1>10, <3>1, <3>2, <3>3
  <2>2. ASSUME NEW i \in 1..n PROVE (one \o v)[i] = b[p + i]
    <3>1. CASE i = 1
      BY <1>1, <1>3, <1>9, <3>1
    <3>2. CASE i # 1
      <4>1. i - 1 \in 1..l /\ i - 1 \in 1..((m - p) - 1) /\ 1 + (i - 1) = i /\ (i - 1) + 1 = i
            /\ i \in 1..(m - p)
        BY <1>1, <1>5, <2>1, <3>2
      <4>2. (one \o v)[1 + (i - 1)] = u[i - 1] /\ u[i - 1] = t[(i - 1) + 1] /\ t[i] = b[p + i]
        BY <1>3, <1>5, <1>7, <1>9, <4>1
      <4> QED BY <4>1, <4>2
    <3> QED BY <3>1, <3>2
  <2> QED BY <2>1, <2>2
<1>11. \A n \in 1..(m - p) : (\A i \in 2..n : b[p + i] # "0")
          => Len(one \o v) >= n /\ \A i \in 1..n : (one \o v)[i] = b[p + i]
  BY <1>9, <1>10
<1> QED BY <1>4, <1>9, <1>11 DEF m

(* A command whose name is ended by a digit has a tail.                    *)
LEMMA TailTyped ==
  ASSUME behind \in Strings, NEW line \in Lines, Ends(Typed(line))
  PROVE  StrTail(Typed(line)) \in Strings
<1> DEFINE b == Typed(line)
           I == {i \in 1..Len(b) : b[i] = "space"}
<1>1. b \in Strings /\ Len(b) \in Nat /\ DOMAIN b = 1..Len(b)
  BY TypedIs DEF Strings
<1>2. PICK i \in 1..Len(b), j \in 1..Len(b) : b[i] = "space" /\ i + 2 <= j
  BY <1>1 DEF Ends
<1> HIDE DEF b
<1>3. i \in I /\ I \in SUBSET Nat
  BY <1>1, <1>2
<1>4. PICK p \in I : \A k \in I : p <= k
  <2> HIDE DEF I
  <2> QED BY <1>3, LeastNumber
<1>5. p \in 1..(Len(b) - 1) /\ b[p] = "space"
  <2>1. p \in 1..Len(b) /\ b[p] = "space" /\ p <= i
    BY <1>3, <1>4
  <2> QED BY <1>1, <1>2, <2>1
<1>6. \A k \in 1..(p - 1) : b[k] # "space"
  BY <1>1, <1>4, <1>5
<1> QED BY <1>1, <1>5, <1>6, StrTailIs DEF b
-----------------------------------------------------------------------------
(* The directory entry after each round of a loop over the root directory. *)
NameOf(i) == IF i = 0 THEN Dev ELSE Host[i].name

LEMMA NamesAre ==
  \A i \in 0..N : NameOf(i) \in Strings /\ Len(NameOf(i)) \in Nat \ {0} /\ "nul" \notin ToSet(NameOf(i))
<1> TAKE i \in 0..N
<1>1. CASE i = 0
  <2>1. "dev" \in Characters
    BY InitrdAssumption
  <2>2. Dev \in Strings /\ Len(Dev) = 1
    BY <2>1 DEF Dev, Strings
  <2>3. "nul" \notin ToSet(Dev)
    BY DEF Dev, ToSet
  <2> QED BY <1>1, <2>2, <2>3 DEF NameOf
<1>2. CASE i # 0
  <2>1. i \in Files
    BY <1>2, HostIs
  <2> QED BY <1>2, <2>1, HostIs DEF NameOf
<1> QED BY <1>1, <1>2

(* A name that is copied over another one and ended is read back alone.    *)
LEMMA CopiedIs ==
  ASSUME NEW name \in Strings, "nul" \notin ToSet(name), NEW d \in Strings
  PROVE  Copied(name, d) \in Strings /\ UpTo("nul", Copied(name, d)) = name
<1> DEFINE a == Append(name, "nul")
           c == Over(a, d)
<1>1. "nul" \in Characters /\ Len(name) \in Nat /\ Len(d) \in Nat
  BY InitrdAssumption DEF Strings
<1>2. /\ a \in Strings /\ Len(a) = Len(name) + 1 /\ a[Len(name) + 1] = "nul"
      /\ \A i \in 1..Len(name) : a[i] = name[i]
  BY <1>1 DEF Strings
<1> HIDE DEF a
<1>3. c \in Strings /\ Len(a) <= Len(c) /\ Len(c) \in Nat /\ \A i \in 1..Len(a) : c[i] = a[i]
  <2>1. /\ Over(a, d) \in Strings
        /\ Len(Over(a, d)) = IF Len(a) < Len(d) THEN Len(d) ELSE Len(a)
        /\ \A i \in 1..Len(a) : Over(a, d)[i] = a[i]
    BY <1>2, OverIs
  <2> QED BY <1>1, <1>2, <2>1
<1> HIDE DEF c
<1>4. /\ Len(name) < Len(c) /\ c[Len(name) + 1] = "nul"
      /\ \A i \in 1..Len(name) : c[i] = name[i]
  BY <1>1, <1>2, <1>3
<1>5. UpTo("nul", c) = name
  BY <1>3, <1>4, NameFound
<1>6. Copied(name, d) = c
  BY DEF Copied, c, a
<1> QED BY <1>3, <1>5, <1>6

(* The name of a node has no end of its own: it is read back only when the *)
(* memory behind it was 0.                                                 *)
LEMMA NodeNames ==
  ASSUME NEW f \in Files
  PROVE  /\ FileNode(f).name \in Strings
         /\ Fresh = "nul" => UpTo("nul", FileNode(f).name) = Host[f].name
<1> DEFINE name == Host[f].name
           a == Append(name, "nul")
           c == Over(name, FreshName)
<1>1. /\ name \in Strings /\ "nul" \notin ToSet(name) /\ Len(name) \in Nat
      /\ Len(name) < NodeNameSize /\ NodeNameSize \in Nat
  <2>1. /\ name \in Strings /\ "nul" \notin ToSet(name) /\ Len(name) \in 1..(NameSize - 1)
        /\ NameSize \in Nat /\ NodeNameSize \in Nat /\ NameSize < NodeNameSize
    BY HostIs, InitrdAssumption
  <2> QED BY <2>1
<1> HIDE DEF name
<1>2. UpTo("nul", a) = name
  <2>1. "nul" \in Characters
    BY InitrdAssumption
  <2>2. a \in Strings /\ Len(name) < Len(a) /\ a[Len(name) + 1] = "nul"
        /\ \A i \in 1..Len(name) : a[i] = name[i]
    BY <1>1, <2>1 DEF Strings
  <2> HIDE DEF a
  <2> QED BY <1>1, <2>2, NameFound
<1>3. FileNode(f).name = c
  BY <1>2 DEF FileNode, Header, name
<1>4. FreshName \in Strings /\ Len(FreshName) = NodeNameSize /\ \A i \in 1..NodeNameSize : FreshName[i] = Fresh
  <2>1. Fresh \in Characters
    BY InitrdAssumption
  <2> QED BY <1>1, <2>1 DEF FreshName, Strings
<1>5. /\ c \in Strings /\ Len(c) = NodeNameSize
      /\ \A i \in 1..Len(name) : c[i] = name[i]
      /\ \A i \in (Len(name) + 1)..NodeNameSize : c[i] = Fresh
  <2> DEFINE d == FreshName
  <2> HIDE DEF d
  <2>1. d \in Strings /\ Len(d) = NodeNameSize /\ \A i \in 1..NodeNameSize : d[i] = Fresh
    BY <1>4 DEF d
  <2>2. /\ Over(name, d) \in Strings
        /\ Len(Over(name, d)) = IF Len(name) < Len(d) THEN Len(d) ELSE Len(name)
        /\ \A i \in 1..Len(name) : Over(name, d)[i] = name[i]
        /\ \A i \in (Len(name) + 1)..Len(d) : Over(name, d)[i] = d[i]
    BY <1>1, <2>1, OverIs
  <2>3. \A i \in (Len(name) + 1)..NodeNameSize : i \in 1..NodeNameSize
    BY <1>1
  <2> QED BY <1>1, <2>1, <2>2, <2>3 DEF d
<1> HIDE DEF c
<1>6. Fresh = "nul" => UpTo("nul", c) = name
  <2>1. Len(name) + 1 \in (Len(name) + 1)..NodeNameSize
    BY <1>1
  <2>2. Fresh = "nul" => c[Len(name) + 1] = "nul"
    BY <1>5, <2>1
  <2> QED BY <1>1, <1>5, <2>2, NameFound
<1> QED BY <1>3, <1>5, <1>6 DEF name

LEMMA EntriesAre ==
  ASSUME dirent \in Strings
  PROVE  DOMAIN Entries(dirent) = 0..N /\
         \A i \in 0..N : /\ Entries(dirent)[i] \in Strings
                         /\ Fresh = "nul" => UpTo("nul", Entries(dirent)[i]) = NameOf(i)
<1> DEFINE step(i, v) == ReaddirFs(RootNode, i, v)
           b == step(0, dirent)
           g == [x \in (1..N) \X Strings |-> step(x[1], x[2])]
           Eq(h) == h = [i \in 0..N |-> step(i, IF i = 0 THEN dirent ELSE h[i - 1])]
           V == Entries(dirent)
<1>1. N \in Nat /\ \A i \in 1..N : i - 1 \in 0..N /\ i \in 0..N /\ i # 0
  BY HostIs
<1>2. ASSUME NEW i \in 0..N, NEW v \in Strings
      PROVE  /\ step(i, v) \in Strings
             /\ Fresh = "nul" => UpTo("nul", step(i, v)) = NameOf(i)
  <2>1. step(i, v) = InitrdReaddir(RootNode, i, v) /\ IsRoot(RootNode)
    BY DEF ReaddirFs, RootNode, Directory, IsRoot
  <2>2. CASE i = 0
    <3>1. step(i, v) = Copied(Dev, v)
      <4>1. i \notin Files
        BY <2>2, HostIs
      <4> QED BY <2>1, <2>2, <4>1 DEF InitrdReaddir
    <3>2. Dev \in Strings /\ "nul" \notin ToSet(Dev) /\ NameOf(i) = Dev
      BY <1>1, <2>2, NamesAre DEF NameOf
    <3> QED BY <3>1, <3>2, CopiedIs
  <2>3. CASE i # 0
    <3>1. i \in Files
      BY <2>3, HostIs
    <3> DEFINE u == UpTo("nul", FileNode(i).name)
    <3>2. step(i, v) = Copied(u, v)
      BY <2>1, <2>3, <3>1 DEF InitrdReaddir
    <3>3. u \in Strings /\ "nul" \notin ToSet(u) /\ (Fresh = "nul" => u = NameOf(i))
      <4>1. FileNode(i).name \in Strings /\ (Fresh = "nul" => u = NameOf(i))
        BY <2>3, <3>1, NodeNames DEF NameOf
      <4> DEFINE s == FileNode(i).name
      <4> HIDE DEF s
      <4>2. PICK n \in 0..Len(s) : /\ \A k \in 1..n : s[k] # "nul"
                                   /\ UpTo("nul", s) = SubSeq(s, 1, n)
        BY <4>1, UpToSplits DEF s
      <4>3. u = SubSeq(s, 1, n) /\ s \in Strings
        BY <4>1, <4>2 DEF s
      <4>4. u \in Strings /\ Len(u) = n /\ \A k \in 1..n : u[k] = s[k]
        BY <4>3, PrefixIs
      <4> HIDE DEF u
      <4>5. "nul" \notin ToSet(u)
        BY <4>2, <4>4 DEF ToSet, Strings
      <4> QED BY <4>1, <4>4, <4>5 DEF u
    <3> HIDE DEF u
    <3> QED BY <3>2, <3>3, CopiedIs
  <2> QED BY <2>2, <2>3
<1> HIDE DEF step
<1>3. /\ g \in [(1..N) \X Strings -> Strings]
      /\ \A i \in 1..N, v \in Strings : g[<<i, v>>] = step(i, v)
  BY <1>1, <1>2
<1>4. Loop(Strings, b, N, g)
  <2>1. b \in Strings
    BY <1>1, <1>2
  <2> HIDE DEF g, b
  <2> QED BY <1>1, <1>3, <2>1 DEF Loop
<1>5. PICK f : After(f, Strings, b, N, g)
  <2> HIDE DEF g, b
  <2> QED BY <1>4, LoopEnds
<1>6. Eq(f)
  <2> HIDE DEF g
  <2>1. \A i \in 0..N : i = 0 \/ i \in 1..N
    BY <1>1
  <2>2. f = [i \in 0..N |-> f[i]]
    BY <1>5 DEF After
  <2>3. \A i \in 0..N : f[i] = step(i, IF i = 0 THEN dirent ELSE f[i - 1])
    <3> TAKE i \in 0..N
    <3>1. CASE i = 0
      BY <1>5, <3>1 DEF After
    <3>2. CASE i # 0
      <4>1. i \in 1..N /\ i - 1 \in 0..N
        BY <1>1, <2>1, <3>2
      <4>2. f[i] = g[<<i, f[i - 1]>>] /\ f[i - 1] \in Strings
        BY <1>5, <4>1 DEF After
      <4> QED BY <1>3, <3>2, <4>1, <4>2
    <3> QED BY <3>1, <3>2
  <2> QED BY <2>2, <2>3, Zenon
<1>7. Eq(V)
  BY <1>6 DEF Entries, N, step
<1>8. /\ V = [i \in 0..N |-> V[i]] /\ V[0] = b
      /\ \A i \in 1..N : V[i] = step(i, V[i - 1])
  <2> HIDE DEF V
  <2>1. \A i \in 0..N : V[i] = step(i, IF i = 0 THEN dirent ELSE V[i - 1])
    BY <1>7, Zenon
  <2>2. V = [i \in 0..N |-> V[i]]
    BY <1>7, <2>1, Zenon
  <2>3. 0 \in 0..N
    BY <1>1
  <2>4. V[0] = b
    BY <2>1, <2>3, Zenon
  <2>5. \A i \in 1..N : V[i] = step(i, V[i - 1])
    BY <1>1, <2>1, Zenon
  <2> QED BY <2>2, <2>4, <2>5
<1>9. After(V, Strings, b, N, g)
  <2> HIDE DEF V, g, b
  <2>1. \A i \in 1..N : V[i - 1] \in Strings => V[i] = g[<<i, V[i - 1]>>]
    BY <1>3, <1>8
  <2> QED BY <1>4, <1>8, <2>1, LoopIs
<1> HIDE DEF V
<1>10. ASSUME NEW i \in 0..N
       PROVE  V[i] \in Strings /\ (Fresh = "nul" => UpTo("nul", V[i]) = NameOf(i))
  <2>1. V[i] \in Strings
    BY <1>9 DEF After
  <2>2. CASE i = 0
    BY <1>2, <1>8, <2>1, <2>2
  <2>3. CASE i # 0
    <3>1. i \in 1..N /\ i - 1 \in 0..N /\ V[i - 1] \in Strings
      BY <1>1, <1>9, <2>3 DEF After
    <3> QED BY <1>2, <1>8, <2>1, <3>1
  <2> QED BY <2>2, <2>3
<1>11. DOMAIN V = 0..N
  BY <1>8
<1> QED BY <1>10, <1>11 DEF V
-----------------------------------------------------------------------------
ShellInv == StoreInv /\ internal_buf \in Strings /\ dirent \in Strings

(* What interpret leaves in internal_buf.                                  *)
Commands(b) == StartsWith("cat", b) \/ (StartsWith("write", b) /\ ~input)
Clean == IF input THEN internal_buf ELSE Filler(InternalSize)
NameTaken(b) == IF Commands(b) THEN Tailed(b, Clean) ELSE Clean

LEMMA CleanTyped == ASSUME ShellInv PROVE Clean \in Strings
<1>1. InternalSize \in Nat
  BY ShellAssumption
<1>2. Filler(InternalSize) \in Strings
  BY <1>1, FillerIs
<1> QED BY <1>2 DEF Clean, ShellInv

LEMMA TakenTyped ==
  ASSUME ShellInv, NEW line \in Lines, Commands(Typed(line)) => Ends(Typed(line))
  PROVE  NameTaken(Typed(line)) \in Strings
<1> DEFINE b == Typed(line)
<1>1. CASE Commands(b)
  <2>1. StrTail(b) \in Strings
    BY <1>1, TailTyped DEF ShellInv, StoreInv
  <2>2. Over(StrTail(b), Clean) \in Strings
    BY <2>1, CleanTyped, OverIs
  <2> QED BY <1>1, <2>2 DEF NameTaken, Tailed
<1>2. CASE ~Commands(b)
  BY <1>2, CleanTyped DEF NameTaken
<1> QED BY <1>1, <1>2

LEMMA InterpretTyped ==
  ASSUME ShellInv, NEW line \in Lines, Interpret(line)
  PROVE  ShellInv'
<1>1. StoreInv'
  BY InterpretStores DEF ShellInv
<1>2. \/ UNCHANGED <<internal_buf, dirent>>
      \/ /\ Commands(Typed(line)) => Ends(Typed(line))
         /\ internal_buf' = NameTaken(Typed(line))
         /\ dirent' \in {dirent, Entries(dirent)[N]}
  BY Zenon DEF Interpret, Commands, NameTaken, Clean, N
<1>3. Entries(dirent)[N] \in Strings
  <2>1. N \in 0..N
    BY HostIs
  <2> QED BY <2>1, EntriesAre DEF ShellInv
<1>4. internal_buf' \in Strings /\ dirent' \in Strings
  BY <1>2, <1>3, TakenTyped DEF ShellInv
<1> QED BY <1>1, <1>4 DEF ShellInv

LEMMA InitTyped == Init => ShellInv
<1> SUFFICES ASSUME Init PROVE ShellInv
  OBVIOUS
<1>1. InternalSize \in Nat /\ NodeNameSize \in Nat /\ "nul" \in Characters
  BY ShellAssumption, InitrdAssumption
<1>2. internal_buf \in Strings /\ dirent \in Strings
  BY <1>1 DEF Init, Strings
<1> QED BY <1>2, InitStores DEF ShellInv

LEMMA StepTyped == ShellInv /\ [Next]_vars => ShellInv'
<1> SUFFICES ASSUME ShellInv, [Next]_vars PROVE ShellInv'
  OBVIOUS
<1>1. CASE Next
  BY <1>1, InterpretTyped DEF Next
<1>2. CASE UNCHANGED vars
  BY <1>2 DEF vars, history, ShellInv, StoreInv, Memory
<1> QED BY <1>1, <1>2
-----------------------------------------------------------------------------
(* The file whose name is asked for is the one that is found.              *)
LEMMA OnlyNamed ==
  ASSUME Fresh = "nul", dirent \in Strings, NEW f \in Files, Host[f].name # Dev,
         NEW x, UpTo("nul", x) = Host[f].name
  PROVE  FilesNamed(x) = {FileNode(f)}
<1> DEFINE entry == Entries(dirent)
           name == Host[f].name
<1>1. f \in 0..N /\ f # 0 /\ f \in 1..N
  BY HostIs
<1>2. \A j \in 0..N : entry[j] \in Strings /\ UpTo("nul", entry[j]) = NameOf(j)
  BY EntriesAre
<1>3. DOMAIN entry = 0..N
  BY EntriesAre
<1>4. ASSUME NEW j \in 0..N PROVE NameOf(j) = name <=> j = f
  <2>1. CASE j = 0
    BY <1>1, <2>1 DEF NameOf
  <2>2. CASE j # 0
    <3>1. j \in Files
      BY <2>2, HostIs
    <3> QED BY <2>2, <3>1, InitrdAssumption DEF NameOf
  <2> QED BY <2>1, <2>2
<1> HIDE DEF entry
<1>5. \A j \in 0..N : Strcmp(entry[j], x) <=> j = f
  BY <1>2, <1>4 DEF Strcmp
<1>6. Named(x) = {FinddirFs(RootNode, entry[f])}
  <2>1. Named(x) = {FinddirFs(RootNode, entry[i]) : i \in {j \in DOMAIN entry : Strcmp(entry[j], x)}}
    BY DEF Named, entry
  <2>2. {j \in DOMAIN entry : Strcmp(entry[j], x)} = {f}
    BY <1>1, <1>3, <1>5
  <2> QED BY <2>1, <2>2
<1>7. UpTo("nul", entry[f]) = name
  BY <1>1, <1>2, <1>4
<1>8. ~Strcmp(entry[f], Dev)
  <2>1. UpTo("nul", Dev) = Dev
    <3>1. "nul" \notin ToSet(Dev) /\ Dev \in Strings
      <4>1. 0 \in 0..N
        BY HostIs
      <4> QED BY <4>1, NamesAre DEF NameOf
    <3> DEFINE d == Dev
    <3> HIDE DEF d
    <3>2. d \in Strings /\ "nul" \notin ToSet(d)
      BY <3>1 DEF d
    <3>3. Len(d) \in 0..Len(d) /\ \A i \in 1..Len(d) : d[i] # "nul"
      BY <3>2 DEF ToSet, Strings
    <3>4. UpTo("nul", d) = SubSeq(d, 1, Len(d))
      BY <3>2, <3>3, UpToIs
    <3>5. SubSeq(d, 1, Len(d)) = d
      BY <3>2 DEF Strings
    <3> QED BY <3>4, <3>5 DEF d
  <2> QED BY <1>7, <2>1 DEF Strcmp
<1>9. SameName(entry[f]) = {f}
  <2>1. \A g \in Files : UpTo("nul", FileNode(g).name) = Host[g].name
    BY NodeNames
  <2>2. \A g \in Files : Strcmp(entry[f], FileNode(g).name) <=> g = f
    <3>1. \A g \in Files : Host[g].name = Host[f].name <=> g = f
      BY InitrdAssumption
    <3> DEFINE y == entry[f]
    <3> HIDE DEF y
    <3>2. UpTo("nul", y) = Host[f].name
      BY <1>7 DEF y
    <3>3. \A g \in Files : Strcmp(y, FileNode(g).name) <=> Host[f].name = Host[g].name
      BY <2>1, <3>2 DEF Strcmp
    <3> QED BY <3>1, <3>3 DEF y
  <2> QED BY <2>2 DEF SameName
<1>10. FinddirFs(RootNode, entry[f]) = FileNode(f)
  <2> DEFINE y == entry[f]
  <2> HIDE DEF y
  <2>1. ~Strcmp(y, Dev) /\ SameName(y) = {f}
    BY <1>8, <1>9 DEF y
  <2>2. \E g \in SameName(y) : FinddirFs(RootNode, y) = FileNode(g)
    BY <2>1, FoundIs
  <2> QED BY <2>1, <2>2 DEF y
<1>11. FileNode(f).flags = "file"
  BY DEF FileNode
<1> QED BY <1>6, <1>10, <1>11 DEF FilesNamed

(* What "cat" and the name of a file take out of the line.                 *)
LEMMA NameInLine ==
  ASSUME ShellInv, NEW line \in Lines, NEW name \in Strings, Len(name) \in Nat \ {0},
         "nul" \notin ToSet(name), "0" \notin ToSet(Tail(name)),
         line = <<"cat", "space">> \o name
  PROVE  UpTo("nul", NameTaken(Typed(line))) = name /\ StartsWith("cat", Typed(line))
<1> DEFINE b == Typed(line)
           l == Len(name)
           w == <<"cat", "space">>
<1>1. /\ Len(line) = 2 + l /\ line[1] = "cat" /\ line[2] = "space"
      /\ \A i \in 1..l : line[2 + i] = name[i]
  BY DEF Strings
<1>2. l \in Nat /\ l > 0
  OBVIOUS
<1> HIDE DEF l
<1>3. /\ b \in Strings /\ l + 3 <= Len(b) /\ Len(b) \in Nat
      /\ \A i \in 1..(l + 2) : b[i] = line[i]
      /\ b[l + 3] = "nul"
  <2> DEFINE a == Append(line, "nul")
  <2>1. /\ b \in Strings /\ Len(line) + 1 <= Len(b) /\ Len(b) \in Nat
        /\ \A i \in 1..(Len(line) + 1) : b[i] = a[i]
    BY TypedIs DEF ShellInv, StoreInv
  <2>2. (\A i \in 1..Len(line) : a[i] = line[i]) /\ a[Len(line) + 1] = "nul"
    BY LineIs
  <2> HIDE DEF a, b
  <2>3. Len(line) = l + 2 /\ Len(line) + 1 = l + 3
    BY <1>1, <1>2
  <2>4. \A i \in 1..(l + 2) : b[i] = line[i]
    BY <1>2, <2>1, <2>2, <2>3
  <2>5. l + 3 \in 1..(l + 3)
    BY <1>2
  <2> QED BY <2>1, <2>2, <2>3, <2>4, <2>5
<1> HIDE DEF b
<1>4. /\ b[1] = "cat" /\ b[2] = "space" /\ b[2 + (l + 1)] = "nul"
      /\ \A i \in 1..l : b[2 + i] = name[i]
  <2>1. 1 \in 1..(l + 2) /\ 2 \in 1..(l + 2) /\ 2 + (l + 1) = l + 3
    BY <1>2
  <2>2. \A i \in 1..l : 2 + i \in 1..(l + 2)
    BY <1>2
  <2> QED BY <1>1, <1>3, <2>1, <2>2
<1>5. ASSUME NEW i \in 2..(l + 1) PROVE b[2 + i] # "0"
  <2>1. CASE i = l + 1
    BY <1>4, <2>1
  <2>2. CASE i # l + 1
    <3>1. i \in 1..l /\ i - 1 \in 1..(l - 1) /\ (i - 1) + 1 = i
      BY <1>2, <2>2
    <3>2. Tail(name)[i - 1] = name[(i - 1) + 1] /\ DOMAIN Tail(name) = 1..(l - 1)
      BY <1>2, <3>1 DEF Strings, l
    <3>3. name[i] # "0"
      BY <3>1, <3>2 DEF ToSet
    <3> QED BY <1>4, <3>1, <3>3
  <2> QED BY <2>1, <2>2
<1> DEFINE t == StrTail(b)
<1>6. t \in Strings /\ Len(t) >= l + 1 /\ \A i \in 1..(l + 1) : t[i] = b[2 + i]
  <2>1. 2 \in 1..(Len(b) - 1) /\ l + 1 \in 1..(Len(b) - 2)
    BY <1>2, <1>3
  <2>2. \A i \in 1..(2 - 1) : b[i] # "space"
    BY <1>4
  <2> HIDE DEF t
  <2> QED BY <1>3, <1>4, <1>5, <2>1, <2>2, StrTailIs DEF t
<1>7. Commands(b) /\ StartsWith("cat", b)
  BY <1>4 DEF Commands, StartsWith
<1>8. NameTaken(b) = Over(t, Clean)
  BY <1>7 DEF NameTaken, Tailed
<1> HIDE DEF t
<1> DEFINE x == Over(t, Clean)
<1>9. x \in Strings /\ Len(t) <= Len(x) /\ Len(x) \in Nat /\ \A i \in 1..Len(t) : x[i] = t[i]
  <2> DEFINE c == Clean
  <2>1. c \in Strings
    BY CleanTyped
  <2> HIDE DEF c
  <2>2. /\ Over(t, c) \in Strings
        /\ Len(Over(t, c)) = IF Len(t) < Len(c) THEN Len(c) ELSE Len(t)
        /\ \A i \in 1..Len(t) : Over(t, c)[i] = t[i]
    BY <1>6, <2>1, OverIs
  <2>3. Len(t) \in Nat /\ Len(c) \in Nat
    BY <1>6, <2>1 DEF Strings
  <2> QED BY <2>2, <2>3 DEF c
<1> HIDE DEF x
<1>10. /\ l < Len(x) /\ x[l + 1] = "nul" /\ \A i \in 1..l : x[i] = name[i]
  <2>1. l + 1 \in 1..(l + 1) /\ l + 1 \in 1..Len(t) /\ \A i \in 1..l : i \in 1..(l + 1) /\ i \in 1..Len(t)
    BY <1>2, <1>6 DEF Strings
  <2> QED BY <1>2, <1>4, <1>6, <1>9, <2>1
<1>11. UpTo("nul", x) = name
  BY <1>9, <1>10, NameFound DEF l
<1> QED BY <1>7, <1>8, <1>11 DEF x, b

LEMMA InterpretShows ==
  ASSUME ShellInv, NEW line \in Lines, Interpret(line), query' # << >>
  PROVE  /\ query' = line
         /\ shown' = IF StartsWith("cat", Typed(line)) THEN Cat(NameTaken(Typed(line))) ELSE << >>
         /\ listing' = IF Is("ls", Typed(line)) THEN List ELSE << >>
         /\ Is("ls", Typed(line)) \/ StartsWith("cat", Typed(line))
  BY Zenon DEF Interpret, Commands, NameTaken, Clean

LEMMA CatShowsNamed ==
  ASSUME Fresh = "nul", ShellInv, NEW line \in Lines, Interpret(line), NEW f \in Files,
         Reachable(f), query' = <<"cat", "space">> \o Host[f].name
  PROVE  shown' = Store!Visible(Content(f))
<1> DEFINE name == Host[f].name
           x == NameTaken(Typed(line))
<1>1. /\ name \in Strings /\ Len(name) \in Nat \ {0} /\ "nul" \notin ToSet(name)
  BY HostIs
<1>2. "0" \notin ToSet(Tail(name)) /\ name # Dev
  BY DEF Reachable
<1>3. query' = <<"cat", "space">> \o name /\ query' # << >>
  <2> HIDE DEF name
  <2>1. query' = <<"cat", "space">> \o name
    BY DEF name
  <2>2. <<"cat", "space">> \o name # << >>
    BY <1>1 DEF Strings
  <2> QED BY <2>1, <2>2
<1> HIDE DEF name
<1>4. line = <<"cat", "space">> \o name
  BY <1>3, InterpretShows
<1>5. UpTo("nul", x) = name /\ StartsWith("cat", Typed(line))
  BY <1>1, <1>2, <1>4, NameInLine
<1>6. shown' = Cat(x)
  BY <1>3, <1>5, InterpretShows
<1> HIDE DEF x
<1>7. FilesNamed(x) = {FileNode(f)}
  BY <1>2, <1>5, OnlyNamed DEF name, ShellInv
<1>8. (CHOOSE node \in FilesNamed(x) : TRUE) = FileNode(f)
  BY <1>7
<1>9. shown' = UpTo("nul", ReadFs(image, FileNode(f), 0, ReadSize))
  BY <1>6, <1>7, <1>8 DEF Cat
<1> QED BY <1>9, ReadShows DEF ShellInv, StoreInv, Content, BytesOf

(* cat finds the file that is asked for, whatever longer names lay in its  *)
(* buffers before, when the memory of the nodes' names was cleared.        *)
THEOREM SpecCatFinds == Fresh = "nul" => (Spec => CatFinds)
<1> SUFFICES ASSUME Fresh = "nul" PROVE Spec => CatFinds
  OBVIOUS
<1> DEFINE Found == \A f \in Files :
                       Reachable(f) /\ query' = <<"cat", "space">> \o Host[f].name
                       => shown' = Store!Visible(Content(f))
<1>1. ShellInv /\ [Next]_vars => [Found]_vars
  <2> SUFFICES ASSUME ShellInv, Next, NEW f \in Files, Reachable(f),
                      query' = <<"cat", "space">> \o Host[f].name
               PROVE  shown' = Store!Visible(Content(f))
    OBVIOUS
  <2> QED BY CatShowsNamed DEF Next
<1> QED BY <1>1, InitTyped, StepTyped, PTL DEF Spec, CatFinds
-----------------------------------------------------------------------------
(* What ls lists in each round.                                            *)
LEMMA ListedIs ==
  ASSUME Fresh = "nul", dirent \in Strings
  PROVE  /\ Listed \in [0..(N + 1) -> Seq(Strings)] /\ Listed[0] = << >>
         /\ \A i \in 1..(N + 1) : Listed[i] = Append(Listed[i - 1], NameOf(i - 1))
<1> DEFINE name(i) == UpTo("nul", Entries(dirent)[i - 1])
           step(i, v) == IF name(i) = << >> THEN v ELSE Append(v, name(i))
           M == N + 1
           S == Seq(Strings)
           g == [x \in (1..M) \X S |-> step(x[1], x[2])]
           Eq(h) == h = [i \in 0..M |-> CASE i = 0 -> << >>
                                          [] i > 0 /\ name(i) = << >> -> h[i - 1]
                                          [] OTHER -> Append(h[i - 1], name(i))]
           V == Listed
<1>1. M \in Nat /\ N \in Nat /\ \A i \in 1..M : i - 1 \in 0..M /\ i \in 0..M /\ i # 0 /\ i > 0 /\ i - 1 \in 0..N
  BY HostIs
<1>2. \A i \in 1..M : name(i) = NameOf(i - 1) /\ name(i) \in Strings /\ name(i) # << >>
  <2> TAKE i \in 1..M
  <2>1. name(i) = NameOf(i - 1)
    BY <1>1, EntriesAre
  <2>2. NameOf(i - 1) \in Strings /\ Len(NameOf(i - 1)) \in Nat \ {0}
    BY <1>1, NamesAre
  <2> DEFINE m == NameOf(i - 1)
  <2> HIDE DEF m
  <2>3. m \in Strings /\ Len(m) # 0
    BY <2>2 DEF m
  <2>4. m # << >>
    BY <2>3
  <2> QED BY <2>1, <2>2, <2>4 DEF m
<1> HIDE DEF name
<1>3. \A i \in 1..M, v \in S : step(i, v) = Append(v, name(i)) /\ step(i, v) \in S
  BY <1>2
<1>4. /\ g \in [(1..M) \X S -> S]
      /\ \A i \in 1..M, v \in S : g[<<i, v>>] = step(i, v)
  <2> HIDE DEF step, S
  <2> QED BY <1>3
<1>5. Loop(S, << >>, M, g)
  <2>1. << >> \in S
    OBVIOUS
  <2> HIDE DEF g, S, M
  <2> QED BY <1>1, <1>4, <2>1 DEF Loop
<1> HIDE DEF S
<1>6. PICK f : After(f, S, << >>, M, g)
  <2> HIDE DEF g, M
  <2> QED BY <1>5, LoopEnds
<1> DEFINE body(h, i) == CASE i = 0 -> << >>
                           [] i > 0 /\ name(i) = << >> -> h[i - 1]
                           [] OTHER -> Append(h[i - 1], name(i))
<1>7. ASSUME NEW h PROVE /\ body(h, 0) = << >>
                         /\ \A i \in 1..M : body(h, i) = Append(h[i - 1], name(i))
  BY <1>1, <1>2
<1>8. Eq(f)
  <2> HIDE DEF g, body, step, M
  <2>1. \A i \in 0..M : i = 0 \/ i \in 1..M
    BY <1>1
  <2>2. f = [i \in 0..M |-> f[i]]
    BY <1>6 DEF After
  <2>3. \A i \in 0..M : f[i] = body(f, i)
    <3> TAKE i \in 0..M
    <3>1. CASE i = 0
      BY <1>6, <1>7, <3>1 DEF After
    <3>2. CASE i # 0
      <4>1. i \in 1..M /\ i - 1 \in 0..M
        BY <1>1, <2>1, <3>2
      <4>2. f[i] = g[<<i, f[i - 1]>>] /\ f[i - 1] \in S
        BY <1>6, <4>1 DEF After
      <4>3. f[i] = Append(f[i - 1], name(i))
        BY <1>3, <1>4, <4>1, <4>2
      <4> QED BY <1>7, <4>1, <4>3
    <3> QED BY <3>1, <3>2
  <2>4. f = [i \in 0..M |-> body(f, i)]
    BY <2>2, <2>3, Zenon
  <2> QED BY <2>4 DEF body
<1>9. Eq(V)
  BY <1>8 DEF Listed, N, name
<1>10. /\ V = [i \in 0..M |-> V[i]] /\ V[0] = << >>
       /\ \A i \in 1..M : V[i] = Append(V[i - 1], name(i))
  <2> HIDE DEF V, M
  <2>0. V = [i \in 0..M |-> body(V, i)]
    BY <1>9
  <2> HIDE DEF body
  <2>1. \A i \in 0..M : V[i] = body(V, i)
    BY <2>0, Zenon
  <2>2. V = [i \in 0..M |-> V[i]]
    BY <2>0, <2>1, Zenon
  <2>3. 0 \in 0..M
    BY <1>1
  <2>4. V[0] = << >>
    BY <1>7, <2>1, <2>3, Zenon
  <2>5. \A i \in 1..M : V[i] = Append(V[i - 1], name(i))
    BY <1>1, <1>7, <2>1, Zenon
  <2> QED BY <2>2, <2>4, <2>5
<1>11. After(V, S, << >>, M, g)
  <2> HIDE DEF V, g, step, M
  <2>1. \A i \in 1..M : V[i - 1] \in S => V[i] = g[<<i, V[i - 1]>>]
    BY <1>3, <1>4, <1>10
  <2> QED BY <1>5, <1>10, <2>1, LoopIs
<1> QED BY <1>2, <1>10, <1>11 DEF After, S

LEMMA ListIs ==
  ASSUME Fresh = "nul", dirent \in Strings
  PROVE  List = <<Dev>> \o [f \in Files |-> Host[f].name]
<1> DEFINE V == Listed
           Right(w, n) == Len(w) = n /\ \A i \in 1..n : w[i] = NameOf(i - 1)
           T == {n \in 0..(N + 1) : Right(V[n], n)}
<1>1. /\ N \in Nat /\ V \in [0..(N + 1) -> Seq(Strings)] /\ V[0] = << >>
      /\ \A i \in 1..(N + 1) : V[i] = Append(V[i - 1], NameOf(i - 1))
  BY ListedIs, HostIs
<1> HIDE DEF V
<1>2. ASSUME NEW n \in 0..(N + 1), \A j \in 0..(n - 1) : j \in T PROVE n \in T
  <2>1. CASE n = 0
    BY <1>1, <2>1
  <2>2. CASE n # 0
    <3>1. n \in 1..(N + 1) /\ n - 1 \in 0..(n - 1) /\ n - 1 \in 0..(N + 1) /\ n - 1 \in 0..N /\ n \in Nat
      BY <1>1, <2>2
    <3>2. n - 1 \in T
      <4> HIDE DEF T
      <4> QED BY <1>2, <3>1
    <3> DEFINE w == V[n - 1]
               a == NameOf(n - 1)
    <3>3. w \in Seq(Strings) /\ a \in Strings
      BY <1>1, <3>1, NamesAre
    <3>4. Right(w, n - 1)
      BY <3>2
    <3>5. V[n] = Append(w, a)
      BY <1>1, <3>1
    <3> HIDE DEF w
    <3>6. Len(Append(w, a)) = n /\ Append(w, a)[n] = a /\ \A i \in 1..(n - 1) : Append(w, a)[i] = w[i]
      <4> HIDE DEF a
      <4> QED BY <3>1, <3>3, <3>4
    <3>7. \A i \in 1..n : Append(w, a)[i] = NameOf(i - 1)
      <4> TAKE i \in 1..n
      <4>1. CASE i = n
        BY <3>6, <4>1
      <4>2. CASE i # n
        <5>1. i \in 1..(n - 1)
          BY <3>1, <4>2
        <5> QED BY <3>4, <3>6, <5>1
      <4> QED BY <4>1, <4>2
    <3> HIDE DEF a
    <3>8. Right(V[n], n)
      BY <3>5, <3>6, <3>7
    <3> QED BY <3>8
  <2> QED BY <2>1, <2>2
<1>3. Right(V[N + 1], N + 1)
  <2>1. N + 1 \in Nat /\ N + 1 \in 0..(N + 1)
    BY <1>1
  <2>2. 0..(N + 1) \subseteq T
    <3> DEFINE M == N + 1
    <3> HIDE DEF T
    <3>1. M \in Nat /\ \A k \in 0..M : (\A j \in 0..(k - 1) : j \in T) => k \in T
      BY <1>2, <2>1
    <3> HIDE DEF M
    <3>2. 0..M \subseteq T
      BY <3>1, StrongInduction
    <3> QED BY <3>2 DEF M
  <2> QED BY <2>1, <2>2
<1>4. List = V[N + 1] /\ V[N + 1] \in Seq(Strings)
  BY <1>1 DEF List, V, N
<1> DEFINE names == [f \in Files |-> Host[f].name]
           all == <<Dev>> \o names
<1>5. names \in Seq(Strings) /\ Len(names) = N /\ \A i \in 1..N : names[i] = NameOf(i)
  <2>1. Files = 1..N /\ N \in Nat /\ \A f \in 1..N : Host[f].name \in Strings
    BY HostIs
  <2>2. names = [f \in 1..N |-> Host[f].name]
    BY <2>1
  <2>3. names \in [1..N -> Strings]
    BY <2>1, <2>2
  <2> HIDE DEF names
  <2> QED BY <2>1, <2>2, <2>3 DEF NameOf
<1>6. Dev \in Strings
  <2>1. 0 \in 0..N
    BY HostIs
  <2> QED BY <2>1, NamesAre DEF NameOf
<1> HIDE DEF names
<1>7. all \in Seq(Strings) /\ Len(all) = N + 1 /\ \A i \in 1..(N + 1) : all[i] = NameOf(i - 1)
  <2> DEFINE d == Dev
             one == <<d>>
  <2> HIDE DEF d
  <2>1. one \in Seq(Strings) /\ Len(one) = 1 /\ one[1] = d
    BY <1>6 DEF d
  <2> HIDE DEF one
  <2>2. /\ one \o names \in Seq(Strings) /\ Len(one \o names) = N + 1
        /\ (one \o names)[1] = d /\ \A i \in 1..N : (one \o names)[1 + i] = names[i]
    <3>1. /\ one \o names \in Seq(Strings) /\ Len(one \o names) = Len(one) + Len(names)
          /\ \A i \in 1..Len(one) : (one \o names)[i] = one[i]
          /\ \A i \in 1..Len(names) : (one \o names)[Len(one) + i] = names[i]
      BY <1>5, <2>1, JoinedLists, Zenon
    <3>2. 1 + N = N + 1 /\ 1 \in 1..1
      BY <1>1
    <3> QED BY <1>5, <2>1, <3>1, <3>2
  <2>3. all = one \o names /\ NameOf(0) = d
    BY DEF one, d, NameOf
  <2> HIDE DEF all
  <2>4. ASSUME NEW i \in 1..(N + 1) PROVE all[i] = NameOf(i - 1)
    <3>1. CASE i = 1
      <4>1. i - 1 = 0
        BY <3>1
      <4> QED BY <2>2, <2>3, <3>1, <4>1
    <3>2. CASE i # 1
      <4>1. i - 1 \in 1..N /\ 1 + (i - 1) = i
        BY <1>1, <3>2
      <4> QED BY <1>5, <2>2, <2>3, <4>1
    <3> QED BY <3>1, <3>2
  <2> QED BY <2>2, <2>3, <2>4
<1> HIDE DEF all
<1> DEFINE l == List
<1> HIDE DEF l
<1>8. l \in Seq(Strings) /\ Len(l) = N + 1 /\ \A i \in 1..(N + 1) : l[i] = NameOf(i - 1)
  BY <1>3, <1>4 DEF l
<1>9. \A i \in 1..Len(l) : l[i] = all[i]
  BY <1>7, <1>8
<1>10. l = all
  BY <1>7, <1>8, <1>9
<1> QED BY <1>10 DEF all, names, l

(* ls prints every name once, and none with the rest of another one, when  *)
(* the memory of the nodes' names was cleared.                             *)
THEOREM SpecListsAll == Fresh = "nul" => (Spec => ListsAll)
<1> SUFFICES ASSUME Fresh = "nul" PROVE Spec => ListsAll
  OBVIOUS
<1> DEFINE All == query' = <<"ls">> => listing' = <<Dev>> \o [f \in Files |-> Host[f].name]
<1>1. ASSUME ShellInv, NEW line \in Lines, Interpret(line), query' = <<"ls">>
      PROVE  listing' = List
  <2>1. query' # << >> /\ line = <<"ls">>
    <3>1. query' # << >>
      BY <1>1
    <3> QED BY <1>1, <3>1, InterpretShows
  <2>2. Typed(line)[1] = "ls"
    <3>1. 1 \in 1..Len(line) /\ 1 \in 1..(Len(line) + 1) /\ line[1] = "ls"
      BY <2>1
    <3>2. Typed(line)[1] = Append(line, "nul")[1]
      BY <1>1, <3>1, TypedIs DEF ShellInv, StoreInv
    <3>3. Append(line, "nul")[1] = line[1]
      BY <1>1, <3>1, LineIs
    <3> QED BY <3>1, <3>2, <3>3
  <2>3. ~StartsWith("cat", Typed(line))
    BY <2>2 DEF StartsWith
  <2> QED BY <1>1, <2>1, <2>3, InterpretShows
<1>2. ShellInv /\ [Next]_vars => [All]_vars
  <2> SUFFICES ASSUME ShellInv, Next, query' = <<"ls">>
               PROVE  listing' = <<Dev>> \o [f \in Files |-> Host[f].name]
    OBVIOUS
  <2>1. PICK line \in Lines : Interpret(line)
    BY DEF Next
  <2>2. listing' = List
    BY <1>1, <2>1
  <2>3. List = <<Dev>> \o [f \in Files |-> Host[f].name]
    BY ListIs DEF ShellInv
  <2> QED BY <2>2, <2>3
<1> QED BY <1>2, InitTyped, StepTyped, PTL DEF Spec, ListsAll
=============================================================================
