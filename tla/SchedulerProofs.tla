-------------------------- MODULE SchedulerProofs --------------------------
(* The queue of threads: what the walk along its nodes meets, for any      *)
(* number of nodes.                                                        *)
EXTENDS Scheduler, TLAPS, FiniteSetTheorems, WellFoundedInduction

(* A set of numbers has a least one.  This is what stands for induction    *)
(* below: a walk that went wrong would do so at a first place.             *)
LEMMA LeastNumber ==
  ASSUME NEW A \in SUBSET Nat, A # {}
  PROVE  \E m \in A : \A k \in A : m <= k
<1> DEFINE Below(n) == {k \in Nat : k < n}
           T == {Below(n) : n \in A}
<1>1. \A n \in Nat : IsFiniteSet(Below(n))
  <2> TAKE n \in Nat
  <2>1. Below(n) = 0..(n - 1)
    OBVIOUS
  <2>2. IsFiniteSet(0..(n - 1))
    BY FS_Interval
  <2> HIDE DEF Below
  <2> QED BY <2>1, <2>2, Zenon
<1>2. T \subseteq FiniteSubsetsOf(Nat) /\ T # {}
  BY <1>1 DEF FiniteSubsetsOf
<1>3. PICK x \in T : \A y \in T : <<y, x>> \notin StrictSubsetOrdering(Nat)
  BY <1>2, FS_StrictSubsetOrderingWellFounded, WFMin
<1>4. PICK m \in A : x = Below(m)
  BY <1>3
<1>5. ASSUME NEW k \in A, k < m PROVE FALSE
  <2>1. Below(k) \in T /\ Below(k) \subseteq x /\ Below(k) # x
    <3>1. k \in Below(m) /\ k \notin Below(k)
      BY <1>5
    <3>2. Below(k) \subseteq Below(m)
      BY <1>5
    <3> QED BY <1>4, <3>1, <3>2
  <2>2. Below(k) \in SUBSET Nat /\ x \in SUBSET Nat
    BY <1>4
  <2> HIDE DEF Below, T
  <2> QED BY <1>3, <2>1, <2>2 DEF StrictSubsetOrdering
<1> QED BY <1>5

(* The walk is what its recursive definition says.                         *)
Rest(s, f, k) == IF k = 0 THEN s.stack
                 ELSE IF f[k - 1] = Null THEN Null ELSE s.node[f[k - 1]].next
IsWalk(s, f, n) == f = [k \in 0..n |-> Rest(s, f, k)]

LEMMA WalkExists ==
  ASSUME NEW s, NEW size \in Nat
  PROVE  \E f : IsWalk(s, f, size)
<1> DEFINE None == {n \in Nat : ~\E f : IsWalk(s, f, n)}
<1> SUFFICES ASSUME None # {} PROVE FALSE
  OBVIOUS
<1>1. PICK n \in None : \A k \in None : n <= k
  BY LeastNumber
<1>2. n # 0
  <2>1. IsWalk(s, [k \in 0..0 |-> s.stack], 0)
    BY DEF IsWalk, Rest
  <2> QED BY <2>1
<1>3. PICK f : IsWalk(s, f, n - 1)
  BY <1>1, <1>2
<1> DEFINE g == [k \in 0..n |-> Rest(s, f, k)]
<1>4. \A k \in 0..(n - 1) : g[k] = f[k]
  BY <1>3 DEF IsWalk
<1>5. \A k \in 0..n : g[k] = Rest(s, g, k)
  <2> TAKE k \in 0..n
  <2>1. g[k] = Rest(s, f, k)
    OBVIOUS
  <2>2. k # 0 => k - 1 \in 0..(n - 1)
    BY <1>2
  <2> HIDE DEF g
  <2> QED BY <1>4, <2>1, <2>2 DEF Rest
<1>6. IsWalk(s, g, n)
  <2>1. g = [k \in 0..n |-> g[k]]
    OBVIOUS
  <2> HIDE DEF g
  <2> QED BY <1>5, <2>1 DEF IsWalk
<1> QED BY <1>1, <1>6

LEMMA WalkUnfolds ==
  ASSUME NEW s, IsFiniteSet(Nodes)
  PROVE  /\ Cardinality(Nodes) \in Nat
         /\ \A k \in 0..Cardinality(Nodes) : Walk(s)[k] = Rest(s, Walk(s), k)
         /\ DOMAIN Walk(s) = 0..Cardinality(Nodes)
<1>1. Cardinality(Nodes) \in Nat
  BY FS_CardinalityType
<1>2. PICK f : IsWalk(s, f, Cardinality(Nodes))
  BY <1>1, WalkExists
<1>3. Walk(s) = CHOOSE w : IsWalk(s, w, Cardinality(Nodes))
  BY DEF Walk, IsWalk, Rest
<1>4. IsWalk(s, Walk(s), Cardinality(Nodes))
  BY <1>2, <1>3
<1> DEFINE w == Walk(s)
<1> HIDE DEF w
<1>5. w = [k \in 0..Cardinality(Nodes) |-> Rest(s, w, k)]
  BY <1>4 DEF IsWalk, w
<1> QED BY <1>1, <1>5 DEF w

-----------------------------------------------------------------------------
(* A queue that ends: c lists its nodes, m is the place of the last one.   *)
Queue(s, c, m) ==
    /\ m \in Nat /\ c \in [0..m -> s.used]
    /\ \A i \in 0..m, j \in 0..m : c[i] = c[j] => i = j
    /\ c[0] = s.stack
    /\ \A i \in 0..(m - 1) : s.node[c[i]].next = c[i + 1]
    /\ s.node[c[m]].next = Null

Ends(s) == s.stack = Null \/ \E m \in Nat : \E c \in [0..m -> s.used] : Queue(s, c, m)

(* There are fewer places in a queue than nodes, so the walk reaches its   *)
(* end and stays there.                                                    *)
LEMMA QueueWalk ==
  ASSUME NEW s, IsFiniteSet(Nodes), Null \notin Nodes, s.used \subseteq Nodes,
         NEW c, NEW m, Queue(s, c, m)
  PROVE  /\ m \in Nat /\ m < Cardinality(Nodes) /\ Cardinality(Nodes) \in Nat
         /\ \A k \in 0..Cardinality(Nodes) : Walk(s)[k] = IF k <= m THEN c[k] ELSE Null
<1>1. m \in Nat /\ \A i \in 0..m : c[i] \in Nodes /\ c[i] # Null
  BY DEF Queue
<1>2. m < Cardinality(Nodes) /\ Cardinality(Nodes) \in Nat
  <2>1. c \in Injection(0..m, Nodes)
    BY <1>1 DEF Queue, Injection, IsInjective
  <2>2. Cardinality(0..m) <= Cardinality(Nodes)
    BY <2>1, FS_Injection
  <2>3. Cardinality(0..m) = m + 1
    BY <1>1, FS_Interval
  <2> QED BY <1>1, <2>2, <2>3, FS_CardinalityType
<1> DEFINE w == Walk(s)
           C == Cardinality(Nodes)
           Wrong == {k \in 0..C : w[k] # IF k <= m THEN c[k] ELSE Null}
<1>3. \A k \in 0..C : w[k] = Rest(s, w, k)
  BY WalkUnfolds
<1> HIDE DEF w, C
<1> SUFFICES ASSUME Wrong # {} PROVE FALSE
  BY <1>1, <1>2 DEF w, C
<1>4. PICK k \in Wrong : \A j \in Wrong : k <= j
  <2>1. Wrong \subseteq Nat
    BY <1>2 DEF C
  <2> HIDE DEF Wrong
  <2> QED BY <2>1, LeastNumber
<1>5. k # 0
  BY <1>1, <1>3, <1>4 DEF Rest, Queue
<1>6. k \in 0..C /\ k - 1 \in 0..C /\ w[k - 1] = IF k - 1 <= m THEN c[k - 1] ELSE Null
  BY <1>2, <1>4, <1>5 DEF C
<1>7. w[k] = IF w[k - 1] = Null THEN Null ELSE s.node[w[k - 1]].next
  BY <1>3, <1>5, <1>6 DEF Rest
<1>8. CASE k - 1 > m
  BY <1>1, <1>4, <1>6, <1>7, <1>8, <1>2 DEF C
<1>9. CASE k - 1 = m
  BY <1>1, <1>4, <1>6, <1>7, <1>9, <1>2 DEF C, Queue
<1>10. CASE k - 1 < m
  <2>1. k - 1 \in 0..(m - 1) /\ (k - 1) + 1 = k
    BY <1>1, <1>2, <1>6, <1>10 DEF C
  <2>2. s.node[c[k - 1]].next = c[k]
    BY <2>1 DEF Queue
  <2> QED BY <1>1, <1>4, <1>6, <1>7, <1>10, <2>2, <1>2 DEF C
<1> QED BY <1>1, <1>2, <1>6, <1>8, <1>9, <1>10 DEF C

(* So it ends, it meets the nodes of the queue and no others, and the last *)
(* node is the one in the last place.                                      *)
LEMMA QueueEnds ==
  ASSUME NEW s, IsFiniteSet(Nodes), Null \notin Nodes, s.used \subseteq Nodes,
         NEW c, NEW m, Queue(s, c, m)
  PROVE  /\ ~Endless(s) /\ LastNode(s) = c[m]
         /\ Met(s) = {c[i] : i \in 0..m}
<1> DEFINE C == Cardinality(Nodes)
<1>1. m \in Nat /\ m < C /\ C \in Nat /\ \A i \in 0..m : c[i] \in Nodes /\ c[i] # Null
  BY QueueWalk DEF Queue
<1>2. \A k \in 0..C : Walk(s)[k] = IF k <= m THEN c[k] ELSE Null
  BY QueueWalk
<1>3. DOMAIN Walk(s) = 0..C
  BY WalkUnfolds
<1> HIDE DEF C
<1>4. Met(s) = {c[i] : i \in 0..m}
  <2>1. Range(Walk(s)) = {Walk(s)[k] : k \in 0..C}
    BY <1>3 DEF Range
  <2>2. \A i \in 0..m : i \in 0..C
    BY <1>1
  <2> QED BY <1>1, <1>2, <2>1, <2>2 DEF Met
<1>5. ~Endless(s)
  BY <1>1, <1>2 DEF Endless, C
<1>6. c[m] \in Met(s) /\ s.node[c[m]].next = Null
  BY <1>1, <1>4 DEF Queue
<1>7. ASSUME NEW n \in Met(s), s.node[n].next = Null PROVE n = c[m]
  <2>1. PICK i \in 0..m : n = c[i]
    BY <1>4
  <2>2. i = m
    <3>1. i \in 0..(m - 1) => s.node[c[i]].next = c[i + 1] /\ i + 1 \in 0..m
      BY <1>1 DEF Queue
    <3> QED BY <1>1, <1>7, <2>1, <3>1
  <2> QED BY <2>1, <2>2
<1> QED BY <1>4, <1>5, <1>6, <1>7 DEF LastNode

(* What add_thread and schedule do to a node: take it for a thread, and    *)
(* point it at another node or at nothing.                                 *)
Record == [thread : Threads \cup {NoThread}, next : Pointers]
WellFormed(s) ==
    s \in [node : [Nodes -> Record], used : SUBSET Nodes, stack : Pointers, now : Pointers,
           vectors : [thread : BOOLEAN, next : BOOLEAN],
           status : {"ok", "hung", "assert", "wild"}]
Taken(s, t, n) == [s EXCEPT !.node[n] = Fresh(s, t), !.used = @ \cup {n}]
Relink(s, x, v) == [s EXCEPT !.node[x].next = v]

LEMMA TakenNode ==
  ASSUME NEW s, WellFormed(s), NEW t \in Threads, NEW n \in Nodes
  PROVE  LET a == Taken(s, t, n)
         IN  /\ WellFormed(a) /\ a.used = s.used \cup {n}
             /\ a.stack = s.stack /\ a.now = s.now /\ a.status = s.status /\ a.vectors = s.vectors
             /\ a.node[n] = [thread |-> t, next |-> Null]
             /\ \A k \in Nodes \ {n} : a.node[k] = s.node[k]
<1> DEFINE N == [s.node EXCEPT ![n] = Fresh(s, t)]
<1>1. N \in [Nodes -> Record]
  BY DEF WellFormed, Fresh, Record, Pointers
<1>2. N[n] = [thread |-> t, next |-> Null] /\ \A k \in Nodes \ {n} : N[k] = s.node[k]
  BY DEF WellFormed, Fresh
<1>3. Taken(s, t, n) = [s EXCEPT !.node = N, !.used = s.used \cup {n}]
  BY DEF Taken
<1> DEFINE a == Taken(s, t, n)
<1> HIDE DEF N, a
<1>4. WellFormed(a) /\ a.node = N /\ a.used = s.used \cup {n}
  <2> DEFINE U == s.used \cup {n}
  <2>1. U \in SUBSET Nodes /\ a = [s EXCEPT !.node = N, !.used = U]
    BY <1>3 DEF WellFormed, a
  <2> HIDE DEF U
  <2>2. WellFormed(a) /\ a.node = N /\ a.used = U
    BY <1>1, <2>1 DEF WellFormed
  <2> QED BY <2>2 DEF U
<1>5. a.stack = s.stack /\ a.now = s.now /\ a.status = s.status /\ a.vectors = s.vectors
  BY <1>3 DEF WellFormed, a
<1> QED BY <1>2, <1>4, <1>5 DEF a

LEMMA RelinkNode ==
  ASSUME NEW s, WellFormed(s), NEW x \in Nodes, NEW v \in Pointers
  PROVE  LET a == Relink(s, x, v)
         IN  /\ WellFormed(a) /\ a.used = s.used
             /\ a.stack = s.stack /\ a.now = s.now /\ a.status = s.status /\ a.vectors = s.vectors
             /\ a.node[x].thread = s.node[x].thread /\ a.node[x].next = v
             /\ \A k \in Nodes \ {x} : a.node[k] = s.node[k]
<1> DEFINE N == [s.node EXCEPT ![x].next = v]
<1>1. N \in [Nodes -> Record]
  BY DEF WellFormed, Record
<1>2. /\ N[x].thread = s.node[x].thread /\ N[x].next = v
      /\ \A k \in Nodes \ {x} : N[k] = s.node[k]
  BY DEF WellFormed, Record
<1>3. Relink(s, x, v) = [s EXCEPT !.node = N]
  BY DEF Relink
<1> HIDE DEF N
<1> QED BY <1>1, <1>2, <1>3 DEF WellFormed

(* A node goes to the end of a queue.                                      *)
Longer(c, m, n) == [i \in 0..(m + 1) |-> IF i <= m THEN c[i] ELSE n]

LEMMA QueueGrows ==
  ASSUME NEW s, WellFormed(s), Null \notin Nodes, NEW c, NEW m, Queue(s, c, m),
         NEW n \in Nodes \ s.used, NEW a, WellFormed(a), a.stack = s.stack, a.used = s.used \cup {n},
         a.node[n].next = Null, a.node[c[m]].next = n,
         \A k \in Nodes \ {n, c[m]} : a.node[k].next = s.node[k].next
  PROVE  Queue(a, Longer(c, m, n), m + 1)
<1> DEFINE d == Longer(c, m, n)
<1>1. m \in Nat /\ m + 1 \in Nat
  BY DEF Queue
<1>2. /\ \A i \in 0..m : d[i] = c[i] /\ d[i] \in s.used
      /\ d[m + 1] = n
      /\ d \in [0..(m + 1) -> a.used]
  BY <1>1 DEF Queue, Longer
<1>3. \A i \in 0..(m + 1) : i \in 0..m \/ i = m + 1
  BY <1>1
<1> HIDE DEF d
<1>4. \A i \in 0..(m + 1), j \in 0..(m + 1) : d[i] = d[j] => i = j
  BY <1>2, <1>3 DEF Queue
<1>5. d[0] = a.stack
  BY <1>1, <1>2 DEF Queue
<1>6. ASSUME NEW i \in 0..m PROVE a.node[d[i]].next = d[i + 1]
  <2>1. CASE i = m
    BY <1>1, <1>2, <2>1
  <2>2. CASE i # m
    <3>1. i \in 0..(m - 1) /\ i \in 0..m /\ m \in 0..m /\ i + 1 \in 0..m
      BY <1>1, <2>2
    <3>2. c[i] # c[m] /\ c[i] # n /\ c[i] \in Nodes
      BY <1>2, <2>2, <3>1 DEF Queue, WellFormed
    <3> QED BY <1>2, <3>1, <3>2 DEF Queue
  <2> QED BY <2>1, <2>2
<1>7. a.node[d[m + 1]].next = Null
  BY <1>2
<1>8. (m + 1) - 1 = m
  BY <1>1
<1> QED BY <1>1, <1>2, <1>4, <1>5, <1>6, <1>7, <1>8 DEF Queue, d

(* add_thread puts a node into a queue that ends, and it ends again; the   *)
(* call returns.                                                           *)
LEMMA AddedEnds ==
  ASSUME NEW s, WellFormed(s), IsFiniteSet(Nodes), Null \notin Nodes, Ends(s),
         NEW t \in Threads, NEW n \in Nodes \ s.used
  PROVE  /\ WellFormed(Added(s, t, n)) /\ Ends(Added(s, t, n))
         /\ Added(s, t, n).status = s.status
         /\ Added(s, t, n).used = s.used \cup {n}
<1> DEFINE a == Taken(s, t, n)
<1>1. /\ WellFormed(a) /\ a.used = s.used \cup {n} /\ a.stack = s.stack
      /\ a.status = s.status /\ a.node[n].next = Null
      /\ \A k \in Nodes \ {n} : a.node[k] = s.node[k]
  <2>1. n \in Nodes
    OBVIOUS
  <2> HIDE DEF a
  <2>2. a.node[n] = [thread |-> t, next |-> Null] => a.node[n].next = Null
    OBVIOUS
  <2> QED BY <2>1, <2>2, TakenNode DEF a
<1> HIDE DEF a
<1>2. ASSUME NEW m, NEW c, Queue(s, c, m)
      PROVE  Queue(a, c, m) /\ c[m] \in Nodes \ {n} /\ ~Endless(a) /\ LastNode(a) = c[m]
  <2>1. m \in Nat /\ \A i \in 0..m : c[i] \in Nodes \ {n}
    BY <1>2 DEF Queue, WellFormed
  <2>2. c \in [0..m -> a.used]
    BY <1>1, <1>2 DEF Queue
  <2>3. Queue(a, c, m)
    BY <1>1, <1>2, <2>1, <2>2 DEF Queue
  <2>4. ~Endless(a) /\ LastNode(a) = c[m]
    BY <1>1, <2>3, QueueEnds DEF WellFormed
  <2> QED BY <2>1, <2>3, <2>4
<1>3. Ends(a)
  <2> SUFFICES ASSUME s.stack # Null PROVE Ends(a)
    BY <1>1 DEF Ends
  <2>1. PICK m \in Nat : \E c \in [0..m -> s.used] : Queue(s, c, m)
    BY DEF Ends
  <2>2. PICK c \in [0..m -> s.used] : Queue(s, c, m)
    BY <2>1
  <2>3. Queue(a, c, m)
    BY <1>2, <2>2
  <2>4. c \in [0..m -> a.used]
    BY <1>1
  <2> QED BY <2>3, <2>4 DEF Ends
<1>4. CASE Added(s, t, n) = [a EXCEPT !.now = n]
  <2> DEFINE r == [a EXCEPT !.now = n]
  <2>1. WellFormed(r) /\ r.used = a.used /\ r.status = a.status /\ r.stack = a.stack /\ r.node = a.node
    BY <1>1 DEF WellFormed, Pointers
  <2> HIDE DEF r
  <2>2. \A m, c : Queue(r, c, m) <=> Queue(a, c, m)
    BY <2>1 DEF Queue
  <2>3. Ends(r)
    BY <1>3, <2>1, <2>2 DEF Ends
  <2> QED BY <1>1, <1>4, <2>1, <2>3 DEF r
<1>5. CASE Added(s, t, n) = [a EXCEPT !.stack = n] 
  <2> DEFINE r == [a EXCEPT !.stack = n]
             c == [i \in 0..0 |-> n]
  <2>1. WellFormed(r) /\ r.used = a.used /\ r.status = a.status /\ r.stack = n /\ r.node = a.node
    BY <1>1 DEF WellFormed, Pointers
  <2> HIDE DEF r
  <2>2. Queue(r, c, 0)
    BY <1>1, <2>1 DEF Queue
  <2>3. c \in [0..0 -> r.used]
    BY <1>1, <2>1
  <2> HIDE DEF c
  <2>4. Ends(r)
    BY <2>2, <2>3 DEF Ends
  <2> QED BY <1>1, <1>5, <2>1, <2>4 DEF r
<1>6. CASE s.stack # Null /\ Added(s, t, n) = Relink(a, LastNode(a), n)
  <2>1. PICK m \in Nat : \E c \in [0..m -> s.used] : Queue(s, c, m)
    BY <1>6 DEF Ends
  <2>2. PICK c \in [0..m -> s.used] : Queue(s, c, m)
    BY <2>1
  <2> DEFINE r == Relink(a, c[m], n)
  <2>3. Added(s, t, n) = r /\ c[m] \in Nodes /\ c[m] # n
    BY <1>2, <1>6, <2>2
  <2>4. /\ WellFormed(r) /\ r.used = a.used /\ r.status = a.status /\ r.stack = a.stack
        /\ r.node[c[m]].next = n /\ r.node[n].next = Null
        /\ \A k \in Nodes \ {n, c[m]} : r.node[k].next = s.node[k].next
    <3>1. /\ WellFormed(r) /\ r.used = a.used /\ r.status = a.status /\ r.stack = a.stack
          /\ r.node[c[m]].next = n /\ \A k \in Nodes \ {c[m]} : r.node[k] = a.node[k]
      <4>1. \A x \in Nodes, v \in Pointers :
                /\ WellFormed(Relink(a, x, v)) /\ Relink(a, x, v).used = a.used
                /\ Relink(a, x, v).status = a.status /\ Relink(a, x, v).stack = a.stack
                /\ Relink(a, x, v).node[x].next = v
                /\ \A k \in Nodes \ {x} : Relink(a, x, v).node[k] = a.node[k]
        BY <1>1, RelinkNode
      <4>2. c[m] \in Nodes /\ n \in Pointers
        BY <2>3 DEF Pointers
      <4> QED BY <4>1, <4>2
    <3> HIDE DEF r
    <3> QED BY <1>1, <2>3, <3>1
  <2> HIDE DEF r
  <2>5. Queue(r, Longer(c, m, n), m + 1)
    BY <1>1, <2>2, <2>4, QueueGrows
  <2>6. m + 1 \in Nat /\ Longer(c, m, n) \in [0..(m + 1) -> r.used]
    BY <2>5 DEF Queue
  <2> QED BY <1>1, <2>3, <2>4, <2>5, <2>6 DEF Ends
<1>7. CASE s.stack # Null /\ Endless(a)
  BY <1>2, <1>7 DEF Ends
<1> QED BY <1>4, <1>5, <1>6, <1>7 DEF Added, Taken, Relink, a

-----------------------------------------------------------------------------
(* What delete_thread finds: nodes of the queue that hold the thread, not  *)
(* the first one, and no two of them in a row.                             *)
GoneAt(s, t, g, k) ==
    IF k = 0 \/ Walk(s)[k] = Null THEN FALSE
    ELSE s.node[Walk(s)[k]].thread = t /\ ~g[k - 1]
IsGone(s, t, g, n) == g = [k \in 0..n |-> GoneAt(s, t, g, k)]

LEMMA GoneExists ==
  ASSUME NEW s, NEW t, NEW size \in Nat
  PROVE  \E g : IsGone(s, t, g, size)
<1> DEFINE None == {n \in Nat : ~\E g : IsGone(s, t, g, n)}
<1> SUFFICES ASSUME None # {} PROVE FALSE
  OBVIOUS
<1>1. PICK n \in None : \A k \in None : n <= k
  BY LeastNumber
<1>2. n # 0
  <2>1. IsGone(s, t, [k \in 0..0 |-> FALSE], 0)
    BY DEF IsGone, GoneAt
  <2> QED BY <2>1
<1>3. PICK f : IsGone(s, t, f, n - 1)
  BY <1>1, <1>2
<1> DEFINE g == [k \in 0..n |-> GoneAt(s, t, f, k)]
<1>4. \A k \in 0..(n - 1) : g[k] = f[k]
  BY <1>3 DEF IsGone
<1>5. \A k \in 0..n : g[k] = GoneAt(s, t, g, k)
  <2> TAKE k \in 0..n
  <2>1. g[k] = GoneAt(s, t, f, k)
    OBVIOUS
  <2>2. k # 0 => k - 1 \in 0..(n - 1)
    BY <1>2
  <2>3. k # 0 => g[k - 1] = f[k - 1]
    BY <1>4, <2>2
  <2> HIDE DEF g
  <2>4. GoneAt(s, t, f, k) = GoneAt(s, t, g, k)
    BY <2>3 DEF GoneAt
  <2> QED BY <2>1, <2>4
<1>6. IsGone(s, t, g, n)
  <2>1. g = [k \in 0..n |-> g[k]]
    OBVIOUS
  <2> HIDE DEF g
  <2> QED BY <1>5, <2>1 DEF IsGone
<1> QED BY <1>1, <1>6

LEMMA FoundUnfolds ==
  ASSUME NEW s, NEW t, IsFiniteSet(Nodes)
  PROVE  \E g : /\ \A k \in 0..Cardinality(Nodes) : g[k] = GoneAt(s, t, g, k)
                /\ Found(s, t) = {Walk(s)[k] : k \in {j \in 0..Cardinality(Nodes) : g[j]}}
<1>1. Cardinality(Nodes) \in Nat /\ DOMAIN Walk(s) = 0..Cardinality(Nodes)
  BY WalkUnfolds
<1>2. PICK f : IsGone(s, t, f, Cardinality(Nodes))
  BY <1>1, GoneExists
<1> DEFINE gone == CHOOSE g : IsGone(s, t, g, Cardinality(Nodes))
<1>3. IsGone(s, t, gone, Cardinality(Nodes))
  BY <1>2
<1>4. Found(s, t) = {Walk(s)[k] : k \in {j \in DOMAIN Walk(s) : gone[j]}}
  BY DEF Found, IsGone, GoneAt
<1> HIDE DEF gone
<1>5. gone = [k \in 0..Cardinality(Nodes) |-> GoneAt(s, t, gone, k)]
  BY <1>3 DEF IsGone
<1>6. \A k \in 0..Cardinality(Nodes) : gone[k] = GoneAt(s, t, gone, k)
  BY <1>5
<1> QED BY <1>1, <1>4, <1>6

-----------------------------------------------------------------------------
(* Types: every operation keeps them, on a queue of any shape.             *)
Typed(s) == WellFormed(s) /\ \A n \in s.used : s.node[n].thread \in Threads

LEMMA RelinkTyped ==
  ASSUME NEW s, Typed(s), NEW x, NEW v \in Pointers
  PROVE  Typed(Relink(s, x, v)) /\ Relink(s, x, v).stack = s.stack
<1> DEFINE N == [s.node EXCEPT ![x].next = v]
<1>1. N \in [Nodes -> Record]
  BY DEF Typed, WellFormed, Record
<1>2. \A k \in Nodes : N[k].thread = s.node[k].thread
  BY DEF Typed, WellFormed, Record
<1>3. Relink(s, x, v) = [s EXCEPT !.node = N]
  BY DEF Relink
<1> HIDE DEF N
<1> DEFINE r == Relink(s, x, v)
<1>4. WellFormed(r) /\ r.node = N /\ r.used = s.used /\ r.stack = s.stack
  BY <1>1, <1>3 DEF Typed, WellFormed
<1> HIDE DEF r
<1>5. \A n \in r.used : r.node[n].thread \in Threads
  BY <1>2, <1>4 DEF Typed, WellFormed
<1> QED BY <1>4, <1>5 DEF Typed, r

LEMMA SpinningTyped ==
  ASSUME NEW s, Typed(s)
  PROVE  Typed(Spinning(s)) /\ Spinning(s).stack = s.stack /\ Spinning(s).now = s.now
         /\ Spinning(s).node = s.node /\ Spinning(s).used = s.used
  BY DEF Typed, WellFormed, Spinning

LEMMA AddedTyped ==
  ASSUME NEW s, Typed(s), NEW t \in Threads, NEW n \in Nodes
  PROVE  Typed(Added(s, t, n))
<1> DEFINE a == Taken(s, t, n)
<1>1. WellFormed(a) /\ a.used = s.used \cup {n} /\ a.node[n].thread = t
      /\ \A k \in Nodes \ {n} : a.node[k] = s.node[k]
  <2>1. WellFormed(s)
    BY DEF Typed
  <2>2. /\ WellFormed(a) /\ a.used = s.used \cup {n}
        /\ a.node[n] = [thread |-> t, next |-> Null]
        /\ \A k \in Nodes \ {n} : a.node[k] = s.node[k]
    BY <2>1, TakenNode
  <2> HIDE DEF a
  <2> QED BY <2>2
<1> HIDE DEF a
<1>2. Typed(a)
  BY <1>1 DEF Typed, WellFormed
<1>3. CASE Added(s, t, n) = [a EXCEPT !.now = n]
  BY <1>2, <1>3 DEF Typed, WellFormed, Pointers
<1>4. CASE Added(s, t, n) = [a EXCEPT !.stack = n]
  BY <1>2, <1>4 DEF Typed, WellFormed, Pointers
<1>5. CASE Added(s, t, n) = Spinning(a)
  BY <1>2, <1>5, SpinningTyped
<1>6. CASE Added(s, t, n) = Relink(a, LastNode(a), n)
  BY <1>2, <1>6, RelinkTyped DEF Pointers
<1> QED BY <1>3, <1>4, <1>5, <1>6 DEF Added, Taken, Relink, a

LEMMA ScheduledTyped == ASSUME NEW s, Typed(s) PROVE Typed(Scheduled(s))
<1>1. CASE s.stack = Null
  BY <1>1 DEF Scheduled
<1>2. CASE s.stack # Null /\ Endless(s)
  BY <1>2, SpinningTyped DEF Scheduled
<1>3. CASE s.stack # Null /\ ~Endless(s)
  <2> DEFINE q == Relink(s, LastNode(s), s.now)
             r == [q EXCEPT !.now = s.stack]
  <2>1. s.stack \in Nodes /\ s.now \in Pointers /\ s.stack \in Pointers
    BY <1>3 DEF Typed, WellFormed, Pointers
  <2>2. Typed(q)
    BY <2>1, RelinkTyped
  <2> HIDE DEF q
  <2>3. Typed(r)
    BY <2>1, <2>2 DEF Typed, WellFormed
  <2>4. r = [s EXCEPT !.node[LastNode(s)].next = s.now, !.now = s.stack]
    BY DEF q, Relink
  <2>5. Scheduled(s) = [r EXCEPT !.stack = r.node[s.stack].next]
    BY <1>3, <2>4 DEF Scheduled
  <2> HIDE DEF r
  <2>6. r.node[s.stack].next \in Pointers
    BY <2>1, <2>3 DEF Typed, WellFormed, Record
  <2> QED BY <2>3, <2>5, <2>6 DEF Typed, WellFormed
<1> QED BY <1>1, <1>2, <1>3

LEMMA FreedTyped == ASSUME NEW s, Typed(s), NEW gone PROVE Typed(Freed(s, gone))
<1> DEFINE U == s.used \ gone
<1>1. U \subseteq s.used /\ U \in SUBSET Nodes
  BY DEF Typed, WellFormed
<1>2. Freed(s, gone) = IF gone \subseteq Roomy THEN [s EXCEPT !.used = U]
                       ELSE [s EXCEPT !.status = "assert"]
  BY DEF Freed
<1> HIDE DEF U
<1> QED BY <1>1, <1>2 DEF Typed, WellFormed

LEMMA BypassTyped ==
  ASSUME NEW s, Typed(s), NEW gone \in SUBSET Nodes PROVE Typed(Bypass(s, gone))
<1> DEFINE N == [n \in Nodes |->
        IF n \in Met(s) /\ s.node[n].next \in gone
        THEN [s.node[n] EXCEPT !.next = s.node[s.node[n].next].next]
        ELSE s.node[n]]
<1>1. \A n \in Nodes : N[n] \in Record /\ N[n].thread = s.node[n].thread
  <2> TAKE n \in Nodes
  <2>1. \A k \in Nodes : s.node[k] \in Record /\ s.node[k].next \in Pointers
    BY DEF Typed, WellFormed, Record
  <2>2. N[n] = s.node[n] \/ \E v \in Pointers : N[n] = [s.node[n] EXCEPT !.next = v]
    BY <2>1
  <2> HIDE DEF N
  <2> QED BY <2>1, <2>2 DEF Record
<1>2. Bypass(s, gone) = [s EXCEPT !.node = N]
  BY DEF Bypass
<1>3. N \in [Nodes -> Record]
  <2>1. N = [n \in Nodes |-> N[n]]
    OBVIOUS
  <2> HIDE DEF N
  <2> QED BY <1>1, <2>1
<1> HIDE DEF N
<1> QED BY <1>1, <1>2, <1>3 DEF Typed, WellFormed

LEMMA FoundNodes == ASSUME NEW s, NEW t, Typed(s), IsFiniteSet(Nodes) PROVE Found(s, t) \subseteq Nodes \cap Met(s)
<1> DEFINE C == Cardinality(Nodes)
           w == Walk(s)
<1>1. /\ \A k \in 0..C : w[k] = Rest(s, w, k)
      /\ C \in Nat /\ DOMAIN w = 0..C
  BY WalkUnfolds
<1> HIDE DEF w, C
<1>2. \A k \in 0..C : w[k] \in Pointers
  <2> DEFINE Wrong == {k \in 0..C : w[k] \notin Pointers}
  <2> SUFFICES ASSUME Wrong # {} PROVE FALSE
    OBVIOUS
  <2>1. PICK k \in Wrong : \A j \in Wrong : k <= j
    <3>1. Wrong \subseteq Nat
      BY <1>1
    <3> HIDE DEF Wrong
    <3> QED BY <3>1, LeastNumber
  <2>2. k # 0
    BY <1>1, <2>1 DEF Rest, Typed, WellFormed
  <2>3. k - 1 \in 0..C /\ w[k - 1] \in Pointers
    BY <1>1, <2>1, <2>2
  <2> QED BY <1>1, <2>1, <2>2, <2>3 DEF Rest, Typed, WellFormed, Record, Pointers
<1>3. PICK g : /\ \A k \in 0..C : g[k] = GoneAt(s, t, g, k)
               /\ Found(s, t) = {w[k] : k \in {j \in 0..C : g[j]}}
  BY FoundUnfolds DEF w, C
<1>4. ASSUME NEW k \in 0..C, g[k] PROVE w[k] \in Nodes \cap Met(s)
  <2>1. w[k] # Null
    BY <1>3, <1>4 DEF GoneAt, w
  <2>2. w[k] \in Met(s)
    BY <1>1, <2>1 DEF Met, Range, w
  <2> QED BY <1>2, <2>1, <2>2 DEF Pointers
<1> QED BY <1>3, <1>4

LEMMA DeletedTyped ==
  ASSUME NEW s, Typed(s), NEW t, IsFiniteSet(Nodes) PROVE Typed(Deleted(s, t))
<1> DEFINE found == Found(s, t)
           f == Freed(Bypass(s, found), found)
           q == [s EXCEPT !.stack = s.node[s.stack].next]
<1>1. Typed(f)
  BY FoundNodes, BypassTyped, FreedTyped
<1>2. Typed([f EXCEPT !.status = "wild"])
  <2> HIDE DEF f
  <2> QED BY <1>1 DEF Typed, WellFormed
<1>3. CASE s.stack # Null /\ Deleted(s, t) = Freed(q, {s.stack})
  <2>1. s.node[s.stack].next \in Pointers
    BY <1>3 DEF Typed, WellFormed, Record, Pointers
  <2>2. Typed(q)
    BY <2>1 DEF Typed, WellFormed
  <2> HIDE DEF q
  <2> QED BY <1>3, <2>2, FreedTyped
<1>4. Typed(Spinning(s)) /\ Typed(Freed(s, found))
  BY SpinningTyped, FreedTyped
<1> HIDE DEF f, q, found
<1> QED BY <1>1, <1>2, <1>3, <1>4 DEF Deleted, f, q, found

-----------------------------------------------------------------------------
(* The shapes of the queue until the node behind now is freed.  c          *)
(* lists the nodes that wait; now is none of them.  After the last comes   *)
(* nothing, or now itself once the list is a loop; and now may still point *)
(* at the node that was behind it, the first of those that wait.           *)
Line(s, c, m) ==
    /\ m \in Nat /\ c \in [0..m -> s.used]
    /\ \A i \in 0..m, j \in 0..m : c[i] = c[j] => i = j
    /\ c[0] = s.stack
    /\ \A i \in 0..(m - 1) : s.node[c[i]].next = c[i + 1]
    /\ \A i \in 0..m : c[i] # s.now

Open(s, c, m) ==
    /\ Line(s, c, m) /\ s.node[c[m]].next = Null
    /\ s.now # Null => s.node[s.now].next \in {Null, s.stack}
Closed(s, c, m) ==
    /\ Line(s, c, m) /\ s.node[c[m]].next = s.now
    /\ s.now \in s.used /\ s.node[s.now].next = s.stack
Empty(s) == s.stack = Null /\ (s.now # Null => s.node[s.now].next = Null)

Shape(s) ==
    /\ s.now \in s.used \cup {Null}
    /\ \/ Empty(s)
       \/ \E m \in Nat : \E c \in [0..m -> s.used] : Open(s, c, m) \/ Closed(s, c, m)

(* There is nothing to walk along when the queue is empty.                 *)
LEMMA EmptyWalk ==
  ASSUME NEW s, IsFiniteSet(Nodes), s.stack = Null PROVE Met(s) = {} /\ ~Endless(s)
<1>1. /\ \A k \in DOMAIN Walk(s) : Walk(s)[k] = Null
      /\ Cardinality(Nodes) \in DOMAIN Walk(s)
  <2> DEFINE C == Cardinality(Nodes)
             w == Walk(s)
             Wrong == {k \in 0..C : w[k] # Null}
  <2>1. /\ \A k \in 0..C : w[k] = Rest(s, w, k)
        /\ C \in Nat /\ DOMAIN w = 0..C
    BY WalkUnfolds
  <2> HIDE DEF w, C
  <2>2. Wrong = {}
    <3> SUFFICES ASSUME Wrong # {} PROVE FALSE
      OBVIOUS
    <3>1. PICK k \in Wrong : \A j \in Wrong : k <= j
      <4>1. Wrong \subseteq Nat
        BY <2>1
      <4> HIDE DEF Wrong
      <4> QED BY <4>1, LeastNumber
    <3>2. k # 0
      BY <2>1, <3>1 DEF Rest
    <3>3. k - 1 \in 0..C /\ w[k - 1] = Null
      BY <2>1, <3>1, <3>2
    <3> QED BY <2>1, <3>1, <3>2, <3>3 DEF Rest
  <2>3. C \in 0..C
    BY <2>1
  <2> QED BY <2>1, <2>2, <2>3 DEF w, C
<1> QED BY <1>1 DEF Met, Range, Endless

(* The walk stays in a set that the pointers do not leave.                 *)
LEMMA WalkStays ==
  ASSUME NEW s, IsFiniteSet(Nodes), NEW D, s.stack \in D, Null \notin D,
         \A n \in D : s.node[n].next \in D
  PROVE  Endless(s) /\ Met(s) \subseteq D /\ \A k \in DOMAIN Walk(s) : Walk(s)[k] \in D
<1> DEFINE C == Cardinality(Nodes)
           w == Walk(s)
           Wrong == {k \in 0..C : w[k] \notin D}
<1>1. /\ \A k \in 0..C : w[k] = Rest(s, w, k)
      /\ C \in Nat /\ DOMAIN w = 0..C
  BY WalkUnfolds
<1> HIDE DEF w, C
<1>2. Wrong = {}
  <2> SUFFICES ASSUME Wrong # {} PROVE FALSE
    OBVIOUS
  <2>1. PICK k \in Wrong : \A j \in Wrong : k <= j
    <3>1. Wrong \subseteq Nat
      BY <1>1
    <3> HIDE DEF Wrong
    <3> QED BY <3>1, LeastNumber
  <2>2. k # 0
    BY <1>1, <2>1 DEF Rest
  <2>3. k - 1 \in 0..C /\ w[k - 1] \in D
    BY <1>1, <2>1, <2>2
  <2> QED BY <1>1, <2>1, <2>2, <2>3 DEF Rest
<1>3. C \in 0..C /\ \A k \in 0..C : w[k] \in D
  BY <1>1, <1>2
<1> QED BY <1>1, <1>3 DEF Endless, Met, Range, w, C

(* It follows the line, which is shorter than the set of nodes.            *)
LEMMA LineWalk ==
  ASSUME NEW s, IsFiniteSet(Nodes), Null \notin Nodes, s.used \subseteq Nodes,
         NEW c, NEW m, Line(s, c, m)
  PROVE  /\ m \in Nat /\ m < Cardinality(Nodes) /\ Cardinality(Nodes) \in Nat
         /\ s.now \in Nodes => m + 1 < Cardinality(Nodes)
         /\ \A k \in 0..m : Walk(s)[k] = c[k] /\ c[k] \in Nodes /\ c[k] # Null
         /\ Walk(s)[m + 1] = s.node[c[m]].next
<1> DEFINE C == Cardinality(Nodes)
           w == Walk(s)
<1>1. m \in Nat /\ \A i \in 0..m : c[i] \in Nodes /\ c[i] # Null
  BY DEF Line
<1>2. C \in Nat /\ \A k \in 0..C : w[k] = Rest(s, w, k)
  BY WalkUnfolds
<1>3. m < C
  <2>1. c \in Injection(0..m, Nodes)
    BY <1>1 DEF Line, Injection, IsInjective
  <2>2. Cardinality(0..m) <= C
    BY <2>1, FS_Injection
  <2>3. Cardinality(0..m) = m + 1
    BY <1>1, FS_Interval
  <2> QED BY <1>1, <1>2, <2>2, <2>3
<1>4. ASSUME s.now \in Nodes PROVE m + 1 < C
  <2> DEFINE d == [i \in 0..(m + 1) |-> IF i <= m THEN c[i] ELSE s.now]
  <2>1. \A i \in 0..(m + 1) : d[i] \in Nodes /\ (i \in 0..m \/ i = m + 1)
    BY <1>1, <1>4
  <2>2. \A i \in 0..m : d[i] = c[i] /\ c[i] # s.now
    BY <1>1 DEF Line
  <2>3. d[m + 1] = s.now
    BY <1>1
  <2>4. d \in [0..(m + 1) -> Nodes]
    BY <2>1
  <2> HIDE DEF d
  <2>5. \A i \in 0..(m + 1), j \in 0..(m + 1) : d[i] = d[j] => i = j
    BY <2>1, <2>2, <2>3 DEF Line
  <2>6. d \in Injection(0..(m + 1), Nodes)
    BY <2>4, <2>5 DEF Injection, IsInjective
  <2>7. Cardinality(0..(m + 1)) <= C
    BY <2>6, FS_Injection
  <2>8. Cardinality(0..(m + 1)) = m + 2
    BY <1>1, FS_Interval
  <2> QED BY <1>1, <1>2, <2>7, <2>8
<1> DEFINE Wrong == {k \in 0..m : w[k] # c[k]}
<1> HIDE DEF w, C
<1>5. Wrong = {}
  <2> SUFFICES ASSUME Wrong # {} PROVE FALSE
    OBVIOUS
  <2>1. PICK k \in Wrong : \A j \in Wrong : k <= j
    <3>1. Wrong \subseteq Nat
      BY <1>1
    <3> HIDE DEF Wrong
    <3> QED BY <3>1, LeastNumber
  <2>2. k # 0
    BY <1>1, <1>2, <2>1 DEF Rest, Line
  <2>3. k - 1 \in 0..m /\ k - 1 \in 0..(m - 1) /\ k \in 0..C /\ (k - 1) + 1 = k
    BY <1>1, <1>2, <1>3, <2>1, <2>2
  <2>4. w[k - 1] = c[k - 1]
    BY <2>1, <2>3
  <2>5. s.node[c[k - 1]].next = c[k]
    BY <2>3 DEF Line
  <2> QED BY <1>1, <1>2, <2>1, <2>2, <2>3, <2>4, <2>5 DEF Rest
<1>6. m + 1 \in 0..C /\ m + 1 # 0 /\ (m + 1) - 1 = m /\ w[m] = c[m] /\ c[m] # Null
  BY <1>1, <1>2, <1>3, <1>5
<1>7. w[m + 1] = s.node[c[m]].next
  BY <1>2, <1>6 DEF Rest
<1> QED BY <1>1, <1>2, <1>3, <1>4, <1>5, <1>7 DEF w, C

LEMMA OpenQueue ==
  ASSUME NEW s, NEW c, NEW m, Open(s, c, m) PROVE Queue(s, c, m)
  BY DEF Open, Line, Queue

(* The walk around a loop does not end, and goes through now.              *)
LEMMA ClosedWalk ==
  ASSUME NEW s, IsFiniteSet(Nodes), Null \notin Nodes, s.used \subseteq Nodes,
         NEW c, NEW m, Closed(s, c, m)
  PROVE  /\ Endless(s) /\ s.now \in Met(s)
         /\ Met(s) = {c[i] : i \in 0..m} \cup {s.now} 
<1> DEFINE D == {c[i] : i \in 0..m} \cup {s.now}
<1>1. m \in Nat /\ m + 1 < Cardinality(Nodes) /\ Cardinality(Nodes) \in Nat
      /\ \A k \in 0..m : Walk(s)[k] = c[k] /\ c[k] # Null
  BY LineWalk DEF Closed
<1>2. Walk(s)[m + 1] = s.now /\ s.now # Null
  BY LineWalk DEF Closed
<1>3. DOMAIN Walk(s) = 0..Cardinality(Nodes)
  BY WalkUnfolds
<1>4. \A k \in 0..(m + 1) : Walk(s)[k] \in Met(s)
  <2>1. \A k \in 0..(m + 1) : k \in DOMAIN Walk(s) /\ (k \in 0..m \/ k = m + 1)
    BY <1>1, <1>3
  <2> QED BY <1>1, <1>2, <2>1 DEF Met, Range
<1>5. D \subseteq Met(s)
  <2>1. m + 1 \in 0..(m + 1) /\ \A i \in 0..m : i \in 0..(m + 1)
    BY <1>1
  <2> QED BY <1>1, <1>2, <1>4, <2>1
<1>6. s.stack \in D /\ Null \notin D
  BY <1>1, <1>2 DEF Closed, Line
<1>7. \A n \in D : s.node[n].next \in D
  <2>1. ASSUME NEW i \in 0..m PROVE s.node[c[i]].next \in D
    <3>1. CASE i = m
      BY <3>1 DEF Closed
    <3>2. CASE i # m
      <4>1. i \in 0..(m - 1) /\ i + 1 \in 0..m
        BY <1>1, <3>2
      <4> QED BY <4>1 DEF Closed, Line
    <3> QED BY <3>1, <3>2
  <2>2. s.node[s.now].next \in D
    BY <1>6 DEF Closed
  <2> QED BY <2>1, <2>2
<1>8. Endless(s) /\ Met(s) \subseteq D
  <2> HIDE DEF D
  <2> QED BY <1>6, <1>7, WalkStays
<1> QED BY <1>5, <1>8

(* What the queue stands for.                                              *)
LEMMA LeastIs ==
  ASSUME NEW A \in SUBSET Nat, NEW x \in A, \A y \in A : x <= y PROVE Min(A) = x
<1>1. \A z \in A : (\A y \in A : z <= y) => z = x
  OBVIOUS
<1> QED BY <1>1 DEF Min

LEMMA WaitingLine ==
  ASSUME NEW s, IsFiniteSet(Nodes), Null \notin Nodes, s.used \subseteq Nodes,
         NEW c, NEW m, Line(s, c, m), s.node[c[m]].next \in {Null, s.now}
  PROVE  Waiting(s) = [i \in 1..(m + 1) |-> s.node[c[i - 1]].thread]
<1> DEFINE w == Walk(s)
           stops == {k \in DOMAIN w : w[k] \in {Null, s.now}}
<1>1. /\ m \in Nat /\ m + 1 \in 0..Cardinality(Nodes) /\ DOMAIN w = 0..Cardinality(Nodes)
      /\ Cardinality(Nodes) \in Nat
      /\ w[m + 1] \in {Null, s.now}
      /\ \A k \in 0..m : w[k] = c[k] /\ w[k] # Null
  BY LineWalk, WalkUnfolds
<1>2. \A k \in 0..m : c[k] # s.now
  BY DEF Line
<1> HIDE DEF w
<1>3. stops \in SUBSET Nat /\ m + 1 \in stops /\ \A k \in stops : m + 1 <= k
  <2>1. ASSUME NEW k \in stops, k < m + 1 PROVE FALSE
    <3>1. k \in 0..m
      BY <1>1, <2>1
    <3> QED BY <1>1, <1>2, <2>1, <3>1
  <2> QED BY <1>1, <2>1
<1> HIDE DEF stops
<1>4. Min(stops) = m + 1 /\ stops # {}
  BY <1>1, <1>3, LeastIs
<1>5. Waiting(s) = [i \in 1..(m + 1) |-> s.node[w[i - 1]].thread]
  BY <1>4 DEF Waiting, w, stops
<1>6. \A i \in 1..(m + 1) : w[i - 1] = c[i - 1]
  <2>1. \A i \in 1..(m + 1) : i - 1 \in 0..m
    BY <1>1
  <2> QED BY <1>1, <2>1
<1> QED BY <1>5, <1>6

LEMMA WaitingQueue ==
  ASSUME NEW s, IsFiniteSet(Nodes), Null \notin Nodes, s.used \subseteq Nodes,
         NEW c, NEW m, Open(s, c, m) \/ Closed(s, c, m)
  PROVE  Waiting(s) = [i \in 1..(m + 1) |-> s.node[c[i - 1]].thread]
<1>1. Line(s, c, m) /\ s.node[c[m]].next \in {Null, s.now}
  BY DEF Open, Closed
<1> QED BY <1>1, WaitingLine

LEMMA WaitingNone ==
  ASSUME NEW s, IsFiniteSet(Nodes), s.stack \in {Null, s.now} PROVE Waiting(s) = << >>
<1> DEFINE w == Walk(s)
           stops == {k \in DOMAIN w : w[k] \in {Null, s.now}}
<1>1. /\ Cardinality(Nodes) \in Nat /\ DOMAIN w = 0..Cardinality(Nodes)
      /\ w[0] = Rest(s, w, 0)
  BY WalkUnfolds
<1>2. w[0] \in {Null, s.now}
  BY <1>1 DEF Rest
<1> HIDE DEF w
<1>3. stops \in SUBSET Nat /\ 0 \in stops /\ \A k \in stops : 0 <= k
  BY <1>1, <1>2
<1> HIDE DEF stops
<1>4. Min(stops) = 0 /\ stops # {}
  BY <1>3, LeastIs
<1>5. Waiting(s) = [i \in 1..0 |-> s.node[w[i - 1]].thread]
  BY <1>4 DEF Waiting, w, stops
<1> QED BY <1>5

LEMMA WaitingEmpty ==
  ASSUME NEW s, IsFiniteSet(Nodes), s.stack = Null PROVE Waiting(s) = << >>
  BY WaitingNone

-----------------------------------------------------------------------------
(* Each operation keeps the shape, and is a step of the round robin: u and *)
(* q are the turn and those who wait, u2 and q2 afterwards.                *)
Adds(t, u, q, u2, q2) ==
    \/ u = NoThread /\ u2 = t /\ q2 = q
    \/ q2 = Append(q, t) /\ u2 = u

LEMMA LineLength ==
  ASSUME NEW q, NEW t, NEW n \in Nat, NEW f, q = [i \in 1..n |-> f[i]]
  PROVE  Append(q, t) = [i \in 1..(n + 1) |-> IF i <= n THEN f[i] ELSE t]
  OBVIOUS

LEMMA AddedShape ==
  ASSUME NEW s, Typed(s), Shape(s), SchedulerAssumption,
         NEW t \in Threads, NEW n \in Nodes \ s.used
  PROVE  LET a == Added(s, t, n)
         IN  /\ Shape(a)
             /\ \/ Adds(t, Turn(s), Waiting(s), Turn(a), Waiting(a))
                \/ Turn(a) = Turn(s) /\ Waiting(a) = Waiting(s)
<1> DEFINE b == Taken(s, t, n)
<1>1. IsFiniteSet(Nodes) /\ Null \notin Nodes /\ NoThread \notin Threads /\ n # Null
  BY DEF SchedulerAssumption
<1>2. WellFormed(s) /\ s.used \subseteq Nodes /\ s.now \in s.used \cup {Null} /\ n # s.now
  BY <1>1 DEF Typed, WellFormed, Shape
<1>3. /\ WellFormed(b) /\ b.used = s.used \cup {n}
      /\ b.stack = s.stack /\ b.now = s.now
      /\ b.node[n] = [thread |-> t, next |-> Null]
      /\ \A k \in Nodes \ {n} : b.node[k] = s.node[k]
  BY <1>2, TakenNode
<1> HIDE DEF b
<1>4. b.node[n].thread = t /\ b.node[n].next = Null
  BY <1>3
<1>15. b.used \subseteq Nodes
  BY <1>2, <1>3
<1>5. NowEmpty(s) => s.now = Null
  BY <1>1, <1>2 DEF NowEmpty, Typed
<1>6. Turn(b) = Turn(s) /\ (s.now = Null => Turn(s) = NoThread)
  BY <1>1, <1>2, <1>3 DEF Turn
<1>7. ASSUME NEW c, NEW m, Line(s, c, m)
      PROVE  /\ Line(b, c, m) /\ m \in Nat /\ c \in [0..m -> b.used]
             /\ \A i \in 0..m : c[i] \in s.used /\ c[i] # n /\ b.node[c[i]] = s.node[c[i]]
  <2>1. m \in Nat /\ \A i \in 0..m : c[i] \in s.used /\ c[i] # n
    BY <1>7 DEF Line
  <2>2. c \in [0..m -> b.used]
    BY <1>3, <1>7 DEF Line
  <2>3. \A i \in 0..m : b.node[c[i]] = s.node[c[i]]
    BY <1>2, <1>3, <2>1
  <2> QED BY <1>3, <1>7, <2>1, <2>2, <2>3 DEF Line
<1>8. CASE NowEmpty(s) /\ Added(s, t, n) = [b EXCEPT !.now = n]
  <2> DEFINE a == [b EXCEPT !.now = n]
  <2>1. a.node = b.node /\ a.used = b.used /\ a.stack = b.stack /\ a.now = n
    BY <1>3 DEF WellFormed
  <2> HIDE DEF a
  <2>2. Turn(s) = NoThread /\ Turn(a) = t
    BY <1>1, <1>4, <1>5, <1>6, <1>8, <2>1 DEF Turn
  <2>3. CASE s.stack = Null
    <3>1. Shape(a)
      BY <1>3, <1>4, <2>1, <2>3 DEF Shape, Empty
    <3>2. Waiting(a) = Waiting(s)
      BY <1>1, <1>3, <2>1, <2>3, WaitingEmpty
    <3> QED BY <1>8, <2>2, <3>1, <3>2 DEF Adds, a
  <2>4. ASSUME NEW m \in Nat, NEW c \in [0..m -> s.used], Open(s, c, m)
        PROVE  Shape(a) /\ Waiting(a) = Waiting(s)
    <3>1. Line(s, c, m)
      BY <2>4 DEF Open
    <3>2. Line(b, c, m)
      BY <1>7, <3>1
    <3>3. \A i \in 0..m : c[i] # n /\ a.node[c[i]] = s.node[c[i]]
      BY <1>7, <2>1, <3>1
    <3>4. Line(a, c, m)
      BY <2>1, <3>2, <3>3 DEF Line
    <3>5. Open(a, c, m)
      <4>1. a.node[a.now].next = Null
        BY <1>4, <2>1
      <4> QED BY <2>4, <3>3, <3>4, <4>1 DEF Open
    <3>6. c \in [0..m -> a.used]
      BY <3>4 DEF Line
    <3>7. Shape(a)
      BY <1>3, <2>1, <3>5, <3>6 DEF Shape
    <3>8. Waiting(a) = [i \in 1..(m + 1) |-> a.node[c[i - 1]].thread]
      BY <1>1, <1>3, <2>1, <3>5, WaitingQueue DEF WellFormed
    <3>9. Waiting(s) = [i \in 1..(m + 1) |-> s.node[c[i - 1]].thread]
      BY <1>1, <1>2, <2>4, WaitingQueue
    <3>10. \A i \in 1..(m + 1) : i - 1 \in 0..m
      OBVIOUS
    <3> QED BY <3>3, <3>7, <3>8, <3>9, <3>10
  <2>5. ASSUME NEW m \in Nat, NEW c \in [0..m -> s.used], Closed(s, c, m) PROVE FALSE
    BY <1>1, <1>2, <1>5, <1>8, <2>5 DEF Closed
  <2> QED BY <1>8, <2>2, <2>3, <2>4, <2>5 DEF Shape, Empty, Adds, a
<1>9. CASE ~NowEmpty(s) /\ s.stack = Null /\ Added(s, t, n) = [b EXCEPT !.stack = n]
  <2> DEFINE a == [b EXCEPT !.stack = n]
             c == [i \in 0..0 |-> n]
  <2>1. a.node = b.node /\ a.used = b.used /\ a.stack = n /\ a.now = b.now
    BY <1>3 DEF WellFormed
  <2> HIDE DEF a
  <2>2. c \in [0..0 -> a.used] /\ c[0] = n /\ \A i \in 0..0 : i = 0
    BY <1>3, <2>1
  <2> HIDE DEF c
  <2>3. Line(a, c, 0)
    BY <1>2, <1>3, <2>1, <2>2 DEF Line
  <2>4. s.now # Null => a.node[a.now].next = Null
    <3>1. \A m \in Nat : \A d \in [0..m -> s.used] : ~Line(s, d, m)
      BY <1>1, <1>2, <1>9 DEF Line
    <3>2. Empty(s)
      BY <3>1 DEF Shape, Open, Closed
    <3> QED BY <1>2, <1>3, <2>1, <3>2 DEF Empty
  <2>5. Open(a, c, 0)
    BY <1>3, <1>4, <2>1, <2>2, <2>3, <2>4 DEF Open
  <2>6. Shape(a)
    BY <1>2, <1>3, <2>1, <2>2, <2>5 DEF Shape
  <2>7. Waiting(a) = [i \in 1..(0 + 1) |-> a.node[c[i - 1]].thread]
    <3>1. a.used \subseteq Nodes /\ Line(a, c, 0) /\ a.node[c[0]].next \in {Null, a.now}
      BY <1>15, <2>1, <2>5 DEF Open
    <3>2. \A z : Line(a, c, z) /\ a.node[c[z]].next \in {Null, a.now}
              => Waiting(a) = [i \in 1..(z + 1) |-> a.node[c[i - 1]].thread]
      BY <1>1, <3>1, WaitingLine
    <3> QED BY <3>1, <3>2
  <2>8. Waiting(a) = <<t>>
    BY <1>4, <2>1, <2>2, <2>7
  <2>9. Waiting(s) = << >>
    BY <1>1, <1>9, WaitingEmpty
  <2>10. Turn(a) = Turn(s)
    BY <1>6, <2>1 DEF Turn
  <2> QED BY <1>9, <2>6, <2>8, <2>9, <2>10 DEF Adds, a
<1>10. ASSUME s.stack # Null, ~NowEmpty(s), NEW m \in Nat, NEW c \in [0..m -> s.used], Open(s, c, m)
       PROVE  /\ Shape(Added(s, t, n))
              /\ Adds(t, Turn(s), Waiting(s), Turn(Added(s, t, n)), Waiting(Added(s, t, n)))
  <2> DEFINE d == Longer(c, m, n)
             a == Relink(b, c[m], n)
  <2>1. /\ Line(b, c, m) /\ s.node[c[m]].next = Null
        /\ \A i \in 0..m : c[i] \in s.used /\ c[i] # n /\ c[i] # s.now /\ b.node[c[i]] = s.node[c[i]]
    <3>1. Line(s, c, m) /\ s.node[c[m]].next = Null
      BY <1>10 DEF Open
    <3>2. \A i \in 0..m : c[i] # s.now
      BY <3>1 DEF Line
    <3> QED BY <1>7, <3>1, <3>2
  <2>2. m \in 0..m /\ c[m] \in Nodes
    BY <1>2, <2>1
  <2>3. Queue(s, c, m) /\ Queue(b, c, m)
    BY <1>10, <2>1, <2>2 DEF Open, Line, Queue
  <2>4. ~Endless(b) /\ LastNode(b) = c[m]
    BY <1>1, <1>3, <2>3, QueueEnds DEF WellFormed
  <2>5. Added(s, t, n) = a
    BY <1>10, <2>4 DEF Added, Taken, Relink, b
  <2>6. /\ WellFormed(a) /\ a.used = s.used \cup {n} /\ a.stack = s.stack /\ a.now = s.now
        /\ a.node[c[m]].thread = b.node[c[m]].thread /\ a.node[c[m]].next = n
        /\ \A k \in Nodes \ {c[m]} : a.node[k] = b.node[k]
    <3>1. n \in Pointers
      BY DEF Pointers
    <3> HIDE DEF a
    <3> QED BY <1>3, <2>2, <3>1, RelinkNode DEF a
  <2> HIDE DEF a
  <2>7. a.node[n].next = Null /\ a.node[n].thread = t
        /\ \A k \in Nodes \ {n, c[m]} : a.node[k] = s.node[k]
    BY <1>3, <1>4, <2>1, <2>2, <2>6
  <2>8. Queue(a, d, m + 1)
    BY <1>1, <1>2, <2>3, <2>6, <2>7, QueueGrows
  <2>9. /\ \A i \in 0..m : d[i] = c[i]
        /\ d[m + 1] = n /\ \A i \in 0..(m + 1) : i \in 0..m \/ i = m + 1
    BY DEF Longer
  <2> HIDE DEF d
  <2>10. Line(a, d, m + 1) /\ a.node[d[m + 1]].next = Null
    BY <1>2, <2>1, <2>6, <2>8, <2>9 DEF Queue, Line
  <2>11. a.now # Null => a.now \in Nodes \ {n, c[m]}
    BY <1>1, <1>2, <2>1, <2>2, <2>6
  <2>12. Open(a, d, m + 1)
    BY <1>10, <2>6, <2>7, <2>10, <2>11 DEF Open
  <2>13. m + 1 \in Nat /\ d \in [0..(m + 1) -> a.used]
    BY <2>10 DEF Line
  <2>14. Shape(a)
    BY <1>2, <2>6, <2>12, <2>13 DEF Shape
  <2>15. Turn(a) = Turn(s)
    BY <2>6, <2>7, <2>11 DEF Turn
  <2>16. Waiting(s) = [i \in 1..(m + 1) |-> s.node[c[i - 1]].thread]
    BY <1>1, <1>2, <1>10, WaitingQueue
  <2>17. Waiting(a) = [i \in 1..((m + 1) + 1) |-> a.node[d[i - 1]].thread]
    BY <1>1, <2>6, <2>10, WaitingLine DEF WellFormed
  <2>18. \A i \in 1..(m + 1) : a.node[d[i - 1]].thread = s.node[c[i - 1]].thread
    <3> TAKE i \in 1..(m + 1)
    <3>1. i - 1 \in 0..m
      OBVIOUS
    <3>2. CASE c[i - 1] = c[m]
      BY <2>1, <2>2, <2>6, <2>9, <3>1, <3>2
    <3>3. CASE c[i - 1] # c[m]
      BY <1>2, <2>1, <2>7, <2>9, <3>1, <3>3
    <3> QED BY <3>2, <3>3
  <2>19. a.node[d[((m + 1) + 1) - 1]].thread = t
    BY <2>7, <2>9
  <2>20. Waiting(a) = Append(Waiting(s), t)
    <3> DEFINE f == [i \in 1..(m + 1) |-> s.node[c[i - 1]].thread]
    <3>1. Append(Waiting(s), t) = [i \in 1..((m + 1) + 1) |-> IF i <= m + 1 THEN f[i] ELSE t]
      BY <2>16, LineLength
    <3>2. \A i \in 1..((m + 1) + 1) : a.node[d[i - 1]].thread = IF i <= m + 1 THEN f[i] ELSE t
      <4> TAKE i \in 1..((m + 1) + 1)
      <4>1. CASE i \in 1..(m + 1)
        BY <2>18, <4>1
      <4>2. CASE i = (m + 1) + 1
        BY <2>19, <4>2
      <4> QED BY <4>1, <4>2
    <3> HIDE DEF f
    <3> QED BY <2>17, <3>1, <3>2
  <2> QED BY <2>5, <2>14, <2>15, <2>20 DEF Adds
<1>11. ASSUME NEW m \in Nat, NEW c \in [0..m -> s.used], Closed(s, c, m)
       PROVE  LET a == Added(s, t, n)
              IN  Shape(a) /\ Turn(a) = Turn(s) /\ Waiting(a) = Waiting(s)
  <2>1. /\ Line(b, c, m)
        /\ \A i \in 0..m : c[i] \in s.used /\ c[i] # n /\ b.node[c[i]] = s.node[c[i]]
    BY <1>7, <1>11 DEF Closed
  <2>2. s.now \in s.used /\ s.now # Null /\ b.node[s.now] = s.node[s.now] /\ c[0] = s.stack
    BY <1>1, <1>2, <1>3, <1>11 DEF Closed, Line
  <2>3. Closed(b, c, m)
    BY <1>3, <1>11, <2>1, <2>2 DEF Closed
  <2>4. Endless(b) /\ s.stack # Null /\ ~NowEmpty(s)
    BY <1>1, <1>2, <1>3, <1>5, <2>1, <2>2, <2>3, ClosedWalk DEF WellFormed
  <2> DEFINE a == Spinning(b)
  <2>5. Added(s, t, n) = a
    BY <2>4 DEF Added, Taken, b
  <2>6. a.node = b.node /\ a.used = b.used /\ a.stack = b.stack /\ a.now = b.now
    BY <1>3 DEF WellFormed, Spinning
  <2> HIDE DEF a
  <2>7. Line(a, c, m)
    BY <2>1, <2>6 DEF Line
  <2>8. Closed(a, c, m)
    BY <2>3, <2>6, <2>7 DEF Closed
  <2>9. Shape(a)
    BY <1>3, <2>2, <2>6, <2>7, <2>8 DEF Shape, Line
  <2>10. Turn(a) = Turn(s)
    BY <1>3, <2>2, <2>6 DEF Turn
  <2>11. Waiting(s) = [i \in 1..(m + 1) |-> s.node[c[i - 1]].thread]
    BY <1>1, <1>2, <1>11, WaitingQueue
  <2>12. Waiting(a) = [i \in 1..(m + 1) |-> a.node[c[i - 1]].thread]
    <3>1. Line(a, c, m) /\ a.node[c[m]].next \in {Null, a.now}
      BY <2>8 DEF Closed
    <3>2. IsFiniteSet(Nodes) /\ Null \notin Nodes
      BY <1>1
    <3>3. a.used \subseteq Nodes
      BY <1>15, <2>6
    <3>4. \A z : /\ Line(z, c, m) /\ z.node[c[m]].next \in {Null, z.now}
                /\ z.used \subseteq Nodes
                => Waiting(z) = [i \in 1..(m + 1) |-> z.node[c[i - 1]].thread]
      BY <3>2, WaitingLine
    <3> QED BY <3>1, <3>3, <3>4
  <2>13. \A i \in 1..(m + 1) : i - 1 \in 0..m
    OBVIOUS
  <2> QED BY <2>1, <2>5, <2>6, <2>9, <2>10, <2>11, <2>12, <2>13
<1>12. s.stack # Null => \E m \in Nat : \E c \in [0..m -> s.used] : Open(s, c, m) \/ Closed(s, c, m)
  BY DEF Shape, Empty
<1>13. NowEmpty(s) => Added(s, t, n) = [b EXCEPT !.now = n]
  BY DEF Added, Taken, b
<1>14. ~NowEmpty(s) /\ s.stack = Null => Added(s, t, n) = [b EXCEPT !.stack = n]
  BY DEF Added, Taken, b
<1> QED BY <1>8, <1>9, <1>10, <1>11, <1>12, <1>13, <1>14

Schedules(u, q, u2, q2) ==
    /\ q # << >> /\ u2 = Head(q)
    /\ q2 = Tail(q) \o (IF u = NoThread THEN << >> ELSE <<u>>)

(* What schedule does to a queue that ends.                                *)
LEMMA ScheduledNodes ==
  ASSUME NEW s, Typed(s), SchedulerAssumption, Shape(s), NEW m, NEW c, Open(s, c, m)
  PROVE  LET r == Scheduled(s)
         IN  /\ r.used = s.used /\ r.now = c[0] /\ r.stack = r.node[c[0]].next
             /\ r.node[c[m]].next = s.now /\ r.node[c[m]].thread = s.node[c[m]].thread
             /\ \A k \in Nodes \ {c[m]} : r.node[k] = s.node[k]
             /\ r.status = s.status
<1>1. IsFiniteSet(Nodes) /\ Null \notin Nodes
  BY DEF SchedulerAssumption
<1>2. WellFormed(s) /\ s.used \subseteq Nodes /\ s.now \in Pointers
  BY DEF Typed, WellFormed
<1>3. m \in Nat /\ c[0] = s.stack /\ c[0] \in Nodes /\ c[m] \in Nodes /\ s.stack # Null
  <2>1. m \in Nat /\ c[0] = s.stack /\ c[0] \in s.used /\ c[m] \in s.used
    BY DEF Open, Line
  <2> QED BY <1>1, <1>2, <2>1
<1>4. ~Endless(s) /\ LastNode(s) = c[m]
  BY <1>1, <1>2, OpenQueue, QueueEnds
<1> DEFINE q == Relink(s, c[m], s.now)
           r == [q EXCEPT !.now = s.stack]
<1>5. /\ WellFormed(q) /\ q.used = s.used /\ q.status = s.status
      /\ q.node[c[m]].thread = s.node[c[m]].thread /\ q.node[c[m]].next = s.now
      /\ \A k \in Nodes \ {c[m]} : q.node[k] = s.node[k]
  <2> HIDE DEF q
  <2> QED BY <1>2, <1>3, RelinkNode DEF q
<1>6. r = [s EXCEPT !.node[c[m]].next = s.now, !.now = s.stack]
  BY DEF Relink
<1> HIDE DEF q
<1>7. WellFormed(r) /\ r.used = s.used /\ r.node = q.node /\ r.now = s.stack /\ r.status = s.status
  BY <1>3, <1>5 DEF WellFormed, Pointers
<1>8. Scheduled(s) = [r EXCEPT !.stack = r.node[s.stack].next]
  BY <1>3, <1>4, <1>6 DEF Scheduled
<1> HIDE DEF r
<1> DEFINE z == Scheduled(s)
<1>9. z.used = s.used /\ z.node = q.node /\ z.now = s.stack /\ z.stack = q.node[s.stack].next
      /\ z.status = s.status
  BY <1>7, <1>8 DEF WellFormed
<1> QED BY <1>3, <1>5, <1>9

LEMMA HeadTail ==
  ASSUME NEW n \in Nat, NEW q, q = [i \in 1..(n + 1) |-> q[i]]
  PROVE  q # << >> /\ Head(q) = q[1] /\ Tail(q) = [i \in 1..n |-> q[i + 1]]
<1>1. q \in Seq({q[i] : i \in 1..(n + 1)}) /\ Len(q) = n + 1
  OBVIOUS
<1>2. Len(<< >>) = 0
  OBVIOUS
<1> QED BY <1>1, <1>2

LEMMA ScheduledShape ==
  ASSUME NEW s, Typed(s), Shape(s), SchedulerAssumption
  PROVE  LET r == Scheduled(s)
         IN  /\ Shape(r)
             /\ \/ Schedules(Turn(s), Waiting(s), Turn(r), Waiting(r))
                \/ Turn(r) = Turn(s) /\ Waiting(r) = Waiting(s)
<1> DEFINE r == Scheduled(s)
<1>1. IsFiniteSet(Nodes) /\ Null \notin Nodes /\ NoThread \notin Threads
  BY DEF SchedulerAssumption
<1>2. s.used \subseteq Nodes /\ s.now \in s.used \cup {Null}
  BY DEF Typed, WellFormed, Shape
<1>3. CASE s.stack = Null
  BY <1>3 DEF Scheduled
<1>4. ASSUME s.stack # Null, NEW m \in Nat, NEW c \in [0..m -> s.used], Closed(s, c, m)
      PROVE  Shape(r) /\ Turn(r) = Turn(s) /\ Waiting(r) = Waiting(s)
  <2>1. r = Spinning(s)
    BY <1>1, <1>2, <1>4, ClosedWalk DEF Scheduled
  <2>2. r.node = s.node /\ r.used = s.used /\ r.stack = s.stack /\ r.now = s.now
    BY <2>1, SpinningTyped
  <2> HIDE DEF r
  <2>3. Line(r, c, m)
    BY <1>4, <2>2 DEF Closed, Line
  <2>4. Closed(r, c, m)
    BY <1>4, <2>2, <2>3 DEF Closed
  <2>5. Shape(r)
    BY <1>2, <2>2, <2>4 DEF Shape
  <2>6. Turn(r) = Turn(s)
    BY <2>2 DEF Turn
  <2>7. Waiting(s) = [i \in 1..(m + 1) |-> s.node[c[i - 1]].thread]
    BY <1>1, <1>2, <1>4, WaitingQueue
  <2>8. Waiting(r) = [i \in 1..(m + 1) |-> r.node[c[i - 1]].thread]
    BY <1>1, <1>2, <2>2, <2>4, WaitingQueue
  <2> QED BY <2>2, <2>5, <2>6, <2>7, <2>8
<1>5. ASSUME NEW m \in Nat, NEW c \in [0..m -> s.used], Open(s, c, m)
      PROVE  Shape(r) /\ Schedules(Turn(s), Waiting(s), Turn(r), Waiting(r))
  <2>1. /\ Line(s, c, m) /\ s.node[c[m]].next = Null
        /\ \A i \in 0..m : c[i] \in s.used /\ c[i] \in Nodes /\ c[i] # Null /\ c[i] # s.now
        /\ \A i \in 0..m, j \in 0..m : c[i] = c[j] => i = j
        /\ \A i \in 0..(m - 1) : s.node[c[i]].next = c[i + 1]
        /\ 0 \in 0..m /\ m \in 0..m
    BY <1>1, <1>2, <1>5 DEF Open, Line
  <2>2. /\ r.used = s.used /\ r.now = c[0] /\ r.stack = r.node[c[0]].next
        /\ r.node[c[m]].next = s.now /\ r.node[c[m]].thread = s.node[c[m]].thread
        /\ \A k \in Nodes \ {c[m]} : r.node[k] = s.node[k]
    BY <1>5, ScheduledNodes
  <2> HIDE DEF r
  <2>3. \A k \in Nodes : r.node[k].thread = s.node[k].thread
    BY <2>2
  <2>4. \A i \in 0..(m - 1) : r.node[c[i]].next = c[i + 1] /\ r.node[c[i]] = s.node[c[i]]
    <3> TAKE i \in 0..(m - 1)
    <3>1. i \in 0..m /\ i # m
      OBVIOUS
    <3> QED BY <2>1, <2>2, <3>1
  <2> DEFINE f == [i \in 1..(m + 1) |-> s.node[c[i - 1]].thread]
  <2>5. Waiting(s) = f
    BY <1>1, <1>2, <2>1, WaitingLine
  <2>6. /\ Waiting(s) # << >> /\ Head(Waiting(s)) = s.node[c[0]].thread
        /\ Tail(Waiting(s)) = [i \in 1..m |-> s.node[c[i]].thread]
    <3>1. /\ f[1] = s.node[c[0]].thread
          /\ [i \in 1..m |-> f[i + 1]] = [i \in 1..m |-> s.node[c[i]].thread]
      <4>1. 1 \in 1..(m + 1) /\ 1 - 1 = 0
        OBVIOUS
      <4>2. \A i \in 1..m : i + 1 \in 1..(m + 1) /\ (i + 1) - 1 = i
        OBVIOUS
      <4> QED BY <4>1, <4>2
    <3>2. f = [i \in 1..(m + 1) |-> f[i]]
      OBVIOUS
    <3> HIDE DEF f
    <3>3. f # << >> /\ Head(f) = f[1] /\ Tail(f) = [i \in 1..m |-> f[i + 1]]
      BY <3>2, HeadTail
    <3> QED BY <2>5, <3>1, <3>3
  <2>7. Turn(r) = Head(Waiting(s))
    BY <2>1, <2>2, <2>3, <2>6 DEF Turn
  <2>8. CASE s.now = Null /\ m = 0
    <3>1. Empty(r) /\ Shape(r)
      BY <2>1, <2>2, <2>8 DEF Empty, Shape
    <3>2. Waiting(r) = << >>
      BY <1>1, <3>1, WaitingEmpty DEF Empty
    <3>3. Turn(s) = NoThread /\ Tail(Waiting(s)) = << >>
      BY <2>6, <2>8 DEF Turn
    <3> QED BY <2>6, <2>7, <3>1, <3>2, <3>3 DEF Schedules
  <2>9. CASE s.now = Null /\ m # 0
    <3> DEFINE d == [i \in 0..(m - 1) |-> c[i + 1]]
    <3>1. \A i \in 0..(m - 1) : i + 1 \in 0..m /\ d[i] = c[i + 1] /\ d[i] \in s.used
      BY <2>1
    <3>2. m - 1 \in Nat /\ 0 \in 0..(m - 1) /\ m - 1 \in 0..(m - 1) /\ (m - 1) + 1 = m
      BY <2>9
    <3>3. d \in [0..(m - 1) -> r.used]
      BY <2>2, <3>1
    <3> HIDE DEF d
    <3>4. \A i \in 0..(m - 1), j \in 0..(m - 1) : d[i] = d[j] => i = j
      BY <2>1, <3>1
    <3>5. d[0] = r.stack
      BY <2>2, <2>4, <3>1, <3>2
    <3>6. \A i \in 0..((m - 1) - 1) : r.node[d[i]].next = d[i + 1]
      <4> TAKE i \in 0..((m - 1) - 1)
      <4>1. i \in 0..(m - 1) /\ i + 1 \in 0..(m - 1)
        OBVIOUS
      <4> QED BY <2>4, <3>1, <4>1
    <3>7. \A i \in 0..(m - 1) : d[i] # r.now
      <4> TAKE i \in 0..(m - 1)
      <4>1. i + 1 # 0
        OBVIOUS
      <4> QED BY <2>1, <2>2, <3>1, <4>1
    <3>8. Line(r, d, m - 1)
      BY <3>2, <3>3, <3>4, <3>5, <3>6, <3>7 DEF Line
    <3>9. r.node[d[m - 1]].next = Null /\ r.node[r.now].next = r.stack
      BY <2>2, <2>9, <3>1, <3>2
    <3>10. Open(r, d, m - 1) /\ Shape(r)
      BY <2>1, <2>2, <3>2, <3>3, <3>8, <3>9 DEF Open, Shape
    <3>11. Waiting(r) = [i \in 1..m |-> s.node[c[i]].thread]
      <4>1. Waiting(r) = [i \in 1..((m - 1) + 1) |-> r.node[d[i - 1]].thread]
        BY <1>1, <1>2, <2>2, <3>8, <3>9, WaitingLine
      <4>2. \A i \in 1..m : r.node[d[i - 1]].thread = s.node[c[i]].thread
        <5> TAKE i \in 1..m
        <5>1. i - 1 \in 0..(m - 1) /\ (i - 1) + 1 = i /\ i \in 0..m
          OBVIOUS
        <5> QED BY <2>1, <2>3, <3>1, <5>1
      <4> QED BY <3>2, <4>1, <4>2
    <3>12. Turn(s) = NoThread /\ Tail(Waiting(s)) \o << >> = Tail(Waiting(s))
      BY <2>6, <2>9 DEF Turn
    <3> QED BY <2>6, <2>7, <3>10, <3>11, <3>12 DEF Schedules
  <2>10. CASE s.now # Null
    <3> DEFINE d == [i \in 0..m |-> IF i < m THEN c[i + 1] ELSE s.now]
    <3>1. s.now \in s.used /\ s.now \in Nodes /\ r.node[s.now] = s.node[s.now]
          /\ s.node[s.now].next \in {Null, s.stack} /\ c[0] = s.stack
      BY <1>2, <2>1, <2>2, <2>10, <1>5 DEF Open, Line
    <3>2. /\ \A i \in 0..m : i \in 0..(m - 1) \/ i = m
          /\ \A i \in 0..(m - 1) : i + 1 \in 0..m /\ d[i] = c[i + 1]
          /\ d[m] = s.now /\ d \in [0..m -> r.used]
      <4>1. \A i \in 0..(m - 1) : i + 1 \in 0..m /\ i \in 0..m /\ i < m
        OBVIOUS
      <4>2. \A i \in 0..m : (IF i < m THEN c[i + 1] ELSE s.now) \in r.used
        <5> TAKE i \in 0..m
        <5>1. i < m => i + 1 \in 0..m
          OBVIOUS
        <5> QED BY <2>1, <2>2, <3>1, <5>1
      <4> QED BY <2>1, <4>1, <4>2
    <3> HIDE DEF d
    <3>3. \A i \in 0..m, j \in 0..m : d[i] = d[j] => i = j
      <4> TAKE i \in 0..m, j \in 0..m
      <4>1. CASE i = m \/ j = m
        BY <2>1, <3>2, <4>1
      <4>2. CASE i # m /\ j # m
        <5>1. i \in 0..(m - 1) /\ j \in 0..(m - 1) /\ (i + 1 = j + 1 => i = j)
          BY <4>2
        <5> QED BY <2>1, <3>2, <5>1
      <4> QED BY <4>1, <4>2
    <3>4. d[0] = r.stack
      <4>1. CASE m = 0
        BY <2>2, <3>2, <4>1
      <4>2. CASE m # 0
        <5>1. 0 \in 0..(m - 1)
          BY <4>2
        <5> QED BY <2>2, <2>4, <3>2, <5>1
      <4> QED BY <4>1, <4>2
    <3>5. \A i \in 0..(m - 1) : r.node[d[i]].next = d[i + 1]
      <4> TAKE i \in 0..(m - 1)
      <4>1. CASE i + 1 = m
        BY <2>2, <3>2, <4>1
      <4>2. CASE i + 1 # m
        <5>1. i + 1 \in 0..(m - 1)
          BY <4>2
        <5> QED BY <2>4, <3>2, <5>1
      <4> QED BY <4>1, <4>2
    <3>6. \A i \in 0..m : d[i] # r.now
      <4> TAKE i \in 0..m
      <4>1. CASE i = m
        BY <2>1, <2>2, <3>2, <4>1
      <4>2. CASE i # m
        <5>1. i \in 0..(m - 1) /\ i + 1 # 0
          BY <4>2
        <5> QED BY <2>1, <2>2, <3>2, <5>1
      <4> QED BY <4>1, <4>2
    <3>7. Line(r, d, m)
      BY <3>2, <3>3, <3>4, <3>5, <3>6 DEF Line
    <3>8. r.node[d[m]].next \in {Null, r.now} /\ r.node[r.now].next = r.stack /\ r.now \in r.used
      BY <2>1, <2>2, <3>1, <3>2
    <3>9. Open(r, d, m) \/ Closed(r, d, m)
      BY <3>7, <3>8 DEF Open, Closed
    <3>10. Shape(r)
      BY <3>2, <3>8, <3>9 DEF Shape
    <3>11. Waiting(r) = [i \in 1..(m + 1) |-> r.node[d[i - 1]].thread]
      BY <1>1, <1>2, <2>2, <3>7, <3>8, WaitingLine
    <3>12. Turn(s) = s.node[s.now].thread /\ Turn(s) # NoThread
      BY <1>1, <2>10, <3>1 DEF Turn, Typed
    <3> DEFINE g == [i \in 1..m |-> s.node[c[i]].thread]
    <3>13. Waiting(r) = Tail(Waiting(s)) \o <<Turn(s)>>
      <4>1. \A i \in 1..(m + 1) :
                r.node[d[i - 1]].thread = IF i <= m THEN g[i] ELSE Turn(s)
        <5> TAKE i \in 1..(m + 1)
        <5>1. CASE i = m + 1
          <6>1. i - 1 = m /\ ~(i <= m)
            BY <5>1
          <6> QED BY <3>1, <3>2, <3>12, <6>1
        <5>2. CASE i # m + 1
          <6>1. i - 1 \in 0..(m - 1) /\ (i - 1) + 1 = i /\ i \in 0..m /\ i \in 1..m /\ i <= m
            BY <5>2
          <6>2. d[i - 1] = c[i] /\ c[i] \in Nodes
            BY <2>1, <3>2, <6>1
          <6> QED BY <2>3, <6>1, <6>2
        <5> QED BY <5>1, <5>2
      <4>2. Append(g, Turn(s)) = [i \in 1..(m + 1) |-> IF i <= m THEN g[i] ELSE Turn(s)]
        <5> DEFINE h == g
        <5>1. h = [i \in 1..m |-> h[i]]
          OBVIOUS
        <5> HIDE DEF h
        <5>2. Append(h, Turn(s)) = [i \in 1..(m + 1) |-> IF i <= m THEN h[i] ELSE Turn(s)]
          BY <5>1, LineLength
        <5> QED BY <5>2 DEF h
      <4>3. Tail(Waiting(s)) \o <<Turn(s)>> = Append(g, Turn(s))
        <5>1. Tail(Waiting(s)) = g
          BY <2>6
        <5>2. g \in Seq({g[i] : i \in 1..m})
          OBVIOUS
        <5> HIDE DEF g
        <5>3. g \o <<Turn(s)>> = Append(g, Turn(s))
          BY <5>2
        <5> QED BY <5>1, <5>3
      <4> HIDE DEF g
      <4> QED BY <3>11, <4>1, <4>2, <4>3
    <3> QED BY <2>6, <2>7, <3>10, <3>12, <3>13 DEF Schedules
  <2> QED BY <2>8, <2>9, <2>10
<1>6. CASE s.stack # Null
  BY <1>4, <1>5, <1>6 DEF Shape, Empty
<1> QED BY <1>3, <1>6

-----------------------------------------------------------------------------
(* The elements of a set of numbers, in order.                             *)
Enumerates(p, n, K) ==
    /\ n \in Nat /\ p \in [1..n -> K]
    /\ \A i, j \in 1..n : i < j => p[i] < p[j]
    /\ \A k \in K : \E j \in 1..n : p[j] = k

LEMMA Enumeration ==
  ASSUME NEW z \in Nat, NEW K \in SUBSET (0..(z - 1))
  PROVE  \E n \in Nat : \E p \in [1..n -> K] : Enumerates(p, n, K)
<1> DEFINE Listed(A) == \E n \in Nat : \E p \in [1..n -> A] : Enumerates(p, n, A)
           Wrong == {y \in Nat : \E A \in SUBSET (0..(y - 1)) : ~Listed(A)}
<1> SUFFICES ASSUME Wrong # {} PROVE FALSE
  OBVIOUS
<1>1. PICK y \in Wrong : \A x \in Wrong : y <= x
  <2>1. Wrong \subseteq Nat
    OBVIOUS
  <2> HIDE DEF Wrong
  <2> QED BY <2>1, LeastNumber
<1>2. PICK A \in SUBSET (0..(y - 1)) : ~Listed(A)
  BY <1>1
<1>3. y # 0
  <2> SUFFICES ASSUME y = 0 PROVE FALSE
    OBVIOUS
  <2>1. A = {}
    BY <1>2
  <2> DEFINE p == [j \in 1..0 |-> 0]
  <2>2. p \in [1..0 -> A]
    OBVIOUS
  <2> HIDE DEF p
  <2>3. Enumerates(p, 0, A)
    BY <2>1, <2>2 DEF Enumerates
  <2> QED BY <1>2, <2>2, <2>3
<1>4. Listed(A \ {y - 1})
  <2>1. y - 1 \in Nat /\ y - 1 \notin Wrong
    <3>1. y \in Nat
      OBVIOUS
    <3> HIDE DEF Wrong
    <3> QED BY <1>1, <1>3, <3>1
  <2>2. A \ {y - 1} \in SUBSET (0..((y - 1) - 1))
    BY <1>2, <1>3
  <2> HIDE DEF Listed
  <2> QED BY <2>1, <2>2
<1>5. y - 1 \in A
  <2>1. y - 1 \notin A => A \ {y - 1} = A
    OBVIOUS
  <2> QED BY <1>2, <1>4, <2>1
<1>6. PICK n \in Nat : \E p \in [1..n -> A \ {y - 1}] : Enumerates(p, n, A \ {y - 1})
  BY <1>4
<1>7. PICK p \in [1..n -> A \ {y - 1}] : Enumerates(p, n, A \ {y - 1})
  BY <1>6
<1> DEFINE r == [j \in 1..(n + 1) |-> IF j <= n THEN p[j] ELSE y - 1]
<1>8. /\ \A j \in 1..n : r[j] = p[j] /\ r[j] \in A /\ r[j] < y - 1
      /\ r[n + 1] = y - 1
      /\ \A j \in 1..(n + 1) : j \in 1..n \/ j = n + 1
  <2>1. \A j \in 1..n : p[j] \in A \ {y - 1} /\ j <= n /\ j \in 1..(n + 1)
    BY <1>7
  <2>2. \A k \in A \ {y - 1} : k < y - 1
    BY <1>2
  <2>3. r[n + 1] = y - 1 /\ \A j \in 1..n : r[j] = p[j]
    <3>1. n + 1 \in 1..(n + 1) /\ ~(n + 1 <= n)
      OBVIOUS
    <3> QED BY <2>1, <3>1
  <2> HIDE DEF r
  <2>4. \A j \in 1..n : r[j] \in A /\ r[j] < y - 1
    BY <2>1, <2>2, <2>3
  <2>5. \A j \in 1..(n + 1) : j \in 1..n \/ j = n + 1
    OBVIOUS
  <2> QED BY <2>3, <2>4, <2>5
<1>9. r \in [1..(n + 1) -> A]
  <2>1. \A j \in 1..(n + 1) : r[j] \in A
    BY <1>5, <1>8
  <2>2. r = [j \in 1..(n + 1) |-> r[j]]
    OBVIOUS
  <2> HIDE DEF r
  <2> QED BY <2>1, <2>2
<1> HIDE DEF r
<1>10. \A i, j \in 1..(n + 1) : i < j => r[i] < r[j]
  <2> TAKE i, j \in 1..(n + 1)
  <2> HAVE i < j
  <2>1. i \in 1..n
    OBVIOUS
  <2>2. CASE j = n + 1
    BY <1>8, <2>1, <2>2
  <2>3. CASE j \in 1..n
    BY <1>7, <1>8, <2>1, <2>3 DEF Enumerates
  <2> QED BY <2>2, <2>3
<1>11. \A k \in A : \E j \in 1..(n + 1) : r[j] = k
  <2> TAKE k \in A
  <2>1. CASE k = y - 1
    <3>1. n + 1 \in 1..(n + 1)
      OBVIOUS
    <3> QED BY <1>8, <2>1, <3>1
  <2>2. CASE k # y - 1
    <3>1. PICK j \in 1..n : p[j] = k
      BY <1>7, <2>2 DEF Enumerates
    <3>2. j \in 1..(n + 1)
      OBVIOUS
    <3> QED BY <1>8, <3>1, <3>2
  <2> QED BY <2>1, <2>2
<1>12. n + 1 \in Nat /\ Enumerates(r, n + 1, A)
  BY <1>9, <1>10, <1>11 DEF Enumerates
<1> QED BY <1>2, <1>9, <1>12

(* A part of an interval has fewer elements.                               *)
LEMMA Fewer ==
  ASSUME NEW z \in Nat, NEW K \in SUBSET (0..z), NEW x \in (0..z) \ K,
         NEW n, NEW p, Enumerates(p, n, K)
  PROVE  n <= z
<1>1. n \in Nat /\ p \in Injection(1..n, K)
  <2>1. \A i \in 1..n : p[i] \in Nat
    <3>1. p \in [1..n -> K]
      BY DEF Enumerates
    <3>2. \A k \in K : k \in Nat
      OBVIOUS
    <3> QED BY <3>1, <3>2
  <2>2. \A i, j \in 1..n : p[i] = p[j] => i = j
    <3> TAKE i, j \in 1..n
    <3>1. (i < j => p[i] < p[j]) /\ (j < i => p[j] < p[i])
      BY DEF Enumerates
    <3>2. n \in Nat
      BY DEF Enumerates
    <3> QED BY <2>1, <3>1, <3>2
  <2> QED BY <2>2 DEF Enumerates, Injection, IsInjective
<1>2. IsFiniteSet(0..z) /\ Cardinality(0..z) = z + 1
  BY FS_Interval
<1>3. IsFiniteSet(K) /\ Cardinality(K) <= z + 1 /\ Cardinality(K) # z + 1
  BY <1>2, FS_Subset
<1>4. IsFiniteSet(1..n) /\ Cardinality(1..n) = n /\ Cardinality(1..n) <= Cardinality(K)
  BY <1>1, <1>3, FS_Interval, FS_Injection
<1>5. Cardinality(K) \in Nat
  BY <1>3, FS_CardinalityType
<1> QED BY <1>1, <1>3, <1>4, <1>5

DeletesTo(t, q, q2, n, place) ==
    /\ \A i, j \in 1..n : i < j => place[i] < place[j]
    /\ \A i \in DOMAIN q : q[i] = t \/ \E j \in 1..n : place[j] = i
    /\ q2 = [i \in 1..n |-> q[place[i]]]
Deletes(t, q, q2) ==
    \E n \in 0..(Len(q) - 1) : \E place \in [1..n -> DOMAIN q] : DeletesTo(t, q, q2, n, place)

(* What is left of a queue when the nodes in some of its places are taken  *)
(* out and those that stay, in the places of K, are linked over the gaps.  *)
Gapped(s, c, m, K, t, a) ==
    /\ \A k \in (0..m) \ K : s.node[c[k]].thread = t
    /\ a.used \subseteq Nodes /\ a.now = s.now
    /\ \A k \in Nodes : a.node[k].thread = s.node[k].thread
    /\ \A k \in K : c[k] \in a.used
    /\ s.now # Null => s.now \in a.used /\ a.node[s.now].next \in {Null, a.stack}
    /\ K = {} => a.stack = Null
    /\ \A k \in K : (\A j \in K : k <= j) => a.stack = c[k]
    /\ \A k, j \in K : k < j /\ (\A i \in K : i <= k \/ j <= i) => a.node[c[k]].next = c[j]
    /\ \A k \in K : (\A i \in K : i <= k) => a.node[c[k]].next = Null

LEMMA Shortened ==
  ASSUME NEW s, Typed(s), SchedulerAssumption, NEW t, NEW m, NEW c, Open(s, c, m),
         NEW K \in SUBSET (0..m), NEW x \in (0..m) \ K, NEW a, Gapped(s, c, m, K, t, a)
  PROVE  Shape(a) /\ Turn(a) = Turn(s) /\ Deletes(t, Waiting(s), Waiting(a))
<1>1. IsFiniteSet(Nodes) /\ Null \notin Nodes /\ s.used \subseteq Nodes
  BY DEF SchedulerAssumption, Typed, WellFormed
<1>2. /\ m \in Nat /\ Line(s, c, m) /\ s.node[c[m]].next = Null
      /\ \A i \in 0..m : c[i] \in Nodes /\ c[i] # s.now
      /\ \A i \in 0..m, j \in 0..m : c[i] = c[j] => i = j
  BY <1>1 DEF Open, Line
<1>3. \A k \in K : k \in 0..m /\ k \in Nat
  <2>1. m \in Nat
    BY <1>2
  <2>2. K \subseteq 0..m
    OBVIOUS
  <2>3. \A k \in 0..m : k \in Nat
    BY <2>1
  <2> QED BY <2>2, <2>3
<1>12. /\ a.used \subseteq Nodes /\ a.now = s.now
       /\ \A k \in Nodes : a.node[k].thread = s.node[k].thread
       /\ \A k \in K : c[k] \in a.used
       /\ s.now # Null => s.now \in a.used /\ a.node[s.now].next \in {Null, a.stack}
  BY DEF Gapped
<1>13. /\ K = {} => a.stack = Null
       /\ \A k \in K : (\A j \in K : k <= j) => a.stack = c[k]
  BY DEF Gapped
<1>14. \A k, j \in K : k < j /\ (\A i \in K : i <= k \/ j <= i) => a.node[c[k]].next = c[j]
  BY DEF Gapped
<1>15. \A k \in K : (\A i \in K : i <= k) => a.node[c[k]].next = Null
  BY DEF Gapped
<1>4. PICK n \in Nat : \E p \in [1..n -> K] : Enumerates(p, n, K)
  <2>1. m + 1 \in Nat /\ (m + 1) - 1 = m
    BY <1>2
  <2>2. K \in SUBSET (0..((m + 1) - 1))
    BY <2>1
  <2> QED BY <2>1, <2>2, Enumeration
<1>5. PICK p \in [1..n -> K] : Enumerates(p, n, K)
  BY <1>4
<1>6. n <= m
  BY <1>2, <1>5, Fewer
<1>7. /\ \A i \in 1..n : p[i] \in K /\ p[i] \in 0..m
      /\ \A i, j \in 1..n : i < j => p[i] < p[j]
      /\ \A k \in K : \E j \in 1..n : p[j] = k
  BY <1>3, <1>5 DEF Enumerates
<1>8. Turn(a) = Turn(s)
  BY <1>1, <1>12 DEF Turn
<1>9. Waiting(s) = [i \in 1..(m + 1) |-> s.node[c[i - 1]].thread]
  BY <1>1, <1>2, WaitingLine
<1>10. Shape(a) /\ Waiting(a) = [i \in 1..n |-> s.node[c[p[i]]].thread]
  <2>1. CASE n = 0
    <3>1. K = {} /\ Empty(a)
      BY <1>7, <1>12, <1>13, <2>1 DEF Empty
    <3>2. Shape(a)
      BY <1>12, <3>1 DEF Shape
    <3>3. Waiting(a) = << >>
      BY <1>1, <3>1, WaitingEmpty DEF Empty
    <3> QED BY <2>1, <3>2, <3>3
  <2>2. CASE n # 0
    <3> DEFINE d == [i \in 0..(n - 1) |-> c[p[i + 1]]]
    <3>1. \A i \in 0..(n - 1) : i + 1 \in 1..n /\ d[i] = c[p[i + 1]] /\ d[i] \in a.used
      BY <1>7, <1>12
    <3>2. n - 1 \in Nat /\ 0 \in 0..(n - 1) /\ n - 1 \in 0..(n - 1) /\ (n - 1) + 1 = n
          /\ d \in [0..(n - 1) -> a.used]
      BY <2>2, <3>1
    <3> HIDE DEF d
    <3>3. \A i \in 0..(n - 1), j \in 0..(n - 1) : d[i] = d[j] => i = j
      <4> TAKE i \in 0..(n - 1), j \in 0..(n - 1)
      <4>1. i + 1 \in 1..n /\ j + 1 \in 1..n
        OBVIOUS
      <4>2. d[i] = d[j] => p[i + 1] = p[j + 1]
        <5>1. p[i + 1] \in 0..m /\ p[j + 1] \in 0..m
          BY <1>7, <4>1
        <5>2. d[i] = c[p[i + 1]] /\ d[j] = c[p[j + 1]]
          BY <3>1
        <5> QED BY <1>2, <5>1, <5>2
      <4>3. (i < j => p[i + 1] < p[j + 1]) /\ (j < i => p[j + 1] < p[i + 1])
        BY <1>7, <4>1
      <4>4. p[i + 1] \in Nat /\ p[j + 1] \in Nat
        BY <1>3, <1>7, <4>1
      <4> QED BY <4>2, <4>3, <4>4
    <3>4. d[0] = a.stack
      <4>1. \A j \in K : p[1] <= j
        <5> TAKE k \in K
        <5>1. PICK j \in 1..n : p[j] = k
          BY <1>7
        <5>2. 1 \in 1..n /\ (j # 1 => 1 < j)
          BY <2>2
        <5>3. j # 1 => p[1] < p[j]
          BY <1>7, <5>2
        <5>4. p[1] \in Nat
          BY <1>3, <1>7, <5>2
        <5> QED BY <1>3, <5>1, <5>3, <5>4
      <4>2. p[1] \in K /\ 0 + 1 = 1
        BY <1>7, <2>2
      <4> QED BY <1>13, <3>1, <3>2, <4>1, <4>2
    <3>5. \A i \in 0..((n - 1) - 1) : a.node[d[i]].next = d[i + 1]
      <4> TAKE i \in 0..((n - 1) - 1)
      <4>1. i + 1 \in 1..n /\ i + 2 \in 1..n /\ i \in 0..(n - 1) /\ i + 1 \in 0..(n - 1)
            /\ (i + 1) + 1 = i + 2 /\ i + 1 < i + 2
        BY <2>2
      <4>2. p[i + 1] < p[i + 2] /\ p[i + 1] \in K /\ p[i + 2] \in K
            /\ p[i + 1] \in Nat /\ p[i + 2] \in Nat
        BY <1>3, <1>7, <4>1
      <4>3. \A k \in K : k <= p[i + 1] \/ p[i + 2] <= k
        <5> TAKE k \in K
        <5>1. PICK j \in 1..n : p[j] = k
          BY <1>7
        <5>2. CASE j = i + 1 \/ j = i + 2
          BY <4>2, <5>1, <5>2
        <5>3. CASE j < i + 1
          <6>1. p[j] < p[i + 1]
            BY <1>7, <4>1, <5>3
          <6>2. k \in Nat
            BY <1>3
          <6> QED BY <4>2, <5>1, <6>1, <6>2
        <5>4. CASE j > i + 2
          <6>1. p[i + 2] < p[j]
            BY <1>7, <4>1, <5>4
          <6>2. k \in Nat
            BY <1>3
          <6> QED BY <4>2, <5>1, <6>1, <6>2
        <5>5. j < i + 1 \/ j = i + 1 \/ j = i + 2 \/ j > i + 2
          BY <4>1
        <5> QED BY <5>2, <5>3, <5>4, <5>5
      <4>4. a.node[c[p[i + 1]]].next = c[p[i + 2]]
        BY <1>14, <4>2, <4>3
      <4> QED BY <3>1, <4>1, <4>4
    <3>6. a.node[d[n - 1]].next = Null
      <4>1. n \in 1..n /\ p[n] \in K /\ d[n - 1] = c[p[n]]
        BY <1>7, <2>2, <3>1, <3>2
      <4>2. \A k \in K : k <= p[n]
        <5> TAKE k \in K
        <5>1. PICK j \in 1..n : p[j] = k
          BY <1>7
        <5>2. j # n => p[j] < p[n]
          BY <1>7, <4>1
        <5>3. k \in Nat /\ p[n] \in Nat
          BY <1>3, <4>1
        <5> QED BY <4>1, <5>1, <5>2, <5>3
      <4> QED BY <1>15, <4>1, <4>2
    <3>7. \A i \in 0..(n - 1) : d[i] # a.now
      <4> TAKE i \in 0..(n - 1)
      <4>1. p[i + 1] \in 0..m /\ d[i] = c[p[i + 1]]
        BY <1>7, <3>1
      <4>2. c[p[i + 1]] # s.now
        BY <1>2, <4>1
      <4> QED BY <1>12, <4>1, <4>2
    <3>8. Line(a, d, n - 1)
      BY <3>2, <3>3, <3>4, <3>5, <3>7 DEF Line
    <3>9. Open(a, d, n - 1) /\ Shape(a)
      BY <1>12, <3>2, <3>6, <3>8 DEF Open, Shape
    <3>10. Waiting(a) = [i \in 1..n |-> a.node[d[i - 1]].thread]
      <4>1. Waiting(a) = [i \in 1..((n - 1) + 1) |-> a.node[d[i - 1]].thread]
        BY <1>1, <1>12, <3>6, <3>8, WaitingLine
      <4> QED BY <3>2, <4>1
    <3>11. \A i \in 1..n : a.node[d[i - 1]].thread = s.node[c[p[i]]].thread
      <4> TAKE i \in 1..n
      <4>1. i - 1 \in 0..(n - 1) /\ (i - 1) + 1 = i
        OBVIOUS
      <4>2. d[i - 1] = c[p[i]] /\ c[p[i]] \in Nodes
        BY <1>2, <1>7, <3>1, <4>1
      <4> QED BY <1>12, <4>2
    <3> QED BY <3>9, <3>10, <3>11
  <2> QED BY <2>1, <2>2
<1>11. Deletes(t, Waiting(s), Waiting(a))
  <2> DEFINE place == [i \in 1..n |-> p[i] + 1]
             q == [i \in 1..(m + 1) |-> s.node[c[i - 1]].thread]
  <2>1. n \in 0..((m + 1) - 1) /\ DOMAIN q = 1..(m + 1) /\ Len(q) = m + 1
    BY <1>2, <1>6
  <2>2. \A i \in 1..n : place[i] = p[i] + 1 /\ place[i] \in 1..(m + 1) /\ place[i] - 1 = p[i]
    BY <1>2, <1>7
  <2>3. place \in [1..n -> DOMAIN q]
    BY <2>1, <2>2
  <2>4. \A i \in 1..(m + 1) : q[i] = s.node[c[i - 1]].thread
    OBVIOUS
  <2> HIDE DEF place, q
  <2>5. \A i, j \in 1..n : i < j => place[i] < place[j]
    <3> TAKE i, j \in 1..n
    <3> HAVE i < j
    <3>1. p[i] < p[j] /\ p[i] \in Nat /\ p[j] \in Nat
      BY <1>3, <1>7
    <3> QED BY <2>2, <3>1
  <2>6. \A i \in DOMAIN q : q[i] = t \/ \E j \in 1..n : place[j] = i
    <3> TAKE i \in DOMAIN q
    <3>1. i \in 1..(m + 1) /\ i - 1 \in 0..m /\ (i - 1) + 1 = i
      BY <1>2, <2>1
    <3>2. CASE i - 1 \in K
      <4>1. PICK j \in 1..n : p[j] = i - 1
        BY <1>7, <3>2
      <4> QED BY <2>2, <3>1, <4>1
    <3>3. CASE i - 1 \notin K
      <4>1. s.node[c[i - 1]].thread = t
        BY <3>1, <3>3 DEF Gapped
      <4> QED BY <2>4, <3>1, <4>1
    <3> QED BY <3>2, <3>3
  <2>7. \A i \in 1..n : q[place[i]] = s.node[c[p[i]]].thread
    BY <2>2, <2>4
  <2>8. Waiting(a) = [i \in 1..n |-> q[place[i]]]
    BY <1>10, <2>7
  <2>9. Waiting(s) = q
    BY <1>9 DEF q
  <2>10. DeletesTo(t, q, Waiting(a), n, place)
    BY <2>5, <2>6, <2>8 DEF DeletesTo
  <2>11. Deletes(t, q, Waiting(a))
    BY <2>1, <2>3, <2>10 DEF Deletes
  <2> QED BY <2>9, <2>11
<1> QED BY <1>8, <1>10, <1>11

(* The places that delete_thread's loop leaves: the first, and the one     *)
(* behind each place that it takes out.                                    *)
Kept(s, c, m) == {k \in 0..m : c[k] \notin s}

Places(s, t, m, c, gone) ==
    /\ 0 \in Kept(gone, c, m)
    /\ \A k \in 0..m : c[k] \in gone => s.node[c[k]].thread = t
    /\ \A k \in 0..(m - 1) : c[k] \in gone => c[k + 1] \notin gone
    /\ gone \subseteq {c[k] : k \in 0..m}

LEMMA FoundPlaces ==
  ASSUME NEW s, Typed(s), SchedulerAssumption, NEW t, NEW m, NEW c, Open(s, c, m)
  PROVE  Places(s, t, m, c, Found(s, t))
<1> DEFINE C == Cardinality(Nodes)
           w == Walk(s)
           F == Found(s, t)
<1>1. IsFiniteSet(Nodes) /\ Null \notin Nodes /\ s.used \subseteq Nodes
  BY DEF SchedulerAssumption, Typed, WellFormed
<1>2. /\ m \in Nat /\ C \in Nat /\ m < C
      /\ \A k \in 0..C : w[k] = IF k <= m THEN c[k] ELSE Null
  BY <1>1, OpenQueue, QueueWalk
<1>3. PICK g : /\ \A k \in 0..C : g[k] = GoneAt(s, t, g, k)
               /\ F = {w[k] : k \in {j \in 0..C : g[j]}}
  BY <1>1, FoundUnfolds
<1>4. \A i \in 0..m, j \in 0..m : c[i] = c[j] => i = j
  BY DEF Open, Line
<1>5. \A i \in 0..m : c[i] # Null
  BY <1>1 DEF Open, Line
<1> HIDE DEF C, F
<1>6. \A k \in 0..C : g[k] = IF k = 0 \/ w[k] = Null THEN FALSE
                             ELSE s.node[w[k]].thread = t /\ ~g[k - 1]
  BY <1>3 DEF GoneAt
<1> HIDE DEF w
<1>7. \A k \in 0..m : k \in 0..C /\ w[k] = c[k] /\ k <= m
  BY <1>2
<1>8. \A k \in 0..C : g[k] => k \in 0..m /\ k # 0
  <2> TAKE k \in 0..C
  <2>1. CASE k <= m
    <3>1. k \in 0..m
      BY <1>2, <2>1
    <3> QED BY <1>6, <3>1
  <2>2. CASE ~(k <= m)
    BY <1>2, <1>6, <2>2
  <2> QED BY <2>1, <2>2
<1>9. \A k \in 0..m : c[k] \in F <=> g[k]
  <2> TAKE k \in 0..m
  <2>1. g[k] => c[k] \in F
    BY <1>3, <1>7
  <2>2. ASSUME c[k] \in F PROVE g[k]
    <3>1. PICK j \in 0..C : g[j] /\ c[k] = w[j]
      BY <1>3, <2>2
    <3>2. j \in 0..m
      BY <1>8, <3>1
    <3>3. j = k
      BY <1>4, <1>7, <3>1, <3>2
    <3> QED BY <3>1, <3>3
  <2> QED BY <2>1, <2>2
<1>10. 0 \in 0..m /\ c[0] \notin F
  <2>1. 0 \in 0..m
    BY <1>2
  <2> QED BY <1>7, <1>8, <1>9, <2>1
<1>11. \A k \in 0..m : c[k] \in F => s.node[c[k]].thread = t
  <2> TAKE k \in 0..m
  <2>1. c[k] \in F => g[k] /\ k # 0
    BY <1>7, <1>8, <1>9
  <2>2. g[k] /\ k # 0 => s.node[c[k]].thread = t
    BY <1>5, <1>6, <1>7
  <2> QED BY <2>1, <2>2
<1>12. \A k \in 0..(m - 1) : c[k] \in F => c[k + 1] \notin F
  <2> TAKE k \in 0..(m - 1)
  <2>1. k \in 0..m /\ k + 1 \in 0..m /\ k + 1 # 0 /\ (k + 1) - 1 = k
    BY <1>2
  <2>2. g[k + 1] => ~g[k]
    BY <1>5, <1>6, <1>7, <2>1
  <2> QED BY <1>9, <2>1, <2>2
<1>13. F \subseteq {c[k] : k \in 0..m}
  BY <1>3, <1>7, <1>8
<1> QED BY <1>10, <1>11, <1>12, <1>13 DEF Places, Kept, F

LEMMA FreedFields ==
  ASSUME NEW s, Typed(s), NEW gone
  PROVE  LET a == Freed(s, gone)
         IN  /\ a.node = s.node /\ a.stack = s.stack /\ a.now = s.now
             /\ a.used \in {s.used, s.used \ gone}
<1> DEFINE U == s.used \ gone
<1>1. Freed(s, gone) = IF gone \subseteq Roomy THEN [s EXCEPT !.used = U]
                       ELSE [s EXCEPT !.status = "assert"]
  BY DEF Freed
<1> HIDE DEF U
<1>2. CASE Freed(s, gone) = [s EXCEPT !.used = U]
  <2>1. Freed(s, gone).used = U
    BY <1>2 DEF Typed, WellFormed
  <2> QED BY <1>2, <2>1 DEF Typed, WellFormed, U
<1>3. CASE Freed(s, gone) = [s EXCEPT !.status = "assert"]
  BY <1>3 DEF Typed, WellFormed
<1> QED BY <1>1, <1>2, <1>3

(* Deleting the first node.                                                *)
LEMMA FirstDeleted ==
  ASSUME NEW s, Typed(s), SchedulerAssumption, NEW t, NEW m, NEW c, Open(s, c, m),
         s.now \in s.used \cup {Null}, s.now # Null => s.node[s.now].next = Null,
         s.node[s.stack].thread = t,
         NEW a, a.node = s.node, a.now = s.now, a.stack = s.node[s.stack].next,
         a.used \in {s.used, s.used \ {s.stack}}
  PROVE  Gapped(s, c, m, 1..m, t, a)
<1>1. /\ m \in Nat /\ s.used \subseteq Nodes /\ c[0] = s.stack
      /\ \A i \in 0..m : c[i] \in s.used
      /\ \A i \in 0..m, j \in 0..m : c[i] = c[j] => i = j
      /\ \A i \in 0..(m - 1) : s.node[c[i]].next = c[i + 1]
      /\ \A i \in 0..m : c[i] # s.now
      /\ s.node[c[m]].next = Null
  BY DEF Open, Line, Typed, WellFormed
<1>2. \A k \in (0..m) \ (1..m) : k = 0
  BY <1>1
<1>3. a.used \subseteq Nodes /\ \A k \in 1..m : c[k] \in a.used
  <2>1. \A k \in 1..m : c[k] \in s.used \ {s.stack}
    <3> TAKE k \in 1..m
    <3>1. k \in 0..m /\ 0 \in 0..m /\ k # 0
      BY <1>1
    <3> QED BY <1>1, <3>1
  <2> QED BY <1>1, <2>1
<1>4. s.now # Null => s.now \in a.used /\ a.node[s.now].next = Null
  <2>1. 0 \in 0..m
    BY <1>1
  <2> QED BY <1>1, <2>1
<1>5. 1..m = {} => a.stack = Null
  <2>1. 1..m = {} => m = 0
    BY <1>1
  <2> QED BY <1>1, <2>1
<1>6. ASSUME NEW k \in 1..m, \A j \in 1..m : k <= j PROVE a.stack = c[k]
  <2>1. 1 \in 1..m /\ 0 \in 0..(m - 1) /\ 0 + 1 = 1
    BY <1>1
  <2>2. k = 1
    BY <1>6, <2>1
  <2> QED BY <1>1, <2>1, <2>2
<1>7. ASSUME NEW k \in 1..m, NEW j \in 1..m, k < j, \A i \in 1..m : i <= k \/ j <= i
      PROVE  a.node[c[k]].next = c[j]
  <2>1. k + 1 \in 1..m /\ k \in 0..(m - 1)
    BY <1>1, <1>7
  <2>2. j = k + 1
    BY <1>7, <2>1
  <2> QED BY <1>1, <2>1, <2>2
<1>8. ASSUME NEW k \in 1..m, \A i \in 1..m : i <= k PROVE a.node[c[k]].next = Null
  <2>1. m \in 1..m
    BY <1>1
  <2>2. k = m
    BY <1>8, <2>1
  <2> QED BY <1>1, <2>2
<1> QED BY <1>1, <1>2, <1>3, <1>4, <1>5, <1>6, <1>7, <1>8 DEF Gapped

(* Deleting nodes behind the first.                                        *)
LEMMA OthersDeleted ==
  ASSUME NEW s, Typed(s), SchedulerAssumption, NEW t, NEW m, NEW c, Open(s, c, m),
         s.now \in s.used \cup {Null},
         NEW a, a.node = Bypass(s, Found(s, t)).node, a.now = s.now, a.stack = s.stack,
         a.used \in {s.used, s.used \ Found(s, t)}
  PROVE  Gapped(s, c, m, Kept(Found(s, t), c, m), t, a)
<1> DEFINE F == Found(s, t)
           K == Kept(F, c, m)
<1>1. /\ m \in Nat /\ s.used \subseteq Nodes /\ c[0] = s.stack
      /\ \A i \in 0..m : c[i] \in s.used
      /\ \A i \in 0..m, j \in 0..m : c[i] = c[j] => i = j
      /\ \A i \in 0..(m - 1) : s.node[c[i]].next = c[i + 1]
      /\ \A i \in 0..m : c[i] # s.now
      /\ s.node[c[m]].next = Null
  BY DEF Open, Line, Typed, WellFormed
<1>2. /\ 0 \in K
      /\ \A k \in 0..m : c[k] \in F => s.node[c[k]].thread = t
      /\ \A k \in 0..(m - 1) : c[k] \in F => c[k + 1] \notin F
      /\ F \subseteq {c[k] : k \in 0..m}
  <2>1. Places(s, t, m, c, F)
    BY FoundPlaces
  <2> HIDE DEF F
  <2> QED BY <2>1 DEF Places
<1>3. K \subseteq 0..m /\ \A k \in 0..m : k \in K <=> c[k] \notin F
  BY DEF Kept
<1>4. IsFiniteSet(Nodes) /\ Null \notin Nodes
  BY DEF SchedulerAssumption
<1>5. Met(s) = {c[i] : i \in 0..m}
  BY <1>1, <1>4, OpenQueue, QueueEnds
<1> HIDE DEF F, K
<1> DEFINE N(n) == IF n \in Met(s) /\ s.node[n].next \in F
                   THEN [s.node[n] EXCEPT !.next = s.node[s.node[n].next].next]
                   ELSE s.node[n]
<1>6. \A n \in Nodes : a.node[n] = N(n)
  <2>1. Bypass(s, F) = [s EXCEPT !.node = [n \in Nodes |-> N(n)]]
    BY DEF Bypass
  <2>2. Bypass(s, F).node = [n \in Nodes |-> N(n)]
    BY <2>1 DEF Typed, WellFormed
  <2> QED BY <2>2 DEF F
<1>7. \A n \in Nodes : s.node[n] \in Record
  BY DEF Typed, WellFormed
<1>8. \A n \in Nodes : /\ a.node[n].thread = s.node[n].thread
                       /\ a.node[n].next = IF n \in Met(s) /\ s.node[n].next \in F
                                           THEN s.node[s.node[n].next].next
                                           ELSE s.node[n].next
  <2> TAKE n \in Nodes
  <2>1. a.node[n] = N(n) /\ s.node[n] \in Record
    BY <1>6, <1>7
  <2> QED BY <2>1 DEF Record
<1>9. \A k \in (0..m) \ K : s.node[c[k]].thread = t
  BY <1>2, <1>3
<1>10. a.used \subseteq Nodes /\ \A k \in K : c[k] \in a.used
  <2>1. \A k \in K : c[k] \in s.used \ F
    BY <1>1, <1>3
  <2> QED BY <1>1, <2>1 DEF F
<1>11. s.now # Null => s.now \in a.used /\ a.node[s.now].next \in {Null, a.stack}
  <2> HAVE s.now # Null
  <2>1. s.now \in s.used /\ s.now \notin F /\ s.now \notin Met(s) /\ s.now \in Nodes
    BY <1>1, <1>2, <1>5
  <2>2. s.node[s.now].next \in {Null, s.stack}
    BY DEF Open
  <2> QED BY <1>8, <2>1, <2>2 DEF F
<1>12. ASSUME NEW k \in K, \A j \in K : k <= j PROVE a.stack = c[k]
  <2>1. k = 0
    BY <1>1, <1>2, <1>3, <1>12
  <2> QED BY <1>1, <2>1
<1>13. ASSUME NEW k \in K, NEW j \in K, k < j, \A i \in K : i <= k \/ j <= i
       PROVE  a.node[c[k]].next = c[j]
  <2>1. k \in 0..m /\ j \in 0..m /\ k \in 0..(m - 1) /\ k + 1 \in 0..m
    BY <1>1, <1>3, <1>13
  <2>2. c[k] \in Met(s) /\ c[k] \in Nodes /\ s.node[c[k]].next = c[k + 1] /\ c[k + 1] \in Nodes
    BY <1>1, <1>5, <2>1
  <2>3. CASE j = k + 1
    <3>1. c[k + 1] \notin F
      BY <1>3, <2>1, <2>3
    <3> QED BY <1>8, <2>2, <2>3, <3>1
  <2>4. CASE j # k + 1
    <3>1. k + 1 \notin K /\ k + 1 \in 0..(m - 1) /\ (k + 1) + 1 \in 0..m /\ k + 2 <= j /\ (k + 1) + 1 = k + 2
      <4>1. k + 1 < j
        BY <2>1, <2>4, <1>13
      <4>2. ~(k + 1 <= k \/ j <= k + 1)
        BY <2>1, <4>1
      <4>3. k + 1 \notin K
        BY <1>13, <4>2
      <4>4. k + 1 \in 0..(m - 1) /\ (k + 1) + 1 \in 0..m /\ k + 2 <= j /\ (k + 1) + 1 = k + 2
        BY <1>1, <2>1, <4>1
      <4> QED BY <4>3, <4>4
    <3>2. c[k + 1] \in F
      BY <1>3, <2>1, <3>1
    <3>3. k + 2 \in K
      BY <1>2, <1>3, <3>1, <3>2
    <3>4. j = k + 2
      <4>1. ~(k + 2 <= k)
        BY <2>1
      <4> QED BY <1>13, <2>1, <3>1, <3>3, <4>1
    <3>5. s.node[c[k + 1]].next = c[k + 2]
      BY <1>1, <3>1
    <3> QED BY <1>8, <2>2, <3>2, <3>4, <3>5
  <2> QED BY <2>3, <2>4
<1>14. ASSUME NEW k \in K, \A i \in K : i <= k PROVE a.node[c[k]].next = Null
  <2>1. k \in 0..m /\ m \in 0..m
    BY <1>1, <1>3
  <2>2. c[k] \in Met(s) /\ c[k] \in Nodes
    BY <1>1, <1>5, <2>1
  <2>3. CASE k = m
    <3>1. Null \notin F
      BY <1>1, <1>2, <1>4
    <3> QED BY <1>1, <1>8, <2>2, <2>3, <3>1
  <2>4. CASE k # m
    <3>1. k \in 0..(m - 1) /\ k + 1 \in 0..m /\ ~(k + 1 <= k)
      BY <2>1, <2>4
    <3>2. c[k + 1] \in F /\ s.node[c[k]].next = c[k + 1]
      BY <1>1, <1>3, <1>14, <3>1
    <3>3. k + 1 = m
      <4> SUFFICES ASSUME k + 1 # m PROVE FALSE
        OBVIOUS
      <4>1. k + 1 \in 0..(m - 1) /\ (k + 1) + 1 \in 0..m /\ ~((k + 1) + 1 <= k)
        BY <1>1, <2>1, <3>1
      <4> QED BY <1>2, <1>3, <1>14, <3>2, <4>1
    <3> QED BY <1>1, <1>8, <2>2, <3>2, <3>3
  <2> QED BY <2>3, <2>4
<1>15. \A k \in Nodes : a.node[k].thread = s.node[k].thread
  BY <1>8
<1>16. K # {}
  BY <1>2
<1> QED BY <1>9, <1>10, <1>11, <1>12, <1>13, <1>14, <1>15, <1>16 DEF Gapped, K, F

(* Deleting the first node, whatever now still points at.                  *)
LEMMA HeadDeleted ==
  ASSUME NEW s, Typed(s), SchedulerAssumption, NEW t, NEW m, NEW c, Line(s, c, m),
         s.node[c[m]].next \in {Null, s.now}, s.now \in s.used \cup {Null},
         s.node[s.stack].thread = t,
         NEW a, a.node = s.node, a.now = s.now, a.stack = s.node[s.stack].next,
         a.used \in {s.used, s.used \ {s.stack}}
  PROVE  /\ Turn(a) = Turn(s) /\ Deletes(t, Waiting(s), Waiting(a))
         /\ Endless(a) => a.now \in Met(a)
<1>1. /\ IsFiniteSet(Nodes) /\ Null \notin Nodes /\ s.used \subseteq Nodes
      /\ m \in Nat /\ c[0] = s.stack
      /\ \A i \in 0..m : c[i] \in s.used /\ c[i] # s.now
      /\ \A i \in 0..m, j \in 0..m : c[i] = c[j] => i = j
      /\ \A i \in 0..(m - 1) : s.node[c[i]].next = c[i + 1]
  BY DEF SchedulerAssumption, Typed, WellFormed, Line
<1> DEFINE q == [i \in 1..(m + 1) |-> s.node[c[i - 1]].thread]
           r == [i \in 1..m |-> s.node[c[i]].thread]
<1>2. Waiting(s) = q
  BY <1>1, WaitingLine
<1>3. Deletes(t, q, r)
  <2> DEFINE place == [i \in 1..m |-> i + 1]
  <2>1. DOMAIN q = 1..(m + 1) /\ Len(q) = m + 1 /\ m \in 0..((m + 1) - 1)
    BY <1>1
  <2>2. \A i \in 1..m : place[i] = i + 1 /\ place[i] \in 1..(m + 1) /\ place[i] - 1 = i
    BY <1>1
  <2>3. place \in [1..m -> DOMAIN q]
    BY <2>1, <2>2
  <2>4. \A i \in 1..(m + 1) : q[i] = s.node[c[i - 1]].thread
    OBVIOUS
  <2> HIDE DEF place, q
  <2>5. \A i, j \in 1..m : i < j => place[i] < place[j]
    BY <1>1, <2>2
  <2>6. \A i \in DOMAIN q : q[i] = t \/ \E j \in 1..m : place[j] = i
    <3> TAKE i \in DOMAIN q
    <3>1. CASE i = 1
      <4>1. 1 \in 1..(m + 1) /\ 1 - 1 = 0
        BY <1>1
      <4> QED BY <1>1, <2>4, <3>1, <4>1
    <3>2. CASE i # 1
      <4>1. i - 1 \in 1..m /\ (i - 1) + 1 = i
        BY <1>1, <2>1, <3>2
      <4> QED BY <2>2, <4>1
    <3> QED BY <3>1, <3>2
  <2>7. r = [i \in 1..m |-> q[place[i]]]
    BY <2>2, <2>4
  <2>8. DeletesTo(t, q, r, m, place)
    BY <2>5, <2>6, <2>7 DEF DeletesTo
  <2> QED BY <2>1, <2>3, <2>8 DEF Deletes
<1>4. Turn(a) = Turn(s)
  BY DEF Turn
<1>5. CASE m = 0
  <2>1. a.stack \in {Null, a.now}
    BY <1>1, <1>5
  <2>2. Waiting(a) = << >> /\ r = << >>
    BY <1>1, <1>5, <2>1, WaitingNone
  <2>3. Endless(a) => a.now \in Met(a)
    <3>1. CASE a.stack = Null
      BY <1>1, <3>1, EmptyWalk
    <3>2. CASE a.stack # Null
      <4>1. 0 \in DOMAIN Walk(a) /\ Walk(a)[0] = a.now
        BY <1>1, <2>1, <3>2, WalkUnfolds DEF Rest
      <4> QED BY <2>1, <3>2, <4>1 DEF Met, Range
    <3> QED BY <3>1, <3>2
  <2> HIDE DEF q, r
  <2> QED BY <1>2, <1>3, <1>4, <2>2, <2>3
<1>6. CASE m # 0
  <2> DEFINE d == [i \in 0..(m - 1) |-> c[i + 1]]
  <2>1. \A i \in 0..(m - 1) : i + 1 \in 0..m /\ i + 1 # 0 /\ 0 \in 0..m /\ d[i] = c[i + 1]
    BY <1>1
  <2>2. m - 1 \in Nat /\ 0 \in 0..(m - 1) /\ m - 1 \in 0..(m - 1) /\ (m - 1) + 1 = m
    BY <1>1, <1>6
  <2>3. \A i \in 0..(m - 1) : d[i] \in a.used /\ d[i] # a.now
    <3> TAKE i \in 0..(m - 1)
    <3>1. c[i + 1] # c[0] /\ c[i + 1] \in s.used /\ c[i + 1] # s.now
      BY <1>1, <2>1
    <3> QED BY <1>1, <2>1, <3>1
  <2>4. d \in [0..(m - 1) -> a.used]
    BY <2>3
  <2> HIDE DEF d
  <2>5. \A i \in 0..(m - 1), j \in 0..(m - 1) : d[i] = d[j] => i = j
    BY <1>1, <2>1
  <2>6. d[0] = a.stack
    <3>1. 0 + 1 = 1 /\ d[0] = c[0 + 1]
      BY <2>1, <2>2
    <3> QED BY <1>1, <2>2, <3>1
  <2>7. \A i \in 0..((m - 1) - 1) : a.node[d[i]].next = d[i + 1]
    <3> TAKE i \in 0..((m - 1) - 1)
    <3>1. i \in 0..(m - 1) /\ i + 1 \in 0..(m - 1)
      BY <2>2
    <3> QED BY <1>1, <2>1, <3>1
  <2>8. Line(a, d, m - 1)
    BY <2>2, <2>3, <2>4, <2>5, <2>6, <2>7 DEF Line
  <2>9. d[m - 1] = c[m] /\ a.node[d[m - 1]].next \in {Null, a.now} /\ a.used \subseteq Nodes
    BY <1>1, <2>1, <2>2
  <2>10. Waiting(a) = r
    <3>1. Waiting(a) = [i \in 1..((m - 1) + 1) |-> a.node[d[i - 1]].thread]
      BY <1>1, <2>8, <2>9, WaitingLine
    <3>2. \A i \in 1..m : a.node[d[i - 1]].thread = s.node[c[i]].thread
      <4> TAKE i \in 1..m
      <4>1. i - 1 \in 0..(m - 1) /\ (i - 1) + 1 = i
        BY <1>1
      <4> QED BY <2>1, <4>1
    <3> QED BY <2>2, <3>1, <3>2
  <2>11. Endless(a) => a.now \in Met(a)
    <3>1. CASE a.node[d[m - 1]].next = Null
      <4>1. Queue(a, d, m - 1)
        BY <2>8, <3>1 DEF Line, Queue
      <4> QED BY <1>1, <2>9, <4>1, QueueEnds
    <3>2. CASE a.node[d[m - 1]].next # Null
      <4>1. /\ m - 1 < Cardinality(Nodes) /\ Cardinality(Nodes) \in Nat
            /\ Walk(a)[(m - 1) + 1] = a.node[d[m - 1]].next
        BY <1>1, <2>8, <2>9, LineWalk
      <4>2. m \in DOMAIN Walk(a) /\ Walk(a)[m] = a.now /\ a.now # Null
        <5>1. m \in 0..Cardinality(Nodes)
          BY <1>1, <4>1
        <5>2. Walk(a)[m] = a.now /\ a.now # Null
          BY <2>2, <2>9, <3>2, <4>1
        <5> QED BY <1>1, <5>1, <5>2, WalkUnfolds
      <4> QED BY <4>2 DEF Met, Range
    <3> QED BY <3>1, <3>2
  <2> HIDE DEF q, r
  <2> QED BY <1>2, <1>3, <1>4, <2>10, <2>11
<1> QED BY <1>5, <1>6

(* A call that does not return, or that fails its assertion before it has  *)
(* changed anything, leaves the shape as it is.                            *)
LEMMA OnlyStatus ==
  ASSUME NEW s, Typed(s), NEW a, Shape(s), SchedulerAssumption,
         a.node = s.node, a.used = s.used, a.stack = s.stack, a.now = s.now
  PROVE  Shape(a) /\ Turn(a) = Turn(s) /\ Waiting(a) = Waiting(s)
<1>1. \A m, c : Line(s, c, m) <=> Line(a, c, m)
  BY DEF Line
<1>2. Shape(a)
  BY <1>1 DEF Shape, Empty, Open, Closed
<1>3. Turn(a) = Turn(s)
  BY DEF Turn
<1>4. Walk(a) = Walk(s)
  BY DEF Walk
<1> QED BY <1>2, <1>3, <1>4 DEF Waiting

(* The queue has one of the shapes, or the assertion of free has failed    *)
(* over its first node.                                                    *)
Sound(s) == Shape(s) \/ (s.status = "assert" /\ (Endless(s) => s.now \in Met(s)))

LEMMA NotDangling ==
  ASSUME NEW s, Typed(s), Shape(s), SchedulerAssumption PROVE ~Dangling(s)
<1>1. Null \notin Nodes
  BY DEF SchedulerAssumption
<1>2. ASSUME s.now # Null PROVE s.node[s.now].next \in s.used \cup {Null}
  <2>1. CASE Empty(s)
    BY <1>2, <2>1 DEF Empty
  <2>2. ASSUME NEW m \in Nat, NEW c \in [0..m -> s.used], Open(s, c, m) \/ Closed(s, c, m)
        PROVE  s.node[s.now].next \in s.used \cup {Null}
    <3>1. c[0] = s.stack /\ c[0] \in s.used
      BY <2>2 DEF Open, Closed, Line
    <3> QED BY <1>2, <2>2, <3>1 DEF Open, Closed
  <2> QED BY <2>1, <2>2 DEF Shape
<1> QED BY <1>1, <1>2 DEF Dangling

(* Freeing the first node while now points at it leaves now dangling, or   *)
(* fails the assertion.                                                    *)
LEMMA HeadFreed ==
  ASSUME NEW s, Typed(s), NEW q, Typed(q), s.now # Null, s.stack \in Nodes,
         q.node = s.node, q.now = s.now, s.node[s.now].next = s.stack
  PROVE  Dangling(Freed(q, {s.stack})) \/ Freed(q, {s.stack}).status = "assert"
<1> DEFINE U == q.used \ {s.stack}
<1>1. Freed(q, {s.stack}) = IF {s.stack} \subseteq Roomy THEN [q EXCEPT !.used = U]
                            ELSE [q EXCEPT !.status = "assert"]
  BY DEF Freed
<1>2. s.stack \notin U
  OBVIOUS
<1> HIDE DEF U
<1>3. CASE Freed(q, {s.stack}) = [q EXCEPT !.used = U]
  <2> DEFINE z == [q EXCEPT !.used = U]
  <2>1. z.used = U /\ z.node = q.node /\ z.now = q.now
    BY DEF Typed, WellFormed
  <2> HIDE DEF z
  <2>2. Dangling(z)
    BY <1>2, <2>1 DEF Dangling
  <2> QED BY <1>3, <2>2 DEF z
<1>4. CASE Freed(q, {s.stack}) = [q EXCEPT !.status = "assert"]
  BY <1>4 DEF Typed, WellFormed
<1> QED BY <1>1, <1>3, <1>4

LEMMA DeletedShape ==
  ASSUME NEW s, Typed(s), Shape(s), SchedulerAssumption, NEW t \in Threads
  PROVE  LET a == Deleted(s, t)
         IN  /\ Dangling(a) \/ Sound(a)
             /\ Turn(a) = Turn(s)
             /\ \/ Deletes(t, Waiting(s), Waiting(a))
                \/ Waiting(a) = Waiting(s) /\ Shape(a)
<1> DEFINE a == Deleted(s, t)
           F == Found(s, t)
           f == Freed(Bypass(s, F), F)
           q == [s EXCEPT !.stack = s.node[s.stack].next]
           Goal == /\ Dangling(a) \/ Sound(a)
                   /\ Turn(a) = Turn(s)
                   /\ \/ Deletes(t, Waiting(s), Waiting(a))
                      \/ Waiting(a) = Waiting(s) /\ Shape(a)
<1>1. /\ IsFiniteSet(Nodes) /\ Null \notin Nodes
      /\ s.used \subseteq Nodes /\ s.now \in s.used \cup {Null}
  BY DEF SchedulerAssumption, Typed, WellFormed, Shape
<1>2. ASSUME s.stack = Null PROVE Goal
  <2>1. a = s
    BY <1>2 DEF Deleted
  <2> HIDE DEF a
  <2> QED BY <2>1 DEF Sound
<1>6. ASSUME NEW m \in Nat, NEW c \in [0..m -> s.used], Line(s, c, m),
             s.node[c[m]].next \in {Null, s.now}, s.node[s.stack].thread = t
      PROVE  /\ a = Freed(q, {s.stack}) /\ Typed(q) /\ q.node = s.node /\ q.now = s.now
             /\ q.used = s.used /\ q.stack = s.node[s.stack].next
             /\ a.node = s.node /\ a.now = s.now /\ a.stack = s.node[s.stack].next
             /\ a.used \in {s.used, s.used \ {s.stack}}
             /\ Turn(a) = Turn(s) /\ Deletes(t, Waiting(s), Waiting(a))
             /\ Endless(a) => a.now \in Met(a)
             /\ s.stack \in Nodes
  <2>1. c[0] = s.stack /\ c[0] \in Nodes /\ s.stack # Null
    BY <1>1, <1>6 DEF Line
  <2>2. a = Freed(q, {s.stack})
    BY <1>6, <2>1 DEF Deleted
  <2>3. s.node[s.stack].next \in Pointers
    BY <2>1 DEF Typed, WellFormed, Record, Pointers
  <2>4. Typed(q) /\ q.node = s.node /\ q.now = s.now /\ q.used = s.used
        /\ q.stack = s.node[s.stack].next
    BY <2>3 DEF Typed, WellFormed
  <2> HIDE DEF q, a
  <2>5. /\ a.node = s.node /\ a.now = s.now /\ a.stack = s.node[s.stack].next
        /\ a.used \in {s.used, s.used \ {s.stack}}
    <3> DEFINE z == Freed(q, {s.stack})
    <3>1. /\ z.node = q.node /\ z.now = q.now /\ z.stack = q.stack
          /\ z.used \in {q.used, q.used \ {s.stack}}
      BY <2>4, FreedFields
    <3> HIDE DEF z
    <3> QED BY <2>2, <2>4, <3>1 DEF z
  <2>6. /\ Turn(a) = Turn(s) /\ Deletes(t, Waiting(s), Waiting(a))
        /\ Endless(a) => a.now \in Met(a)
    BY <1>1, <1>6, <2>5, HeadDeleted
  <2> QED BY <2>1, <2>2, <2>4, <2>5, <2>6
<1>3. ASSUME NEW m \in Nat, NEW c \in [0..m -> s.used], Closed(s, c, m)
      PROVE  Goal
  <2>1. Line(s, c, m) /\ s.node[c[m]].next = s.now /\ s.now # Null /\ s.node[s.now].next = s.stack
        /\ s.stack # Null
    <3>1. Line(s, c, m) /\ s.node[c[m]].next = s.now /\ s.now \in s.used
          /\ s.node[s.now].next = s.stack
      BY <1>3 DEF Closed
    <3>2. c[0] = s.stack /\ c[0] \in s.used
      BY <1>3, <3>1 DEF Line
    <3> QED BY <1>1, <3>1, <3>2
  <2>2. CASE s.node[s.stack].thread = t
    <3>1. /\ a = Freed(q, {s.stack}) /\ Typed(q) /\ q.node = s.node /\ q.now = s.now
          /\ Turn(a) = Turn(s) /\ Deletes(t, Waiting(s), Waiting(a))
          /\ Endless(a) => a.now \in Met(a)
          /\ s.stack \in Nodes
      BY <1>6, <2>1, <2>2
    <3> HIDE DEF a, q
    <3>2. Dangling(a) \/ a.status = "assert"
      BY <2>1, <3>1, HeadFreed
    <3> QED BY <3>1, <3>2 DEF Sound
  <2>3. CASE s.node[s.stack].thread # t
    <3>1. Endless(s)
      BY <1>1, <1>3, ClosedWalk
    <3>2. a = IF F \subseteq Roomy THEN Spinning(s) ELSE Freed(s, F)
      BY <2>1, <2>3, <3>1 DEF Deleted
    <3> HIDE DEF F
    <3>3. a.node = s.node /\ a.used = s.used /\ a.stack = s.stack /\ a.now = s.now
      <4>1. CASE F \subseteq Roomy
        BY <3>2, <4>1, SpinningTyped
      <4>2. CASE ~(F \subseteq Roomy)
        <5>1. a = [s EXCEPT !.status = "assert"]
          BY <3>2, <4>2 DEF Freed
        <5> HIDE DEF a
        <5> QED BY <5>1 DEF Typed, WellFormed
      <4> QED BY <4>1, <4>2
    <3> HIDE DEF a
    <3> QED BY <3>3, OnlyStatus DEF Sound
  <2> QED BY <2>2, <2>3
<1>4. ASSUME NEW m \in Nat, NEW c \in [0..m -> s.used], Open(s, c, m)
      PROVE  Goal
  <2>1. c[0] = s.stack /\ 0 \in 0..m /\ m \in 0..m /\ Line(s, c, m) /\ s.node[c[m]].next = Null
        /\ s.stack # Null
    <3>1. c[0] = s.stack /\ 0 \in 0..m /\ m \in 0..m /\ Line(s, c, m) /\ s.node[c[m]].next = Null
      BY <1>4 DEF Open, Line
    <3>2. c[0] \in s.used
      BY <1>4, <3>1
    <3> QED BY <1>1, <3>1, <3>2
  <2>2. ~Endless(s) /\ LastNode(s) = c[m]
    BY <1>1, <1>4, OpenQueue, QueueEnds
  <2>3. CASE s.node[s.stack].thread = t
    <3>1. /\ a = Freed(q, {s.stack}) /\ Typed(q) /\ q.node = s.node /\ q.now = s.now
          /\ a.node = s.node /\ a.now = s.now /\ a.stack = s.node[s.stack].next
          /\ a.used \in {s.used, s.used \ {s.stack}}
          /\ Turn(a) = Turn(s) /\ Deletes(t, Waiting(s), Waiting(a))
          /\ Endless(a) => a.now \in Met(a)
          /\ s.stack \in Nodes
      BY <1>6, <2>1, <2>3
    <3> HIDE DEF q, a
    <3>2. CASE s.now # Null => s.node[s.now].next = Null
      <4> DEFINE K == 1..m
      <4>1. Gapped(s, c, m, K, t, a)
        BY <1>1, <1>4, <2>3, <3>1, <3>2, FirstDeleted
      <4>2. K \in SUBSET (0..m) /\ \E x \in 0..m : x \in (0..m) \ K
        <5>1. 0 \in (0..m) \ K /\ 0 \in 0..m
          OBVIOUS
        <5> QED BY <5>1
      <4> HIDE DEF K
      <4>3. PICK x \in 0..m : x \in (0..m) \ K
        BY <4>2
      <4>4. Shape(a)
        BY <1>4, <4>1, <4>2, <4>3, Shortened
      <4> QED BY <3>1, <4>4 DEF Sound
    <3>3. CASE ~(s.now # Null => s.node[s.now].next = Null)
      <4>1. s.now # Null /\ s.node[s.now].next = s.stack
        BY <1>4, <3>3 DEF Open
      <4>2. Dangling(a) \/ a.status = "assert"
        BY <3>1, <4>1, HeadFreed
      <4> QED BY <3>1, <4>2 DEF Sound
    <3> QED BY <3>2, <3>3
  <2>4. CASE s.node[s.stack].thread # t /\ F = {}
    <3>1. Bypass(s, F) = s
      <4>1. Bypass(s, F) = [s EXCEPT !.node = [n \in Nodes |-> s.node[n]]]
        BY <2>4 DEF Bypass
      <4> QED BY <4>1 DEF Typed, WellFormed
    <3>2. f = s
      BY <2>4, <3>1 DEF Freed, Typed, WellFormed
    <3>3. a = s
      BY <2>1, <2>2, <2>4, <3>2 DEF Deleted
    <3> HIDE DEF a
    <3> QED BY <3>3 DEF Sound
  <2>5. CASE s.node[s.stack].thread # t /\ F # {}
    <3> DEFINE b == Bypass(s, F)
    <3>1. Typed(b) /\ b.stack = s.stack /\ b.now = s.now /\ b.used = s.used
      <4>1. Typed(b)
        BY <1>1, FoundNodes, BypassTyped
      <4>2. b.stack = s.stack /\ b.now = s.now /\ b.used = s.used
        BY DEF Bypass, Typed, WellFormed
      <4> QED BY <4>1, <4>2
    <3> HIDE DEF b
    <3>2. /\ f.node = b.node /\ f.stack = s.stack /\ f.now = s.now
          /\ f.used \in {s.used, s.used \ F}
      BY <3>1, FreedFields DEF b
    <3>3. Typed(f)
      BY <3>1, FreedTyped DEF b
    <3> HIDE DEF f
    <3>4. a = f \/ a = [f EXCEPT !.status = "wild"]
      BY <2>1, <2>2, <2>5 DEF Deleted, f
    <3>5. a.node = f.node /\ a.stack = f.stack /\ a.now = f.now /\ a.used = f.used
      BY <3>3, <3>4 DEF Typed, WellFormed
    <3> HIDE DEF a
    <3>6. Gapped(s, c, m, Kept(F, c, m), t, a)
      BY <1>1, <1>4, <3>2, <3>5, OthersDeleted DEF b
    <3>7. PICK x \in 0..m : x \notin Kept(F, c, m)
      BY <1>4, <2>5, FoundPlaces DEF Places, Kept
    <3>8. Kept(F, c, m) \in SUBSET (0..m) /\ x \in (0..m) \ Kept(F, c, m)
      BY <3>7 DEF Kept
    <3> HIDE DEF F
    <3>9. Shape(a) /\ Turn(a) = Turn(s) /\ Deletes(t, Waiting(s), Waiting(a))
      BY <1>4, <3>6, <3>8, Shortened
    <3> QED BY <3>9 DEF Sound
  <2> QED BY <2>3, <2>4, <2>5
<1>5. Goal
  <2> HIDE DEF Goal
  <2>1. CASE s.stack # Null
    BY <1>3, <1>4, <2>1 DEF Shape, Empty
  <2> QED BY <1>2, <2>1
<1> QED BY <1>5

-----------------------------------------------------------------------------
Inv == Typed(sched) /\ stranded \in BOOLEAN /\ (stranded \/ Sound(sched))

LEMMA InitInv == Init => Inv /\ Turn(sched) = NoThread /\ Waiting(sched) = << >>
<1> SUFFICES ASSUME Init PROVE Inv /\ Turn(sched) = NoThread /\ Waiting(sched) = << >>
  OBVIOUS
<1>1. /\ Typed(sched) /\ sched.stack = Null /\ sched.now = Null
  BY DEF Init, InitSched, Typed, WellFormed, Record, Pointers
<1>2. Shape(sched)
  BY <1>1 DEF Shape, Empty
<1>3. Waiting(sched) = << >>
  BY <1>1, SchedulerAssumption, WaitingEmpty DEF SchedulerAssumption
<1>4. stranded \in BOOLEAN
  BY DEF Init
<1> QED BY <1>1, <1>2, <1>3, <1>4 DEF Inv, Sound, Turn

LEMMA TypeOKTyped == TypeOK <=> Typed(sched) /\ stranded \in BOOLEAN
  BY DEF TypeOK, Typed, WellFormed, Record, Pointers

(* The types of all that the scheduler keeps, whenever threads are         *)
(* deleted: no operation leaves a node in use without a thread.            *)
THEOREM SpecTypeOK == Spec => []TypeOK
<1> DEFINE Types == Typed(sched) /\ stranded \in BOOLEAN
<1>1. Init => Types
  BY InitInv DEF Inv
<1>2. Types /\ [Next]_<<sched, stranded>> => Types'
  <2> SUFFICES ASSUME Typed(sched), stranded \in BOOLEAN, [Next]_<<sched, stranded>>
               PROVE  Typed(sched') /\ stranded' \in BOOLEAN
    OBVIOUS
  <2>1. CASE Schedule
    BY <2>1, ScheduledTyped DEF Schedule
  <2>2. ASSUME NEW t \in Threads, AddThread(t) PROVE Typed(sched') /\ stranded' \in BOOLEAN
    BY <2>2, AddedTyped DEF AddThread
  <2>3. ASSUME NEW t \in Threads, DeleteThread(t) PROVE Typed(sched') /\ stranded' \in BOOLEAN
    BY <2>3, DeletedTyped, SchedulerAssumption DEF DeleteThread, SchedulerAssumption
  <2> QED BY <2>1, <2>2, <2>3 DEF Next
<1>3. Types <=> TypeOK
  BY TypeOKTyped
<1> QED BY <1>1, <1>2, <1>3, PTL DEF Spec

RoundRobinStep ==
    \/ /\ stranded' = stranded
       /\ \/ Schedules(Turn(sched), Waiting(sched), Turn(sched'), Waiting(sched'))
          \/ \E t \in Threads : Adds(t, Turn(sched), Waiting(sched), Turn(sched'), Waiting(sched'))
          \/ Turn(sched') = Turn(sched) /\ Waiting(sched') = Waiting(sched)
    \/ /\ stranded' \in BOOLEAN
       /\ Turn(sched') = Turn(sched)
       /\ \E t \in Threads : Deletes(t, Waiting(sched), Waiting(sched'))
    \/ stranded /\ stranded'

LEMMA StepInv == ASSUME Inv, [Next]_<<sched, stranded>> PROVE Inv' /\ RoundRobinStep
<1> USE SchedulerAssumption
<1>1. Typed(sched) /\ stranded \in BOOLEAN /\ IsFiniteSet(Nodes)
  BY DEF Inv, SchedulerAssumption
<1>2. Typed(sched') /\ stranded' \in BOOLEAN /\ (stranded => stranded')
  <2>1. CASE Schedule
    BY <1>1, <2>1, ScheduledTyped DEF Schedule
  <2>2. ASSUME NEW t \in Threads, AddThread(t)
        PROVE  Typed(sched') /\ stranded' \in BOOLEAN /\ (stranded => stranded')
    BY <1>1, <2>2, AddedTyped DEF AddThread
  <2>3. ASSUME NEW t \in Threads, DeleteThread(t)
        PROVE  Typed(sched') /\ stranded' \in BOOLEAN /\ (stranded => stranded')
    <3>1. Typed(sched')
      BY <1>1, <2>3, DeletedTyped DEF DeleteThread
    <3>2. stranded' = (stranded \/ Dangling(sched'))
      BY <2>3 DEF DeleteThread
    <3> QED BY <3>1, <3>2
  <2>4. CASE UNCHANGED <<sched, stranded>>
    BY <1>1, <2>4
  <2> QED BY <2>1, <2>2, <2>3, <2>4 DEF Next
<1>3. CASE stranded
  BY <1>2, <1>3 DEF Inv, RoundRobinStep
<1>4. CASE UNCHANGED <<sched, stranded>>
  <2>1. Sound(sched) <=> Sound(sched')
    BY <1>4
  <2> QED BY <1>1, <1>2, <1>4, <2>1 DEF Inv, RoundRobinStep
<1>5. ASSUME sched.status = "ok", ~stranded PROVE Shape(sched)
  BY <1>5 DEF Inv, Sound
<1>6. CASE Schedule /\ ~stranded
  <2>1. Shape(sched) /\ sched' = Scheduled(sched) /\ stranded' = stranded
    BY <1>5, <1>6 DEF Schedule
  <2> QED BY <1>1, <1>2, <2>1, ScheduledShape DEF Inv, Sound, RoundRobinStep
<1>7. ASSUME NEW t \in Threads, AddThread(t), ~stranded PROVE Inv' /\ RoundRobinStep
  <2>1. Shape(sched) /\ stranded' = stranded
    BY <1>5, <1>7 DEF AddThread
  <2> QED BY <1>1, <1>2, <1>7, <2>1, AddedShape DEF AddThread, Inv, Sound, RoundRobinStep
<1>8. ASSUME NEW t \in Threads, DeleteThread(t), ~stranded PROVE Inv' /\ RoundRobinStep
  <2>1. Shape(sched) /\ sched' = Deleted(sched, t) /\ (stranded' <=> Dangling(sched'))
    BY <1>5, <1>8 DEF DeleteThread
  <2>2. /\ Dangling(sched') \/ Sound(sched')
        /\ Turn(sched') = Turn(sched)
        /\ \/ Deletes(t, Waiting(sched), Waiting(sched'))
           \/ Waiting(sched') = Waiting(sched) /\ Shape(sched')
    BY <1>1, <2>1, DeletedShape
  <2>3. Inv'
    BY <1>2, <2>1, <2>2 DEF Inv
  <2>4. CASE Deletes(t, Waiting(sched), Waiting(sched'))
    BY <1>2, <2>2, <2>3, <2>4 DEF RoundRobinStep
  <2>5. CASE Waiting(sched') = Waiting(sched) /\ Shape(sched')
    <3>1. ~Dangling(sched')
      BY <1>2, <2>5, NotDangling
    <3>2. stranded' = stranded
      <4>1. stranded' \in BOOLEAN /\ stranded \in BOOLEAN /\ ~stranded /\ ~stranded'
        BY <1>1, <1>2, <1>8, <2>1, <3>1
      <4> QED BY <4>1
    <3> QED BY <2>2, <2>3, <2>5, <3>2 DEF RoundRobinStep
  <2> QED BY <2>2, <2>3, <2>4, <2>5
<1> QED BY <1>3, <1>4, <1>6, <1>7, <1>8 DEF Next

LEMMA InvSafe == Inv => LoopThroughNow /\ QueueAllocated
<1> SUFFICES ASSUME Inv, ~stranded
             PROVE  /\ Endless(sched) => sched.now \in Met(sched)
                    /\ sched.status = "ok" => Met(sched) \cup ({sched.now} \ {Null}) \subseteq sched.used
  BY DEF LoopThroughNow, QueueAllocated
<1>1. /\ IsFiniteSet(Nodes) /\ Null \notin Nodes /\ sched.used \subseteq Nodes /\ Sound(sched)
  BY SchedulerAssumption DEF SchedulerAssumption, Inv, Typed, WellFormed
<1>2. CASE ~Shape(sched)
  BY <1>1, <1>2 DEF Sound
<1>3. CASE Shape(sched)
  <2>1. sched.now \in sched.used \cup {Null}
    BY <1>3 DEF Shape
  <2>2. CASE sched.stack = Null
    BY <1>1, <2>1, <2>2, EmptyWalk
  <2>3. ASSUME NEW m \in Nat, NEW c \in [0..m -> sched.used], Open(sched, c, m)
        PROVE  ~Endless(sched) /\ Met(sched) \subseteq sched.used
    BY <1>1, <2>3, OpenQueue, QueueEnds
  <2>4. ASSUME NEW m \in Nat, NEW c \in [0..m -> sched.used], Closed(sched, c, m)
        PROVE  sched.now \in Met(sched) /\ Met(sched) \subseteq sched.used
    BY <1>1, <2>4, ClosedWalk DEF Closed
  <2> QED BY <1>3, <2>1, <2>2, <2>3, <2>4 DEF Shape, Empty
<1> QED BY <1>2, <1>3

(* Until a deletion frees the node behind now, every node in reach of the  *)
(* queue is allocated and a loop goes through the node that has the turn,  *)
(* for any number of threads and nodes, wherever the allocator left slack  *)
(* and whenever threads are deleted.                                       *)
THEOREM QueueSafe == Spec => [](LoopThroughNow /\ QueueAllocated)
<1>1. Inv /\ [Next]_<<sched, stranded>> => Inv'
  BY StepInv
<1> QED BY <1>1, InitInv, InvSafe, PTL DEF Spec

LEMMA RoundRobinSteps ==
  RoundRobinStep => [ImplementsRoundRobin!Next]_<<Turn(sched), Waiting(sched), stranded>>
<1> SUFFICES ASSUME RoundRobinStep, ~UNCHANGED <<Turn(sched), Waiting(sched), stranded>>
             PROVE  ImplementsRoundRobin!Next
  OBVIOUS
<1>1. CASE /\ stranded' = stranded
           /\ Schedules(Turn(sched), Waiting(sched), Turn(sched'), Waiting(sched'))
  BY <1>1 DEF ImplementsRoundRobin!Next, ImplementsRoundRobin!Schedule, Schedules
<1>2. ASSUME NEW t \in Threads, stranded' = stranded,
             Adds(t, Turn(sched), Waiting(sched), Turn(sched'), Waiting(sched'))
      PROVE  ImplementsRoundRobin!Next
  BY <1>2 DEF ImplementsRoundRobin!Next, ImplementsRoundRobin!Add, Adds
<1>3. ASSUME NEW t \in Threads, Turn(sched') = Turn(sched), stranded' \in BOOLEAN,
             Deletes(t, Waiting(sched), Waiting(sched'))
      PROVE  ImplementsRoundRobin!Next
  BY <1>3 DEF ImplementsRoundRobin!Next, ImplementsRoundRobin!Delete, Deletes, DeletesTo
<1>4. CASE stranded /\ stranded'
  BY <1>4 DEF ImplementsRoundRobin!Next
<1> QED BY <1>1, <1>2, <1>3, <1>4 DEF RoundRobinStep

(* The linked list implements the round-robin queue, step by step, for any *)
(* number of threads and nodes and whenever threads are deleted, until a   *)
(* deletion frees the node behind now, which is still a step of the queue. *)
THEOREM SpecImplementsQueue == Spec => ImplementsQueue
<1>1. Init => ImplementsRoundRobin!Init
  BY InitInv DEF ImplementsRoundRobin!Init, Init
<1>2. Inv /\ [Next]_<<sched, stranded>> =>
          Inv' /\ [ImplementsRoundRobin!Next]_<<Turn(sched), Waiting(sched), stranded>>
  BY StepInv, RoundRobinSteps
<1> QED BY <1>1, <1>2, InitInv, PTL DEF Spec, ImplementsQueue, ImplementsRoundRobin!Spec
=============================================================================
