-------------------------- MODULE ThreadHeapProofs --------------------------
(* The heap's clients do not destroy each other's words, although they     *)
(* write outside their blocks: for any sizes, any image and any number of  *)
(* demos.                                                                  *)
EXTENDS ThreadHeap, HeapProofs

(* Nothing is freed, so there is at most one hole, at the end of the heap. *)
(* What has been given out lies below it; what somebody relies on lies     *)
(* below Edge.  create_thread writes one word below the stack's chunk: as  *)
(* long as the next chunk may be a stack's, the word at the top is nobody's*)
Frontier == IF index = << >> THEN end ELSE index[1]
Top == IF got = 0 THEN Frontier ELSE got - 3
Edge ==
    CASE pc = "thread" -> base - 4
      [] pc \in {"add", "add again"} -> Top
      [] OTHER -> Top - 1

HoleInv ==
    /\ end \in Start..MaxAddress
    /\ \/ index = << >>
       \/ /\ index = <<Frontier>> /\ Frontier \in Start..(end - 1)
          /\ SizeAt(mem, Frontier) \in Nat /\ Frontier + SizeAt(mem, Frontier) <= end
    /\ \A b \in live : b.at \in Nat /\ b.at < Frontier

Statements == {"root", "dev", "nodes", "idle", "stack", "thread", "add", "add again"}
Missing == CASE pc \in {"stack", "thread", "add"} -> 2 [] pc = "add again" -> 1 [] OTHER -> 0

ControlInv ==
    /\ pc \in Statements /\ files \in Nat
    /\ pc = "idle" => request = << >> /\ got = 0
    /\ request # << >> => request = [size |-> Asked, page_align |-> FALSE] /\ got = 0
    /\ got # 0 => got \in Nat /\ Start + 3 <= got /\ got + Asked + 2 <= Frontier
    /\ pc = "thread" => base \in Nat /\ Start + 3 <= base /\ base + StackWords + 2 <= Top
    /\ pc \in {"add", "add again"} => made # << >>
    /\ pc \in {"add", "add again"} /\ (request # << >> \/ got # 0) =>
          (first <=> now = 0 /\ ~word0)
    /\ now = 0 /\ ~word0 => stack = 0
    /\ demos \in 0..MaxDemos /\ Len(added) + Missing = 2 * demos

(* What is in a memory m, below e.                                         *)
FilesIn(m, e, ns) ==
    \A n \in ns : /\ n.at \in Nat /\ n.size \in Nat /\ Start <= n.at /\ n.at + n.size <= e
                  /\ \A x \in Payload(n) : At(m, x) = FilesMark

Starts(m, sp) == \A i \in 1..4 : At(m, sp + i - 1) = Pushed[i]
ContextsIn(m, e, ms) ==
    /\ ms \in Seq([at : Nat \ {0}, sp : Nat])
    /\ \A t \in ToSet(ms) :
          /\ t.at + 2 < e /\ t.sp + 3 < e
          /\ At(m, t.at + 1) = t.sp /\ At(m, t.at + 2) = t.sp /\ Starts(m, t.sp)

(* The queue from now and stack on: q are the nodes that stack leads to.   *)
NodesIn(m, e, q, nw, st) ==
    /\ \A i \in 1..Len(q) :
          /\ q[i] \in Nat /\ Start <= q[i] /\ q[i] + 1 < e
          /\ NextOf(m, q[i]) = IF i < Len(q) THEN q[i + 1] ELSE 0
    /\ \A i, j \in 1..Len(q) : i < j => q[i] + 1 < q[j]
    /\ st = IF q = << >> THEN 0 ELSE q[1]
    /\ nw \in Nat /\ (nw # 0 => nw + 1 < e /\ \A i \in 1..Len(q) : nw + 1 < q[i])
Offset(nw) == IF nw = 0 THEN 0 ELSE 1
Holds(m, q, nw, ad) ==
    /\ ad \in Seq(Nat) /\ Len(ad) = Len(q) + Offset(nw)
    /\ nw # 0 => ad[1] = At(m, nw)
    /\ \A i \in 1..Len(q) : ad[i + Offset(nw)] = At(m, q[i])

(* No link is a word of the files, or of a context.                        *)
LinksApart(q, ns, ms) ==
    \A i \in 1..Len(q) :
        /\ \A n \in ns : q[i] + 1 \notin Payload(n)
        /\ \A t \in ToSet(ms) :
              q[i] + 1 \notin {t.at + 1, t.at + 2} /\ q[i] + 1 \notin t.sp..(t.sp + 3)

Data(m, e, ns, ms, q, nw, st, ad) ==
    /\ FilesIn(m, e, ns) /\ ContextsIn(m, e, ms)
    /\ NodesIn(m, e, q, nw, st) /\ Holds(m, q, nw, ad) /\ LinksApart(q, ns, ms)
    /\ \A i \in 1..Len(ad) : ad[i] \in {t.at : t \in ToSet(ms)}

Running == status = "ok" /\ pc # "switched"
RunningInv(q) == HoleInv /\ ControlInv /\ Data(mem, Edge, nodes, made, q, now, stack, added)

ThreadInv ==
    /\ pc = "switched" => request = << >>
    /\ Running => \E q \in Seq(Nat) : RunningInv(q)
    /\ ~Running => FilesKept /\ ContextsKept
-----------------------------------------------------------------------------
(* The heap below the frontier is written by nobody but its clients.       *)
Agrees(m, m2, e) == \A x \in Int : x < e => At(m2, x) = At(m, x)

(* What a few words written side by side leave behind.                     *)
LEMMA PutOne ==
  ASSUME NEW m, NEW a \in Int, NEW u
  PROVE  \A x : At(Put(m, a, <<u>>), x) = IF x \in Words /\ x = a THEN u ELSE At(m, x)
<1> DEFINE w == <<u>>
<1>1. Len(w) = 1 /\ w[1] = u
  OBVIOUS
<1> HIDE DEF w
<1>2. \A x : x \in a..(a + Len(w) - 1) <=> x = a
  BY <1>1
<1>3. a - a + 1 = 1
  OBVIOUS
<1>4. \A x : At(Put(m, a, w), x) = IF x \in Words /\ x = a THEN u ELSE At(m, x)
  BY <1>1, <1>2, <1>3 DEF At, Put
<1> QED BY <1>4 DEF w

LEMMA PutTwo ==
  ASSUME NEW m, NEW a \in Int, NEW u, NEW v
  PROVE  \A x : At(Put(m, a, <<u, v>>), x) =
                IF x \in Words /\ x \in {a, a + 1} THEN (IF x = a THEN u ELSE v) ELSE At(m, x)
<1> DEFINE w == <<u, v>>
<1>1. Len(w) = 2 /\ w[1] = u /\ w[2] = v
  OBVIOUS
<1> HIDE DEF w
<1>2. \A x : x \in a..(a + Len(w) - 1) <=> x \in {a, a + 1}
  BY <1>1
<1>3. a - a + 1 = 1 /\ (a + 1) - a + 1 = 2 /\ a + 1 # a
  OBVIOUS
<1>4. \A x : At(Put(m, a, w), x) =
             IF x \in Words /\ x \in {a, a + 1} THEN (IF x = a THEN u ELSE v) ELSE At(m, x)
  BY <1>1, <1>2, <1>3 DEF At, Put
<1> QED BY <1>4 DEF w

LEMMA PutThree ==
  ASSUME NEW m, NEW a \in Int, NEW u, NEW v, NEW z
  PROVE  \A x : At(Put(m, a, <<u, v, z>>), x) =
                IF x \in Words /\ x \in {a, a + 1, a + 2}
                THEN (IF x = a THEN u ELSE IF x = a + 1 THEN v ELSE z) ELSE At(m, x)
<1> DEFINE w == <<u, v, z>>
<1>1. Len(w) = 3 /\ w[1] = u /\ w[2] = v /\ w[3] = z
  OBVIOUS
<1> HIDE DEF w
<1>2. \A x : x \in a..(a + Len(w) - 1) <=> x \in {a, a + 1, a + 2}
  BY <1>1
<1>3. /\ a - a + 1 = 1 /\ (a + 1) - a + 1 = 2 /\ (a + 2) - a + 1 = 3
      /\ a + 1 # a /\ a + 2 # a + 1 /\ a + 2 # a
  OBVIOUS
<1>4. \A x : At(Put(m, a, w), x) =
             IF x \in Words /\ x \in {a, a + 1, a + 2}
             THEN (IF x = a THEN u ELSE IF x = a + 1 THEN v ELSE z) ELSE At(m, x)
  BY <1>1, <1>2, <1>3 DEF At, Put
<1> QED BY <1>4 DEF w

LEMMA PutMany ==
  ASSUME NEW m, NEW a, NEW w
  PROVE  \A x : At(Put(m, a, w), x) =
                IF x \in Words /\ x \in a..(a + Len(w) - 1) THEN w[x - a + 1] ELSE At(m, x)
  BY DEF At, Put

LEMMA InsertedFirst == ASSUME NEW m, NEW h \in Words PROVE Inserted(m, << >>, h) = <<h>>
<1> DEFINE s == << >>
           r == Inserted(m, s, h)
<1>1. s \in Seq(Words) /\ Distinct(s) /\ h \notin ToSet(s) /\ ToSet(s) = {}
  BY DEF Distinct, ToSet
<1> HIDE DEF s
<1>2. r \in Seq(Words) /\ Distinct(r) /\ ToSet(r) = ToSet(s) \cup {h}
  BY <1>1, InsertedIs
<1> HIDE DEF r
<1>9. ToSet(r) = {h}
  BY <1>1, <1>2, Zenon
<1>8. Len(r) \in Nat /\ DOMAIN r = 1..Len(r)
  BY <1>2
<1>3. Len(r) \in Nat /\ \A i \in 1..Len(r) : r[i] = h
  BY <1>9, <1>8 DEF ToSet
<1>4. Len(r) # 0
  BY <1>9, <1>8 DEF ToSet
<1>5. ~(Len(r) > 1)
  BY <1>2, <1>3 DEF Distinct
<1>6. Len(r) = 1
  <2>1. \A n \in Nat : n # 0 /\ ~(n > 1) => n = 1
    OBVIOUS
  <2> QED BY <1>3, <1>4, <1>5, <2>1, Zenon
<1>7. r = <<h>>
  BY <1>2, <1>3, <1>6
<1> QED BY <1>7 DEF r, s

LEMMA RemovedLast == ASSUME NEW h \in Words PROVE RemoveAt(<<h>>, 1) = << >>
<1> DEFINE s == <<h>>
           r == RemoveAt(s, 1)
<1>1. s \in Seq(Words) /\ Len(s) = 1
  OBVIOUS
<1> HIDE DEF s, r
<1>2. r \in Seq(Words) /\ Len(r) = 0
  <2>1. 1 \in 1..Len(s) /\ Len(s) - 1 = 0
    BY <1>1
  <2>2. r \in Seq(Words) /\ Len(r) = Len(s) - 1
    BY <1>1, <2>1, RemoveAtIs, Zenon DEF r
  <2> QED BY <2>1, <2>2
<1>3. r = << >>
  BY <1>2
<1> QED BY <1>3 DEF r, s

LEMMA FrontierIs ==
  ASSUME HoleInv
  PROVE  /\ Frontier \in Nat /\ Start <= Frontier /\ Frontier <= end
         /\ end \in Nat /\ end <= MaxAddress /\ MaxAddress \in Nat /\ MaxAddress < WordLimit
         /\ Start \in Nat \ {0} /\ WordLimit \in Nat
<1>1. /\ MaxAddress \in Nat /\ MaxAddress < WordLimit
      /\ Start \in Nat \ {0} /\ WordLimit \in Nat
  BY HeapAssumption
<1>2. end \in Start..MaxAddress
  BY DEF HoleInv
<1>3. index = << >> \/ Frontier \in Start..(end - 1)
  BY DEF HoleInv
<1>4. index = << >> => Frontier = end
  BY DEF Frontier
<1> QED BY <1>1, <1>2, <1>3, <1>4

LEMMA WordIs ==
  /\ Start \in Nat \ {0} /\ MaxAddress \in Nat
  /\ \A x : x \in Words <=> x \in Int /\ Start - 2 <= x /\ x < MaxAddress
  BY HeapAssumption DEF Words

(* A header and a footer behind it.                                        *)
LEMMA Framing ==
  ASSUME NEW m, NEW h \in Words, NEW f, NEW s, NEW g \in Int, h + 3 <= g, g + 1 < MaxAddress, NEW k
  PROVE  LET p == Put(Put(m, h, Header(f, s)), g, Footer(k))
         IN  SizeAt(p, h) = s /\ Agrees(m, p, h)
<1> DEFINE p1 == Put(m, h, Header(f, s))
           p == Put(p1, g, Footer(k))
<1>1. h \in Int /\ {h, h + 1, h + 2} \subseteq Words /\ {g, g + 1} \subseteq Words
  BY WordIs
<1>2. At(p1, h + 2) = s /\ \A x : x \notin {h, h + 1, h + 2} => At(p1, x) = At(m, x)
  BY <1>1, PutThree DEF Header
<1>3. \A x : x \notin {g, g + 1} => At(p, x) = At(p1, x)
  BY <1>1, PutTwo DEF Footer
<1> HIDE DEF p, p1
<1>4. SizeAt(p, h) = s
  <2>1. h + 2 \notin {g, g + 1}
    BY <1>1
  <2> QED BY <1>2, <1>3, <2>1 DEF SizeAt
<1>5. Agrees(m, p, h)
  BY <1>1, <1>2, <1>3 DEF Agrees
<1> QED BY <1>4, <1>5 DEF p, p1

LEMMA GrowKeeps ==
  ASSUME HoleInv, request.size \in Nat, Grow, status' = "ok"
  PROVE  /\ HoleInv' /\ Frontier' = Frontier /\ Agrees(mem, mem', Frontier)
         /\ UNCHANGED <<request, status, live>>
<1> DEFINE n == request.size + Overhead
           new_end == end + request.size + Overhead
           extent == IF index = << >> THEN new_end - end
                   ELSE Add(SizeAt(mem, Grown), new_end - end)
           m1 == IF index = << >> THEN Put(mem, Grown, Header(1, extent))
                 ELSE Put(mem, Grown + 2, <<extent>>)
           m2 == Put(m1, Grown + extent - 2, Footer(Grown))
<1>1. /\ Fits(new_end) /\ end' = new_end /\ mem' = m2
      /\ index' = IF index = << >> THEN Inserted(m2, index, Grown) ELSE index
      /\ UNCHANGED <<request, status, live>>
  BY DEF Grow, Halt
<1>2. /\ new_end \in Nat /\ new_end <= MaxAddress /\ new_end >= end + 5
      /\ new_end - end \in Nat /\ new_end - end >= 5
  <2>1. new_end <= MaxAddress
    BY <1>1 DEF Fits
  <2> QED BY <2>1, FrontierIs DEF Overhead
<1> HIDE DEF n, new_end
<1>3. CASE index = << >>
  <2>1. Grown = end /\ Frontier = end /\ extent = new_end - end
    BY <1>3 DEF Grown, Frontier
  <2>2. m2 = Put(Put(mem, end, Header(1, extent)), end + extent - 2, Footer(end))
    BY <1>3, <2>1
  <2> HIDE DEF extent, m2
  <2>3. /\ end \in Words /\ end + extent - 2 \in Int /\ end + 3 <= end + extent - 2
        /\ (end + extent - 2) + 1 < MaxAddress /\ end + extent = new_end
    BY <1>2, <2>1, FrontierIs, WordIs
  <2>4. SizeAt(m2, end) = extent /\ Agrees(mem, m2, end)
    BY <2>2, <2>3, Framing
  <2>5. index' = <<end>>
    BY <1>1, <1>3, <2>1, <2>3, InsertedFirst
  <2>6. Frontier' = end /\ <<end>> # << >>
    BY <2>5 DEF Frontier
  <2>7. /\ end' \in Start..MaxAddress /\ end \in Start..(end' - 1) /\ extent \in Nat
        /\ end + extent <= end'
    <3>1. end \in Nat /\ MaxAddress \in Nat /\ Start \in Nat /\ Start <= end
      BY FrontierIs
    <3> QED BY <1>1, <1>2, <2>1, <2>3, <3>1
  <2>8. \A b \in live' : b.at \in Nat /\ b.at < Frontier'
    BY <1>1, <2>1, <2>6 DEF HoleInv
  <2>9. HoleInv'
    BY <1>1, <2>4, <2>5, <2>6, <2>7, <2>8 DEF HoleInv
  <2> QED BY <1>1, <2>1, <2>4, <2>6, <2>9
<1>4. CASE index # << >>
  <2> DEFINE h == Frontier
             l == SizeAt(mem, h)
  <2>1. index = <<h>> /\ h \in Start..(end - 1) /\ l \in Nat /\ h + l <= end
    BY <1>4 DEF HoleInv
  <2>2. Grown = h
    <3>1. ToSet(index) = {h}
      BY <2>1 DEF ToSet
    <3>2. Grown = Max({h})
      BY <1>4, <3>1 DEF Grown
    <3>3. Max({h}) = h
      BY <2>1, FrontierIs DEF Max
    <3> QED BY <3>2, <3>3
  <2> HIDE DEF h, l
  <2>3. l + (new_end - end) \in 0..(WordLimit - 1)
    BY <1>2, <2>1, FrontierIs
  <2>4. extent = l + (new_end - end)
    <3>1. extent = (l + (new_end - end)) % WordLimit
      BY <1>4, <2>2 DEF l, Add
    <3> HIDE DEF extent
    <3> QED BY <2>3, <3>1, ModSmall
  <2> DEFINE g == h + extent - 2
             p1 == Put(mem, h + 2, <<extent>>)
             p == Put(p1, g, Footer(h))
  <2>5. m2 = p
    BY <1>4, <2>2
  <2> HIDE DEF extent, m2
  <2>6. /\ h \in Int /\ h + 2 \in Words /\ g \in Int /\ h + 3 <= g /\ {g, g + 1} \subseteq Words
        /\ h + extent <= new_end /\ extent \in Nat
    BY <1>2, <2>1, <2>3, <2>4, FrontierIs, WordIs
  <2>7. At(p1, h + 2) = extent /\ \A x : x # h + 2 => At(p1, x) = At(mem, x)
    BY <2>6, PutOne
  <2>8. \A x : x \notin {g, g + 1} => At(p, x) = At(p1, x)
    BY <2>6, PutTwo DEF Footer
  <2> HIDE DEF g, p, p1
  <2>9. SizeAt(m2, h) = extent
    <3>1. h + 2 \notin {g, g + 1}
      BY <2>6
    <3> QED BY <2>5, <2>7, <2>8, <3>1 DEF SizeAt
  <2>10. Agrees(mem, m2, h)
    BY <2>5, <2>6, <2>7, <2>8 DEF Agrees
  <2>11. index' = index /\ Frontier' = h
    BY <1>1, <1>4 DEF Frontier, h
  <2>12. end' \in Start..MaxAddress /\ h \in Start..(end' - 1)
    BY <1>1, <1>2, <2>1, FrontierIs
  <2>13. \A b \in live' : b.at \in Nat /\ b.at < Frontier'
    BY <1>1, <2>11 DEF HoleInv, h
  <2>14. HoleInv'
    BY <1>1, <2>1, <2>6, <2>9, <2>11, <2>12, <2>13 DEF HoleInv
  <2> QED BY <1>1, <2>10, <2>11, <2>14 DEF h
<1> QED BY <1>3, <1>4
(* alloc takes the front of the only hole.                                 *)
LEMMA PlaceKeeps ==
  ASSUME HoleInv, NEW s \in Nat, request = [size |-> s, page_align |-> FALSE],
         Place, status' = "ok"
  PROVE  /\ HoleInv' /\ Frontier + 5 + s <= Frontier' /\ Agrees(mem, mem', Frontier)
         /\ request' = << >> /\ UNCHANGED status
         /\ live' = live \cup {[at |-> Frontier + 3, size |-> s]}
<1> DEFINE aligned == request.page_align
           asked == request.size + Overhead
           i == FindSmallestHole(asked)
           hole == index[i]
           hole_size == SizeAt(mem, hole)
           slack == Slack(hole_size - asked)
           extent == request.size + slack
           block == IF aligned THEN hole + PageSize - (hole % PageSize) - 3 ELSE hole
           m1 == IF aligned
                 THEN Put(Put(mem, hole, Header(1, Sub(block, hole))), block - 2, Footer(hole))
                 ELSE mem
           rest == IF aligned THEN Sub(hole_size, SizeAt(m1, hole)) ELSE hole_size
           m2 == Put(Put(m1, block, Header(0, asked + slack)), block + 3 + extent, Footer(block))
           left == Sub(rest, asked + slack)
           behind == block + Overhead + extent
           tail == (behind + left - 2) % WordLimit
           m3 == IF left = 0 THEN m2
                 ELSE LET m == Put(m2, behind, Header(1, left))
                      IN  IF tail < end THEN Put(m, tail, Footer(behind)) ELSE m
           index1 == IF aligned THEN index ELSE RemoveAt(index, i)
           h == Frontier
<1>1. /\ \E m \in {m3, Put(m3, block + 3, [x \in 1..request.size |-> 0])} : mem' = m
      /\ index' = IF left = 0 THEN index1 ELSE Inserted(m3, index1, behind)
      /\ live' = live \cup {[at |-> block + 3, size |-> request.size]}
      /\ request' = << >>
      /\ UNCHANGED <<end, backed, status, frees>>
  BY DEF Place, Halt
<1>2. i # 0 /\ request.size = s /\ aligned = FALSE
  BY DEF Place
<1>3. asked = s + 5 /\ asked \in Nat
  BY <1>2 DEF Overhead
<1>4. i \in 1..Len(index) /\ SizeAt(mem, index[i]) >= asked
  <2>1. index \in Seq(Words)
    <3>1. index = << >> \/ (h \in Words /\ index = <<h>>)
      BY FrontierIs, WordIs DEF HoleInv
    <3> HIDE DEF h
    <3>2. CASE index = << >>
      BY <3>2
    <3>3. CASE h \in Words /\ index = <<h>>
      <4>1. <<h>> \in Seq(Words)
        BY <3>3
      <4> QED BY <3>3, <4>1
    <3> QED BY <3>1, <3>2, <3>3
  <2>2. request.page_align = FALSE
    BY <1>2
  <2> HIDE DEF asked
  <2> QED BY <1>2, <2>1, <2>2, FindIs
<1>5. /\ index = <<h>> /\ h \in Start..(end - 1) /\ SizeAt(mem, h) \in Nat
      /\ h + SizeAt(mem, h) <= end
  <2>1. index # << >>
    BY <1>4
  <2> QED BY <2>1 DEF HoleInv
<1>6. i = 1 /\ hole = h
  <2> HIDE DEF i, h
  <2>1. Len(index) = 1 /\ index[1] = h
    BY <1>5
  <2> QED BY <1>4, <2>1
<1> DEFINE l == SizeAt(mem, h)
<1>7. /\ h \in Nat /\ end \in Nat /\ h \in Words /\ l \in Nat /\ l >= asked /\ h + l <= end
      /\ end <= MaxAddress /\ MaxAddress \in Nat /\ Start \in Nat /\ Start <= h
  <2>1. l >= asked
    <3> HIDE DEF asked
    <3> QED BY <1>4, <1>6
  <2> HIDE DEF asked, l, i
  <2> QED BY <1>5, <2>1, FrontierIs, WordIs DEF l
<1>8. block = h /\ m1 = mem /\ rest = l /\ hole_size = l
  BY <1>2, <1>6
<1>9. index1 = << >>
  <2> HIDE DEF i, h
  <2> QED BY <1>2, <1>5, <1>6, <1>7, RemovedLast
<1> HIDE DEF i, hole, hole_size, block, m1, rest, index1, h, l, aligned
<1> DEFINE zeros == [x \in 1..s |-> 0]
<1>10. mem' \in {m3, Put(m3, h + 3, zeros)}
  BY <1>1, <1>2, <1>8
<1>11. live' = live \cup {[at |-> h + 3, size |-> s]}
  BY <1>1, <1>2, <1>8
<1>12. \A f \in Int : h + 3 < f => \A b \in live' : b.at \in Nat /\ b.at < f
  BY <1>7, <1>11 DEF HoleInv, h
<1>13. l - asked \in Nat /\ slack = Slack(l - asked)
  BY <1>3, <1>7, <1>8
<1>17. \A y : At(Put(m3, h + 3, zeros), y) =
              IF y \in Words /\ y \in (h + 3)..(h + 3 + s - 1) THEN 0 ELSE At(m3, y)
  <2>1. Len(zeros) = s /\ \A x \in 1..s : zeros[x] = 0
    OBVIOUS
  <2> HIDE DEF zeros, m3
  <2>2. h + 3 \in Int
    BY <1>7
  <2>3. \A y : At(Put(m3, h + 3, zeros), y) =
               IF y \in Words /\ y \in (h + 3)..(h + 3 + s - 1)
               THEN zeros[y - (h + 3) + 1] ELSE At(m3, y)
    BY <2>1, PutMany
  <2>4. \A y \in (h + 3)..(h + 3 + s - 1) : y - (h + 3) + 1 \in 1..s
    BY <2>2
  <2> QED BY <2>1, <2>3, <2>4
<1> HIDE DEF asked, zeros
<1>14. CASE l - asked < 5
  <2>1. slack = l - asked /\ asked + slack = l
    BY <1>3, <1>7, <1>13, <1>14 DEF Slack, Overhead
  <2>2. left = 0
    <3>1. left = (l - l) % WordLimit
      <4> HIDE DEF slack
      <4> QED BY <1>8, <2>1 DEF Sub
    <3>2. l - l = 0 /\ 0 \in Nat /\ 0 <= MaxAddress
      BY <1>7
    <3> HIDE DEF left
    <3> QED BY <3>1, <3>2, Fitting
  <2>3. h + 3 + extent = h + l - 2
    BY <1>2, <1>3, <1>7, <2>1
  <2>4. m3 = Put(Put(mem, h, Header(0, l)), h + l - 2, Footer(h))
    <3> HIDE DEF left, slack, extent
    <3> QED BY <1>8, <2>1, <2>2, <2>3
  <2>5. index' = << >>
    <3> HIDE DEF left
    <3> QED BY <1>1, <1>9, <2>2
  <2>6. Frontier' = end
    BY <1>1, <2>5 DEF Frontier
  <2> HIDE DEF slack, left, extent, m3
  <2>7. Agrees(mem, mem', h)
    <3>1. Agrees(mem, m3, h)
      <4>1. h + l - 2 \in Int /\ h + 3 <= h + l - 2 /\ (h + l - 2) + 1 < MaxAddress
        BY <1>3, <1>7
      <4> QED BY <1>7, <2>4, <4>1, Framing
    <3>2. h + 3 \in Int
      BY <1>7
    <3>4. \A x \in Int : x < h => At(mem', x) = At(m3, x)
      BY <1>7, <1>10, <1>17
    <3> QED BY <3>1, <3>4 DEF Agrees
  <2>8. h + 5 + s <= end /\ h + 3 < end
    BY <1>3, <1>7
  <2>9. HoleInv'
    <3>1. end' \in Start..MaxAddress
      BY <1>1 DEF HoleInv
    <3>2. \A b \in live' : b.at \in Nat /\ b.at < Frontier'
      BY <1>7, <1>12, <2>6, <2>8
    <3> QED BY <2>5, <3>1, <3>2 DEF HoleInv
  <2> QED BY <1>1, <1>11, <2>6, <2>7, <2>8, <2>9 DEF h
<1>15. CASE l - asked >= 5
  <2> DEFINE b == h + asked
             z == l - asked
  <2>1. slack = 0 /\ asked + slack = asked /\ extent = s
    BY <1>2, <1>3, <1>13, <1>15 DEF Slack, Overhead
  <2>2. z \in Nat /\ z # 0 /\ left = z
    <3>1. left = (l - asked) % WordLimit
      <4> HIDE DEF slack
      <4> QED BY <1>8, <2>1 DEF Sub
    <3>2. l - asked \in Nat /\ l - asked <= MaxAddress /\ l - asked # 0
      BY <1>3, <1>7, <1>15
    <3> HIDE DEF left
    <3> QED BY <3>1, <3>2, Fitting
  <2>3. /\ h + 3 + extent = b - 2 /\ h + Overhead + extent = b /\ b + z - 2 = h + l - 2
        /\ b \in Nat /\ b + z - 2 \in Nat /\ b + z - 2 < end /\ b + z - 2 <= MaxAddress
        /\ b < end /\ Start <= b /\ h + 3 <= b - 2 /\ (b - 2) + 1 < b /\ b + 3 <= b + z - 2
        /\ b + z = h + l /\ b \in Words /\ b + z - 1 < MaxAddress /\ b = h + 5 + s
    BY <1>3, <1>7, <1>15, <2>1, WordIs DEF Overhead
  <2> HIDE DEF slack, extent
  <2>4. behind = b
    BY <1>8, <2>3
  <2>5. tail = b + z - 2
    <3>1. (b + z - 2) % WordLimit = b + z - 2
      BY <2>3, Fitting
    <3> HIDE DEF b, z, left, behind
    <3> QED BY <2>2, <2>4, <3>1
  <2> DEFINE z2 == Put(Put(mem, h, Header(0, asked)), b - 2, Footer(h))
             z3 == Put(Put(z2, b, Header(1, z)), b + z - 2, Footer(b))
  <2>6. m2 = z2
    <3> HIDE DEF b
    <3> QED BY <1>8, <2>1, <2>3
  <2>7. m3 = z3
    <3> HIDE DEF b, z, left, behind, tail, m2, z2
    <3> QED BY <2>2, <2>3, <2>4, <2>5, <2>6
  <2>8. index' = <<b>>
    <3>1. index' = Inserted(m3, << >>, b)
      <4> HIDE DEF z, b, left, m3, behind
      <4> QED BY <1>1, <1>9, <2>2, <2>4
    <3> HIDE DEF b, m3
    <3> QED BY <2>3, <3>1, InsertedFirst
  <2> HIDE DEF b, z, left, behind, tail, m2, m3, z2
  <2>9. Agrees(mem, z2, h)
    <3>1. b - 2 \in Int /\ h + 3 <= b - 2 /\ (b - 2) + 1 < MaxAddress
      BY <1>7, <2>3
    <3> QED BY <1>7, <3>1, Framing DEF z2
  <2>10. SizeAt(z3, b) = z /\ Agrees(z2, z3, b)
    <3>1. b + z - 2 \in Int /\ b + 3 <= b + z - 2 /\ (b + z - 2) + 1 < MaxAddress
      BY <2>2, <2>3
    <3> HIDE DEF z3
    <3>2. z3 = Put(Put(z2, b, Header(1, z)), b + z - 2, Footer(b))
      BY DEF z3
    <3> QED BY <2>3, <3>1, <3>2, Framing
  <2> HIDE DEF z3
  <2>11. SizeAt(mem', b) = z /\ Agrees(mem, mem', h)
    <3>1. Agrees(mem, z3, h)
      BY <1>7, <2>3, <2>9, <2>10 DEF Agrees
    <3>2. \A x \in Int : x < h + 3 \/ x >= b => At(mem', x) = At(z3, x)
      <4>1. CASE mem' = m3
        BY <2>7, <4>1
      <4>2. CASE mem' = Put(m3, h + 3, zeros)
        <5> SUFFICES ASSUME NEW x \in Int, x < h + 3 \/ x >= b
                     PROVE  At(mem', x) = At(m3, x)
          BY <2>7
        <5>1. x \notin (h + 3)..(h + 3 + s - 1)
          BY <1>7, <2>3
        <5>2. h + 3 \in Int
          BY <1>7
        <5> QED BY <1>17, <4>2, <5>1
      <4> QED BY <1>10, <4>1, <4>2
    <3>3. Agrees(mem, mem', h)
      BY <1>7, <3>1, <3>2 DEF Agrees
    <3>4. b + 2 \in Int /\ b + 2 >= b
      BY <2>3
    <3>5. At(mem', b + 2) = At(z3, b + 2)
      BY <3>2, <3>4
    <3> QED BY <2>10, <3>3, <3>5 DEF SizeAt
  <2>12. Frontier' = b
    <3>1. <<b>> # << >> /\ <<b>>[1] = b
      OBVIOUS
    <3> QED BY <2>8, <3>1 DEF Frontier
  <2>13. HoleInv'
    <3>1. end' \in Start..MaxAddress
      BY <1>1 DEF HoleInv
    <3>2. \A c \in live' : c.at \in Nat /\ c.at < Frontier'
      BY <1>7, <1>12, <2>3, <2>12
    <3>3. b \in Start..(end - 1) /\ b + z <= end /\ end' = end
      BY <1>1, <1>7, <2>3
    <3> QED BY <2>2, <2>8, <2>11, <2>12, <3>1, <3>2, <3>3 DEF HoleInv
  <2>14. h + 5 + s <= b
    BY <1>7, <2>3
  <2> QED BY <1>1, <1>11, <2>11, <2>12, <2>13, <2>14 DEF h
<1>16. l - asked < 5 \/ l - asked >= 5
  BY <1>13
<1> QED BY <1>14, <1>15, <1>16
LEMMA AppendedSet ==
  ASSUME NEW S, NEW s \in Seq(S), NEW x \in S
  PROVE  Append(s, x) \in Seq(S) /\ ToSet(Append(s, x)) = ToSet(s) \cup {x}
<1> DEFINE r == Append(s, x)
<1>1. r \in Seq(S) /\ Len(r) = Len(s) + 1 /\ r[Len(s) + 1] = x /\ Len(s) \in Nat
      /\ \A i \in 1..Len(s) : r[i] = s[i]
  OBVIOUS
<1>2. \A i : i \in 1..Len(r) <=> i \in 1..Len(s) \/ i = Len(s) + 1
  BY <1>1
<1> HIDE DEF r
<1>3. ToSet(r) = ToSet(s) \cup {x}
  BY <1>1, <1>2, Members
<1> QED BY <1>1, <1>3 DEF r

LEMMA ContextTyped ==
  ASSUME NEW m, NEW e, NEW ms, ContextsIn(m, e, ms), NEW t \in ToSet(ms)
  PROVE  t.at \in Nat \ {0} /\ t.sp \in Nat
<1> DEFINE T == [at : Nat \ {0}, sp : Nat]
<1>1. ms \in Seq(T)
  BY DEF ContextsIn
<1> HIDE DEF T
<1>2. t \in T
  BY <1>1, Members
<1> QED BY <1>2 DEF T

LEMMA NoNodes ==
  ASSUME NEW m, NEW e, NEW q \in Seq(Nat), NEW nw, NodesIn(m, e, q, nw, 0)
  PROVE  q = << >> /\ Len(q) = 0
<1>1. SUFFICES ASSUME q # << >> PROVE FALSE
  OBVIOUS
<1>2. 1 \in 1..Len(q) /\ q[1] \in Nat
  BY <1>1
<1>3. Start <= q[1] /\ q[1] = 0
  BY <1>1, <1>2 DEF NodesIn
<1>4. Start \in Nat /\ Start # 0
  BY HeapAssumption
<1>5. ~(Start <= 0)
  BY <1>4
<1> QED BY <1>3, <1>5

(* A link behind all the data is no word of it.                            *)
LEMMA DataApart ==
  ASSUME NEW m, NEW e \in Int, NEW ns, NEW ms, NEW q, NEW nw, NEW st, NEW ad,
         Data(m, e, ns, ms, q, nw, st, ad), NEW x \in Int, e <= x
  PROVE  /\ \A n \in ns : x \notin Payload(n)
         /\ \A t \in ToSet(ms) : x \notin {t.at + 1, t.at + 2} /\ x \notin t.sp..(t.sp + 3)
<1>1. \A n \in ns : x \notin Payload(n)
  BY DEF Data, FilesIn, Payload
<1>2. ASSUME NEW t \in ToSet(ms)
      PROVE  x \notin {t.at + 1, t.at + 2} /\ x \notin t.sp..(t.sp + 3)
  <2>1. t.at \in Nat /\ t.sp \in Nat /\ t.at + 2 < e /\ t.sp + 3 < e
    <3>1. t.at \in Nat /\ t.sp \in Nat
      BY ContextTyped DEF Data
    <3> QED BY <3>1 DEF Data, ContextsIn
  <2> QED BY <2>1
<1> QED BY <1>1, <1>2

(* The data below e stays what it is as long as nobody writes there.       *)
LEMMA DataKept ==
  ASSUME NEW m, NEW m2, NEW e \in Int, NEW e2 \in Int, e <= e2, Agrees(m, m2, e),
         NEW ns, NEW ms, NEW q \in Seq(Nat), NEW nw, NEW st, NEW ad,
         Data(m, e, ns, ms, q, nw, st, ad)
  PROVE  Data(m2, e2, ns, ms, q, nw, st, ad)
<1> USE DEF Data
<1>1. FilesIn(m2, e2, ns)
  <2> SUFFICES ASSUME NEW n \in ns
               PROVE  /\ n.at \in Nat /\ n.size \in Nat /\ Start <= n.at /\ n.at + n.size <= e2
                      /\ \A x \in Payload(n) : At(m2, x) = FilesMark
    BY Zenon DEF FilesIn
  <2>1. /\ n.at \in Nat /\ n.size \in Nat /\ Start <= n.at /\ n.at + n.size <= e
        /\ \A x \in Payload(n) : At(m, x) = FilesMark
    BY Zenon DEF FilesIn
  <2>2. n.at + n.size <= e2
    BY <2>1
  <2>3. ASSUME NEW x \in Payload(n) PROVE At(m2, x) = FilesMark
    <3>1. x \in n.at..(n.at + n.size - 1)
      BY DEF Payload
    <3>2. x \in Int /\ x < e
      BY <2>1, <3>1
    <3>3. At(m2, x) = At(m, x)
      BY <3>2 DEF Agrees
    <3> QED BY <2>1, <3>3
  <2> QED BY <2>1, <2>2, <2>3
<1>2. ContextsIn(m2, e2, ms)
  <2>1. \A t \in ToSet(ms) : t.at \in Nat /\ t.sp \in Nat
    BY ContextTyped
  <2> SUFFICES ASSUME NEW t \in ToSet(ms)
               PROVE  /\ t.at + 2 < e2 /\ t.sp + 3 < e2
                      /\ At(m2, t.at + 1) = t.sp /\ At(m2, t.at + 2) = t.sp /\ Starts(m2, t.sp)
    BY DEF ContextsIn
  <2>2. /\ t.at + 2 < e /\ t.sp + 3 < e /\ t.at \in Nat /\ t.sp \in Nat
        /\ At(m, t.at + 1) = t.sp /\ At(m, t.at + 2) = t.sp /\ Starts(m, t.sp)
    BY <2>1 DEF ContextsIn
  <2>3. \A i \in 1..4 : t.sp + i - 1 \in Int /\ t.sp + i - 1 < e
    BY <2>2
  <2>4. Starts(m2, t.sp)
    BY <2>2, <2>3 DEF Starts, Agrees
  <2>5. At(m2, t.at + 1) = t.sp /\ At(m2, t.at + 2) = t.sp
    BY <2>2 DEF Agrees
  <2> QED BY <2>2, <2>4, <2>5
<1>3. NodesIn(m2, e2, q, nw, st)
  BY DEF NodesIn, NextOf, Agrees
<1>4. Holds(m2, q, nw, ad)
  BY DEF Holds, NodesIn, Agrees
<1> QED BY <1>1, <1>2, <1>3, <1>4
(* A block of words is given to the files, a context to the threads.       *)
LEMMA FileAdded ==
  ASSUME NEW m, NEW e, NEW e2 \in Int,
         NEW ns, NEW ms, NEW q \in Seq(Nat), NEW nw, NEW st, NEW ad,
         Data(m, e, ns, ms, q, nw, st, ad), e \in Int, e <= e2,
         NEW a \in Nat, NEW n \in Nat, Start <= a, e <= a, a + n <= e2,
         NEW m2, Agrees(m, m2, e), \A x \in a..(a + n - 1) : At(m2, x) = FilesMark
  PROVE  Data(m2, e2, ns \cup {[at |-> a, size |-> n]}, ms, q, nw, st, ad)
<1> DEFINE b == [at |-> a, size |-> n]
<1>1. Data(m2, e2, ns, ms, q, nw, st, ad)
  BY DataKept
<1>2. b.at = a /\ b.size = n /\ Payload(b) = a..(a + n - 1)
  BY DEF Payload
<1> HIDE DEF b
<1>3. FilesIn(m2, e2, ns \cup {b})
  BY <1>1, <1>2 DEF Data, FilesIn
<1>4. LinksApart(q, ns \cup {b}, ms)
  <2>1. \A i \in 1..Len(q) : q[i] \in Nat /\ q[i] + 1 < a
    BY DEF Data, NodesIn
  <2>2. \A i \in 1..Len(q) : q[i] + 1 \notin Payload(b)
    BY <1>2, <2>1
  <2> QED BY <1>1, <2>2 DEF Data, LinksApart
<1> QED BY <1>1, <1>3, <1>4 DEF Data, b

LEMMA ThreadAdded ==
  ASSUME NEW m, NEW e, NEW e2 \in Int,
         NEW ns, NEW ms, NEW q \in Seq(Nat), NEW nw, NEW st, NEW ad,
         Data(m, e, ns, ms, q, nw, st, ad), e \in Int, e <= e2,
         NEW a \in Nat \ {0}, NEW sp \in Nat, e <= a, e <= sp, a + 2 < e2, sp + 3 < e2,
         NEW m2, Agrees(m, m2, e), At(m2, a + 1) = sp, At(m2, a + 2) = sp, Starts(m2, sp)
  PROVE  Data(m2, e2, ns, Append(ms, [at |-> a, sp |-> sp]), q, nw, st, ad)
<1> DEFINE t0 == [at |-> a, sp |-> sp]
           T == [at : Nat \ {0}, sp : Nat]
           ms2 == Append(ms, t0)
<1>1. Data(m2, e2, ns, ms, q, nw, st, ad)
  BY DataKept
<1>2. t0.at = a /\ t0.sp = sp /\ t0 \in T
  OBVIOUS
<1>3. ms \in Seq(T)
  BY <1>1 DEF Data, ContextsIn
<1> HIDE DEF t0, T
<1>4. ms2 \in Seq(T) /\ ToSet(ms2) = ToSet(ms) \cup {t0}
  BY <1>2, <1>3, AppendedSet
<1> HIDE DEF ms2
<1>5. ContextsIn(m2, e2, ms2)
  BY <1>1, <1>2, <1>4 DEF Data, ContextsIn, T
<1>6. LinksApart(q, ns, ms2)
  <2>1. \A i \in 1..Len(q) : q[i] \in Nat /\ q[i] + 1 < a /\ q[i] + 1 < sp
    BY DEF Data, NodesIn
  <2>2. ASSUME NEW i \in 1..Len(q)
        PROVE  q[i] + 1 \notin {a + 1, a + 2} /\ q[i] + 1 \notin sp..(sp + 3)
    <3> DEFINE y == q[i] + 1
    <3>1. y \in Nat /\ y < a /\ y < sp
      BY <2>1
    <3> HIDE DEF y
    <3>2. y # a + 1 /\ y # a + 2 /\ y \notin sp..(sp + 3)
      BY <3>1
    <3> QED BY <3>2 DEF y
  <2> QED BY <1>1, <1>2, <1>4, <2>2 DEF Data, LinksApart
<1>7. {t.at : t \in ToSet(ms)} \subseteq {t.at : t \in ToSet(ms2)}
  BY <1>4
<1> QED BY <1>1, <1>5, <1>6, <1>7 DEF Data, ms2, t0

(* A node is written behind everything else: by the first add_thread it    *)
(* becomes now, by the second it becomes stack.                            *)
LEMMA FirstAdded ==
  ASSUME NEW m, NEW e, NEW e2 \in Int, NEW ns, NEW ms, NEW q \in Seq(Nat), NEW ad,
         Data(m, e, ns, ms, q, 0, 0, ad), e \in Int, e <= e2,
         NEW g \in Nat \ {0}, g + 1 < e2, NEW v \in Nat, v \in {t.at : t \in ToSet(ms)},
         NEW m2, Agrees(m, m2, e), At(m2, g) = v
  PROVE  q = << >> /\ Data(m2, e2, ns, ms, q, g, 0, Append(ad, v))
<1>1. Data(m2, e2, ns, ms, q, 0, 0, ad)
  BY DataKept
<1>2. q = << >> /\ Len(q) = 0
  BY <1>1, NoNodes DEF Data
<1>3. ad \in Seq(Nat) /\ Len(ad) = 0
  BY <1>1, <1>2 DEF Data, Holds, Offset
<1> DEFINE ad2 == Append(ad, v)
<1>4. ad2 \in Seq(Nat) /\ Len(ad2) = 1 /\ ad2[1] = v
  BY <1>3
<1> HIDE DEF ad2
<1>5. NodesIn(m2, e2, q, g, 0)
  BY <1>1, <1>2 DEF Data, NodesIn
<1>6. Holds(m2, q, g, ad2)
  BY <1>2, <1>4 DEF Holds, Offset
<1>7. \A i \in 1..Len(ad2) : ad2[i] \in {t.at : t \in ToSet(ms)}
  BY <1>4
<1> QED BY <1>1, <1>2, <1>5, <1>6, <1>7 DEF Data, ad2

LEMMA SecondAdded ==
  ASSUME NEW m, NEW e, NEW e2 \in Int, NEW ns, NEW ms, NEW q \in Seq(Nat), NEW nw, NEW ad,
         Data(m, e, ns, ms, q, nw, 0, ad), e \in Int, e <= e2,
         NEW g \in Nat, Start <= g, e <= g, g + 1 < e2,
         NEW v \in Nat, v \in {t.at : t \in ToSet(ms)},
         NEW m2, Agrees(m, m2, e), At(m2, g) = v, NextOf(m2, g) = 0
  PROVE  q = << >> /\ Data(m2, e2, ns, ms, <<g>>, nw, g, Append(ad, v))
<1>1. Data(m2, e2, ns, ms, q, nw, 0, ad)
  BY DataKept
<1>2. q = << >> /\ Len(q) = 0
  BY <1>1, NoNodes DEF Data
<1> DEFINE r == <<g>>
           ad2 == Append(ad, v)
<1>3. ad \in Seq(Nat) /\ Len(ad) = Offset(nw) /\ Offset(nw) \in {0, 1}
  BY <1>1, <1>2 DEF Data, Holds, Offset
<1>4. /\ ad2 \in Seq(Nat) /\ Len(ad2) = 1 + Offset(nw) /\ ad2[1 + Offset(nw)] = v
      /\ \A i \in 1..Len(ad) : ad2[i] = ad[i]
  BY <1>3
<1>5. Len(r) = 1 /\ r[1] = g /\ r # << >>
  OBVIOUS
<1> HIDE DEF ad2, r
<1>6. nw \in Nat /\ (nw # 0 => nw + 1 < g)
  BY DEF Data, NodesIn
<1>7. NodesIn(m2, e2, r, nw, g)
  BY <1>5, <1>6 DEF NodesIn
<1>8. Holds(m2, r, nw, ad2)
  <2>1. nw # 0 => ad2[1] = At(m2, nw)
    BY <1>1, <1>3, <1>4 DEF Data, Holds, Offset
  <2> QED BY <1>4, <1>5, <2>1 DEF Holds
<1>9. LinksApart(r, ns, ms)
  <2>1. g + 1 \in Int /\ e <= g + 1
    BY <1>1
  <2>2. /\ \A n \in ns : g + 1 \notin Payload(n)
        /\ \A t \in ToSet(ms) : g + 1 \notin {t.at + 1, t.at + 2} /\ g + 1 \notin t.sp..(t.sp + 3)
    BY <2>1, DataApart
  <2>3. \A i \in 1..Len(r) : r[i] = g
    BY <1>5
  <2> QED BY <2>2, <2>3 DEF LinksApart
<1>10. \A i \in 1..Len(ad2) : ad2[i] \in {t.at : t \in ToSet(ms)}
  <2>1. \A i \in 1..Len(ad2) : i = 1 + Offset(nw) \/ i \in 1..Len(ad)
    BY <1>3, <1>4
  <2> QED BY <1>1, <1>4, <2>1 DEF Data
<1> QED BY <1>1, <1>2, <1>7, <1>8, <1>9, <1>10 DEF Data, r, ad2
(* A link of the queue can be written without harm to files and contexts.  *)
LEMMA LinkWritten ==
  ASSUME NEW m, NEW e \in Int, NEW ns, NEW ms, NEW q, LinksApart(q, ns, ms), NEW k \in 1..Len(q),
         FilesIn(m, e, ns), ContextsIn(m, e, ms),
         NEW m2, \A x : x # q[k] + 1 => At(m2, x) = At(m, x)
  PROVE  FilesIn(m2, e, ns) /\ ContextsIn(m2, e, ms)
<1>1. FilesIn(m2, e, ns)
  BY DEF FilesIn, LinksApart
<1>2. ASSUME NEW t \in ToSet(ms)
      PROVE  At(m2, t.at + 1) = t.sp /\ At(m2, t.at + 2) = t.sp /\ Starts(m2, t.sp)
  <2>1. q[k] + 1 \notin {t.at + 1, t.at + 2} /\ q[k] + 1 \notin t.sp..(t.sp + 3)
    BY DEF LinksApart
  <2>2. At(m, t.at + 1) = t.sp /\ At(m, t.at + 2) = t.sp /\ Starts(m, t.sp)
    BY DEF ContextsIn
  <2>3. t.sp \in Nat
    BY ContextTyped
  <2>4. \A i \in 1..4 : t.sp + i - 1 # q[k] + 1
    BY <2>1, <2>3
  <2>5. Starts(m2, t.sp)
    BY <2>2, <2>4 DEF Starts
  <2> QED BY <2>1, <2>2, <2>5
<1>3. ContextsIn(m2, e, ms)
  BY <1>2 DEF ContextsIn
<1> QED BY <1>1, <1>3

LEMMA LinkAdded ==
  ASSUME NEW m, NEW e, NEW e2 \in Int, NEW ns, NEW ms, NEW q \in Seq(Nat), NEW nw, NEW st, NEW ad,
         Data(m, e, ns, ms, q, nw, st, ad), e \in Int, e <= e2, q # << >>,
         NEW g \in Nat, Start <= g, e <= g, g + 1 < e2,
         NEW v \in Nat, v \in {t.at : t \in ToSet(ms)},
         NEW m1, Agrees(m, m1, e), At(m1, g) = v, NextOf(m1, g) = 0,
         NEW m2, At(m2, q[Len(q)] + 1) = g,
         \A x : x # q[Len(q)] + 1 => At(m2, x) = At(m1, x)
  PROVE  Data(m2, e2, ns, ms, Append(q, g), nw, st, Append(ad, v))
<1> DEFINE l == Len(q)
           r == Append(q, g)
           ad2 == Append(ad, v)
           o == Offset(nw)
<1>1. Data(m1, e2, ns, ms, q, nw, st, ad)
  BY DataKept
<1>2. l \in Nat /\ l \in 1..l /\ o \in {0, 1}
  BY DEF Offset
<1>3. ad \in Seq(Nat) /\ Len(ad) = l + o
  BY <1>1 DEF Data, Holds
<1>4. /\ ad2 \in Seq(Nat) /\ Len(ad2) = l + 1 + o /\ ad2[l + 1 + o] = v
      /\ \A i \in 1..(l + o) : ad2[i] = ad[i]
  <2>1. /\ ad2 \in Seq(Nat) /\ Len(ad2) = Len(ad) + 1 /\ ad2[Len(ad) + 1] = v
        /\ \A i \in 1..Len(ad) : ad2[i] = ad[i]
    BY <1>3
  <2>2. Len(ad) + 1 = l + 1 + o
    BY <1>2, <1>3
  <2> HIDE DEF ad2, l, o
  <2> QED BY <1>3, <2>1, <2>2
<1>5. /\ Len(r) = l + 1 /\ r[l + 1] = g /\ r # << >> /\ r[1] = q[1]
      /\ \A i \in 1..l : r[i] = q[i]
  BY <1>2
<1> HIDE DEF l, r, ad2, o
<1>6. \A i \in 1..l : q[i] \in Nat /\ q[i] + 1 < g /\ q[i] + 1 < e
  BY DEF Data, NodesIn, l
<1>7. \A i \in 1..l : i # l => q[i] + 1 < q[l]
  BY <1>2 DEF Data, NodesIn, l
<1>16. ASSUME NEW i \in 1..l
       PROVE  q[i] # q[l] + 1 /\ (i # l => q[i] + 1 # q[l] + 1)
  <2>1. q[i] \in Nat /\ q[l] \in Nat
    BY <1>2, <1>6
  <2>2. i # l => q[i] + 1 < q[l]
    BY <1>7
  <2>3. i = l => q[i] # q[l] + 1
    BY <2>1
  <2> QED BY <2>1, <2>2, <2>3
<1>8. nw \in Nat /\ (nw # 0 => nw + 1 < q[l] /\ nw + 1 < e)
  BY <1>2 DEF Data, NodesIn, l
<1>9. \A x : x # q[l] + 1 => At(m2, x) = At(m1, x)
  BY DEF l
<1>10. At(m2, q[l] + 1) = g
  BY DEF l
<1>17. g # q[l] + 1 /\ g + 1 # q[l] + 1
  <2>1. q[l] \in Nat /\ q[l] + 1 < g
    BY <1>2, <1>6
  <2> QED BY <2>1
<1>11. LinksApart(r, ns, ms)
  <2>1. g + 1 \in Int /\ e <= g + 1
    OBVIOUS
  <2>2. /\ \A n \in ns : g + 1 \notin Payload(n)
        /\ \A t \in ToSet(ms) : g + 1 \notin {t.at + 1, t.at + 2} /\ g + 1 \notin t.sp..(t.sp + 3)
    BY <2>1, DataApart
  <2>3. \A i \in 1..Len(r) : r[i] = g \/ \E j \in 1..Len(q) : r[i] = q[j]
    <3> TAKE i \in 1..Len(r)
    <3>1. i \in 1..l \/ i = l + 1
      BY <1>2, <1>5
    <3> QED BY <1>5, <3>1 DEF l
  <2>4. LinksApart(q, ns, ms)
    BY DEF Data
  <2> QED BY <2>2, <2>3, <2>4 DEF LinksApart
<1>12. NodesIn(m2, e2, r, nw, st)
  <2>1. ASSUME NEW i \in 1..Len(r)
        PROVE  /\ r[i] \in Nat /\ Start <= r[i] /\ r[i] + 1 < e2
               /\ NextOf(m2, r[i]) = IF i < Len(r) THEN r[i + 1] ELSE 0
    <3>1. CASE i = l + 1
      <4>2. NextOf(m2, g) = 0
        BY <1>9, <1>17 DEF NextOf
      <4> QED BY <1>2, <1>5, <3>1, <4>2
    <3>2. CASE i = l
      <4>1. NextOf(m2, q[l]) = g
        BY <1>10 DEF NextOf
      <4>2. q[l] \in Nat /\ Start <= q[l]
        BY <1>2 DEF Data, NodesIn, l
      <4> QED BY <1>2, <1>5, <1>6, <3>2, <4>1, <4>2
    <3>3. CASE i \in 1..l /\ i # l
      <4>1. i < l /\ i + 1 \in 1..l /\ i < Len(r)
        BY <1>2, <1>5, <3>3
      <4>2. q[i] \in Nat /\ Start <= q[i] /\ NextOf(m1, q[i]) = q[i + 1]
        BY <1>1, <3>3, <4>1 DEF Data, NodesIn, l
      <4>3. q[i] + 1 # q[l] + 1
        BY <1>16, <3>3
      <4>4. NextOf(m2, q[i]) = NextOf(m1, q[i])
        BY <1>9, <4>3 DEF NextOf
      <4>5. r[i] = q[i] /\ r[i + 1] = q[i + 1]
        BY <1>5, <3>3, <4>1
      <4>6. q[i] + 1 < e2
        <5>1. q[i] + 1 < e
          BY <1>6, <3>3
        <5> QED BY <4>2, <5>1
      <4> QED BY <4>1, <4>2, <4>4, <4>5, <4>6
    <3> QED BY <1>2, <1>5, <3>1, <3>2, <3>3
  <2>2. \A i, j \in 1..Len(r) : i < j => r[i] + 1 < r[j]
    <3> SUFFICES ASSUME NEW i \in 1..Len(r), NEW j \in 1..Len(r), i < j PROVE r[i] + 1 < r[j]
      OBVIOUS
    <3>1. i \in 1..l /\ (j \in 1..l \/ j = l + 1)
      BY <1>2, <1>5
    <3>2. j \in 1..l => q[i] + 1 < q[j]
      BY <3>1 DEF Data, NodesIn, l
    <3> QED BY <1>5, <1>6, <3>1, <3>2
  <2>3. st = r[1] /\ r # << >>
    BY <1>5 DEF Data, NodesIn, l
  <2>4. nw # 0 => nw + 1 < e2 /\ \A i \in 1..Len(r) : nw + 1 < r[i]
    <3> SUFFICES ASSUME nw # 0, NEW i \in 1..Len(r) PROVE nw + 1 < e2 /\ nw + 1 < r[i]
      BY <1>2, <1>5
    <3>1. i \in 1..l \/ i = l + 1
      BY <1>2, <1>5
    <3>2. i \in 1..l => nw + 1 < q[i]
      BY DEF Data, NodesIn, l
    <3>3. nw + 1 < e2 /\ nw + 1 < g
      BY <1>8
    <3>4. r[l + 1] = g /\ (i \in 1..l => r[i] = q[i])
      BY <1>5
    <3> QED BY <3>1, <3>2, <3>3, <3>4
  <2> QED BY <1>8, <2>1, <2>2, <2>3, <2>4 DEF NodesIn
<1>13. Holds(m2, r, nw, ad2)
  <2>1. nw # 0 => ad2[1] = At(m2, nw)
    <3> SUFFICES ASSUME nw # 0 PROVE ad2[1] = At(m2, nw)
      OBVIOUS
    <3>1. ad[1] = At(m1, nw) /\ 1 \in 1..(l + o)
      BY <1>1, <1>2 DEF Data, Holds
    <3>2. nw # q[l] + 1
      BY <1>2, <1>6, <1>8
    <3> QED BY <1>4, <1>9, <3>1, <3>2
  <2>2. ASSUME NEW i \in 1..Len(r) PROVE ad2[i + o] = At(m2, r[i])
    <3>1. CASE i = l + 1
      <4>2. At(m2, g) = v
        BY <1>9, <1>17
      <4> QED BY <1>4, <1>5, <3>1, <4>2
    <3>2. CASE i \in 1..l
      <4>1. ad[i + o] = At(m1, q[i])
        BY <1>1, <3>2 DEF Data, Holds, l, o
      <4>3. i + o \in 1..(l + o)
        BY <1>2, <3>2
      <4>2. q[i] # q[l] + 1
        BY <1>16, <3>2
      <4> QED BY <1>4, <1>5, <1>9, <3>2, <4>1, <4>2, <4>3
    <3> QED BY <1>2, <1>5, <3>1, <3>2
  <2> QED BY <1>2, <1>4, <1>5, <2>1, <2>2 DEF Holds, o
<1>14. FilesIn(m2, e2, ns) /\ ContextsIn(m2, e2, ms)
  BY <1>1, <1>2, <1>9, LinkWritten DEF Data, l
<1>15. \A i \in 1..Len(ad2) : ad2[i] \in {t.at : t \in ToSet(ms)}
  <2>1. \A i \in 1..Len(ad2) : i = l + 1 + o \/ i \in 1..Len(ad)
    BY <1>2, <1>3, <1>4
  <2> QED BY <1>1, <1>3, <1>4, <2>1 DEF Data
<1> QED BY <1>11, <1>12, <1>13, <1>14, <1>15 DEF Data, r, ad2

(* add_thread links the node to the one that following the links finds.    *)
InStep(f, g, low, n) ==
    /\ low <= n => f[low] = g[low]
    /\ \A k \in (low + 1)..n : f[k - 1] = g[k - 1] => f[k] = g[k]

LEMMA StepByStep ==
  ASSUME NEW low \in Nat, NEW n, n \in Int, NEW f, NEW g, InStep(f, g, low, n)
  PROVE  \A k \in low..n : f[k] = g[k]
<1> DEFINE Bad == {k \in low..n : f[k] # g[k]}
<1> SUFFICES ASSUME Bad # {} PROVE FALSE
  OBVIOUS
<1>1. Bad \in SUBSET Nat
  OBVIOUS
<1>2. PICK k \in Bad : \A j \in Bad : k <= j
  BY <1>1, LeastNumber
<1>3. k \in low..n /\ f[k] # g[k] /\ k # low
  BY <1>2 DEF InStep
<1>4. k \in (low + 1)..n /\ k - 1 \in low..n /\ ~(k <= k - 1)
  BY <1>3
<1>5. f[k - 1] = g[k - 1]
  BY <1>2, <1>4
<1> QED BY <1>3, <1>4, <1>5 DEF InStep

NextNode(m, w, k) == IF NextOf(m, w[k - 1]) = 0 THEN w[k - 1] ELSE NextOf(m, w[k - 1])
IsChase(m, a, w) == w = [k \in 0..(2 * MaxDemos) |-> IF k = 0 THEN a ELSE NextNode(m, w, k)]

LEMMA LastNodeIs ==
  ASSUME NEW m, NEW e, NEW q \in Seq(Nat), NEW nw, NEW st, NodesIn(m, e, q, nw, st),
         q # << >>, Len(q) <= 2 * MaxDemos
  PROVE  st = q[1] /\ Len(q) \in 1..Len(q) /\ LastNode(m, st) = q[Len(q)]
<1> DEFINE n == 2 * MaxDemos
           l == Len(q)
           P(k) == IF k < l THEN k + 1 ELSE l
           c == [k \in 0..n |-> q[P(k)]]
<1>1. n \in Nat /\ l \in Nat /\ l >= 1 /\ l <= n
  BY ThreadHeapAssumption
<1>2. st = q[1] /\ l \in 1..l
  BY <1>1 DEF NodesIn
<1>3. \A i \in 1..l : q[i] # 0 /\ NextOf(m, q[i]) = IF i < l THEN q[i + 1] ELSE 0
  BY WordIs DEF NodesIn
<1>4. \A k \in 1..n : c[k] = NextNode(m, c, k)
  <2> TAKE k \in 1..n
  <2>1. k \in 0..n /\ k - 1 \in 0..n /\ c[k] = q[P(k)] /\ c[k - 1] = q[P(k - 1)]
    BY <1>1
  <2>2. CASE k < l
    <3>1. P(k) = k + 1 /\ P(k - 1) = k /\ k \in 1..l /\ k + 1 \in 1..l
      BY <1>1, <2>2
    <3>2. NextOf(m, q[k]) = q[k + 1] /\ q[k + 1] # 0
      BY <1>3, <2>2, <3>1
    <3> HIDE DEF c
    <3> QED BY <2>1, <3>1, <3>2 DEF NextNode
  <2>3. CASE ~(k < l)
    <3>1. P(k) = l /\ P(k - 1) = l
      BY <1>1, <2>3
    <3>2. NextOf(m, q[l]) = 0
      BY <1>2, <1>3
    <3> HIDE DEF c, P
    <3> QED BY <2>1, <3>1, <3>2 DEF NextNode
  <2> QED BY <2>2, <2>3
<1>5. c[0] = q[1]
  BY <1>1
<1>6. IsChase(m, st, c)
  <2>1. c = [k \in 0..n |-> c[k]]
    OBVIOUS
  <2> HIDE DEF c
  <2>2. \A k \in 0..n : c[k] = IF k = 0 THEN st ELSE NextNode(m, c, k)
    BY <1>2, <1>4, <1>5
  <2> QED BY <2>1, <2>2 DEF IsChase
<1> DEFINE w == CHOOSE f : IsChase(m, st, f)
<1>7. IsChase(m, st, w)
  BY <1>6
<1>8. LastNode(m, st) = w[n]
  BY DEF LastNode, IsChase, NextNode
<1> HIDE DEF w, c
<1>9. w[0] = st /\ \A k \in 1..n : w[k] = NextNode(m, w, k)
  <2> DEFINE W(k) == IF k = 0 THEN st ELSE NextNode(m, w, k)
  <2>1. w = [k \in 0..n |-> W(k)]
    BY <1>7 DEF IsChase
  <2> HIDE DEF W
  <2>2. \A k \in 0..n : w[k] = W(k)
    BY <2>1
  <2>3. 0 \in 0..n /\ \A k \in 1..n : k \in 0..n /\ k # 0
    BY <1>1
  <2> QED BY <2>2, <2>3, Zenon DEF W
<1>10. InStep(w, c, 0, n)
  BY <1>2, <1>4, <1>5, <1>9 DEF InStep, NextNode
<1>11. \A k \in 0..n : w[k] = c[k]
  BY <1>1, <1>10, StepByStep
<1>12. c[n] = q[l]
  BY <1>1 DEF c
<1>13. n \in 0..n
  BY <1>1
<1> QED BY <1>2, <1>8, <1>11, <1>12, <1>13
(* The links lead through the whole queue, and no further.                 *)
FollowNode(w, k) == IF w[k - 1] = 0 THEN 0 ELSE NextOf(mem, w[k - 1])
IsFollow(w) == w = [k \in 1..(2 * MaxDemos) |-> IF k = 1 THEN stack ELSE FollowNode(w, k)]

LEMMA FollowedIs ==
  ASSUME NEW e, NEW q \in Seq(Nat), NodesIn(mem, e, q, now, stack), Holds(mem, q, now, added),
         Len(q) <= 2 * MaxDemos
  PROVE  Followed = added
<1> DEFINE n == 2 * MaxDemos
           l == Len(q)
           c == [k \in 1..n |-> IF k <= l THEN q[k] ELSE 0]
<1>1. n \in Nat /\ l \in Nat /\ l <= n
  BY ThreadHeapAssumption
<1>2. \A i \in 1..l : q[i] \in Nat \ {0} /\ NextOf(mem, q[i]) = IF i < l THEN q[i + 1] ELSE 0
  BY WordIs DEF NodesIn
<1>3. 1 <= n => c[1] = stack
  <2> SUFFICES ASSUME 1 <= n PROVE c[1] = stack
    OBVIOUS
  <2>1. c[1] = IF 1 <= l THEN q[1] ELSE 0
    BY <1>1
  <2>2. stack = IF q = << >> THEN 0 ELSE q[1]
    BY DEF NodesIn
  <2>3. q = << >> <=> ~(1 <= l)
    OBVIOUS
  <2> HIDE DEF c, l
  <2> QED BY <2>1, <2>2, <2>3
<1>4. \A k \in 2..n : c[k] = FollowNode(c, k)
  <2> TAKE k \in 2..n
  <2>1. /\ c[k] = (IF k <= l THEN q[k] ELSE 0)
        /\ c[k - 1] = (IF k - 1 <= l THEN q[k - 1] ELSE 0)
    BY <1>1
  <2>2. CASE k - 1 <= l
    <3>1. k - 1 \in 1..l /\ (k - 1 < l <=> k <= l) /\ (k - 1) + 1 = k
      BY <1>1, <2>2
    <3>2. q[k - 1] # 0 /\ NextOf(mem, q[k - 1]) = IF k <= l THEN q[k] ELSE 0
      BY <1>2, <3>1
    <3> HIDE DEF c
    <3> QED BY <2>1, <2>2, <3>2 DEF FollowNode
  <2>3. CASE ~(k - 1 <= l)
    <3>1. ~(k <= l)
      BY <1>1, <2>3
    <3> HIDE DEF c
    <3> QED BY <2>1, <2>3, <3>1 DEF FollowNode
  <2> QED BY <2>2, <2>3
<1>5. IsFollow(c)
  <2>1. c = [k \in 1..n |-> c[k]]
    OBVIOUS
  <2> HIDE DEF c
  <2>2. \A k \in 1..n : c[k] = IF k = 1 THEN stack ELSE FollowNode(c, k)
    BY <1>1, <1>3, <1>4
  <2> QED BY <2>1, <2>2 DEF IsFollow
<1> DEFINE w == CHOOSE f : IsFollow(f)
           length == Cardinality({k \in DOMAIN w : w[k] # 0})
           p == IF now = 0 THEN << >> ELSE <<At(mem, now)>>
<1>6. IsFollow(w)
  BY <1>5
<1>7. Followed = p \o [i \in 1..length |-> At(mem, w[i])]
  BY DEF Followed, IsFollow, FollowNode
<1> HIDE DEF w, c
<1>8. /\ DOMAIN w = 1..n /\ (1 <= n => w[1] = stack)
      /\ \A k \in 2..n : w[k] = FollowNode(w, k)
  <2>1. w = [k \in 1..n |-> IF k = 1 THEN stack ELSE FollowNode(w, k)]
    BY <1>6, Zenon DEF IsFollow
  <2>2. DOMAIN w = 1..n /\ \A k \in 1..n : w[k] = IF k = 1 THEN stack ELSE FollowNode(w, k)
    BY <2>1, Zenon
  <2>3. \A k \in 2..n : k \in 1..n /\ k # 1
    BY <1>1
  <2>4. 1 <= n => 1 \in 1..n
    BY <1>1
  <2> QED BY <2>2, <2>3, <2>4, Zenon
<1>9. \A k \in 1..n : w[k] = c[k]
  <2>1. InStep(w, c, 1, n)
    BY <1>3, <1>4, <1>8 DEF InStep, FollowNode
  <2>2. 1 \in Nat /\ n \in Int
    BY <1>1
  <2> HIDE DEF n
  <2>3. \A x, y : InStep(x, y, 1, n) => \A k \in 1..n : x[k] = y[k]
    BY <2>2, StepByStep
  <2> QED BY <2>1, <2>3
<1>10. length = l
  <2>1. \A k \in 1..n : c[k] # 0 <=> k <= l
    BY <1>1, <1>2 DEF c
  <2>2. {k \in DOMAIN w : w[k] # 0} = 1..l
    BY <1>1, <1>8, <1>9, <2>1
  <2>3. Cardinality(1..l) = l
    <3> HIDE DEF l
    <3>1. Cardinality(1..l) = IF 1 > l THEN 0 ELSE l - 1 + 1
      BY <1>1, FS_Interval
    <3> QED BY <1>1, <3>1
  <2> QED BY <2>2, <2>3
<1> DEFINE f == [i \in 1..l |-> At(mem, q[i])]
           o == Offset(now)
<1>11. [i \in 1..length |-> At(mem, w[i])] = f
  <2>1. \A i \in 1..l : w[i] = q[i]
    BY <1>1, <1>9 DEF c
  <2> HIDE DEF length
  <2> QED BY <1>10, <2>1
<1>12. added \in Seq(Nat) /\ Len(added) = l + o
  BY DEF Holds
<1>13. \A i \in 1..l : added[i + o] = At(mem, q[i])
  BY DEF Holds
<1>14. now # 0 => added[1] = At(mem, now)
  BY DEF Holds
<1>15. f \in Seq(Nat) /\ Len(f) = l
  <2>1. \A i \in 1..l : i + o \in 1..Len(added)
    BY <1>1, <1>12 DEF Offset
  <2>2. \A i \in 1..l : At(mem, q[i]) \in Nat
    BY <1>12, <1>13, <2>1
  <2> QED BY <1>1, <2>2
<1>16. p \in Seq(Nat) /\ Len(p) = o /\ (now # 0 => p[1] = added[1])
  <2>1. now # 0 => At(mem, now) \in Nat
    BY <1>1, <1>12, <1>14 DEF Offset
  <2> QED BY <1>14, <2>1 DEF Offset
<1>17. \A i \in 1..l : f[i] = added[i + o]
  BY <1>13
<1> HIDE DEF f, p, length, l
<1>18. p \o f = added
  <2> DEFINE z == p \o f
  <2>5. o \in {0, 1} /\ (o = 1 <=> now # 0)
    BY DEF Offset
  <2> HIDE DEF o
  <2>6. /\ z \in Seq(Nat) /\ Len(z) = Len(p) + Len(f)
        /\ \A i \in 1..(Len(p) + Len(f)) : z[i] = IF i <= Len(p) THEN p[i] ELSE f[i - Len(p)]
    BY <1>15, <1>16, ConcatProperties, Zenon
  <2> HIDE DEF z
  <2>1. z \in Seq(Nat) /\ Len(z) = l + o /\ o \in {0, 1} /\ (o = 1 <=> now # 0)
    BY <1>1, <1>15, <1>16, <2>5, <2>6
  <2>2. \A i \in 1..(l + o) : z[i] = IF i <= o THEN p[i] ELSE f[i - o]
    <3>1. l + o = Len(p) + Len(f)
      BY <1>1, <1>15, <1>16, <2>5
    <3> QED BY <1>16, <2>6, <3>1
  <2>3. \A i \in 1..(l + o) : z[i] = added[i]
    <3> TAKE i \in 1..(l + o)
    <3>1. CASE i <= o
      BY <1>1, <1>16, <2>1, <2>2, <3>1
    <3>2. CASE ~(i <= o)
      <4>1. i - o \in 1..l /\ (i - o) + o = i
        BY <1>1, <2>1, <3>2
      <4> QED BY <1>17, <2>2, <3>2, <4>1
    <3> QED BY <3>1, <3>2
  <2>4. z = added
    BY <1>12, <2>1, <2>3
  <2> QED BY <2>4 DEF z
<1> QED BY <1>7, <1>11, <1>18
-----------------------------------------------------------------------------
(* What the invariant says of a state the kernel still runs in.            *)
LEMMA EdgeIs ==
  ASSUME HoleInv, ControlInv
  PROVE  /\ Frontier \in Nat /\ Top \in Int /\ Edge \in Int
         /\ Edge <= Top /\ Top <= Frontier /\ Frontier <= MaxAddress /\ MaxAddress \in Nat
         /\ Start \in Nat \ {0} /\ Asked \in Nat
<1>1. /\ Frontier \in Nat /\ Frontier <= MaxAddress /\ MaxAddress \in Nat /\ Start \in Nat \ {0}
  BY FrontierIs
<1>2. Asked \in Nat
  <2>1. files \in Nat /\ NodeWords \in Nat /\ StackWords \in Nat
    BY ThreadHeapAssumption DEF ControlInv
  <2>2. NodeWords * files \in Nat
    BY <2>1
  <2> QED BY <2>1, <2>2 DEF Asked
<1>3. Top \in Int /\ Top <= Frontier
  <2>1. got # 0 => got \in Nat /\ got + Asked + 2 <= Frontier
    BY DEF ControlInv
  <2> HIDE DEF ControlInv, HoleInv
  <2> QED BY <1>1, <1>2, <2>1 DEF Top
<1>4. Edge \in Int /\ Edge <= Top
  <2>1. pc = "thread" => base \in Nat /\ base + StackWords + 2 <= Top
    BY DEF ControlInv
  <2>2. StackWords \in Nat
    BY ThreadHeapAssumption
  <2>3. pc = "thread" => base - 4 \in Int /\ base - 4 <= Top
    BY <1>3, <2>1, <2>2
  <2>4. (pc = "thread" /\ Edge = base - 4) \/ Edge = Top \/ Edge = Top - 1
    BY DEF Edge
  <2> QED BY <1>3, <2>3, <2>4
<1> QED BY <1>1, <1>2, <1>3, <1>4

LEMMA FilesReadable ==
  ASSUME NEW m, NEW e \in Int, e <= MaxAddress, NEW ns, FilesIn(m, e, ns)
  PROVE  \A n \in ns : \A x \in Payload(n) : m[x] = FilesMark
<1> SUFFICES ASSUME NEW n \in ns, NEW x \in Payload(n) PROVE m[x] = FilesMark
  OBVIOUS
<1>1. n.at \in Nat /\ n.size \in Nat /\ Start <= n.at /\ n.at + n.size <= e
  BY DEF FilesIn
<1>2. x \in n.at..(n.at + n.size - 1)
  BY DEF Payload
<1>3. x \in Words
  BY <1>1, <1>2, WordIs
<1>4. At(m, x) = FilesMark
  BY DEF FilesIn
<1> QED BY <1>3, <1>4 DEF At

LEMMA StartsIs ==
  ASSUME NEW m, NEW sp, Starts(m, sp)
  PROVE  [i \in 1..4 |-> At(m, sp + i - 1)] = Pushed
<1>1. Pushed = [i \in 1..4 |-> Pushed[i]]
  BY DEF Pushed
<1>2. \A i \in 1..4 : At(m, sp + i - 1) = Pushed[i]
  BY Zenon DEF Starts
<1> QED BY <1>1, <1>2, Zenon

LEMMA RunningKept ==
  ASSUME Running, NEW q \in Seq(Nat), RunningInv(q)
  PROVE  FilesKept /\ ContextsKept /\ QueueKept /\ Len(q) <= 2 * MaxDemos
<1>1. FilesKept
  <2>1. HoleInv /\ ControlInv /\ FilesIn(mem, Edge, nodes)
    BY DEF RunningInv, Data
  <2>2. Edge \in Int /\ Edge <= MaxAddress
    BY <2>1, EdgeIs
  <2> QED BY <2>1, <2>2, FilesReadable, Zenon DEF FilesKept
<1>2. ContextsKept
  <2>1. \A t \in ToSet(made) :
           At(mem, t.at + 1) = t.sp /\ At(mem, t.at + 2) = t.sp /\ Starts(mem, t.sp)
    BY DEF RunningInv, Data, ContextsIn
  <2>2. \A t \in ToSet(made) : StartsAt(t.sp)
    BY <2>1, StartsIs DEF StartsAt
  <2> QED BY <2>1, <2>2 DEF ContextsKept, Running
<1>3. Len(q) <= 2 * MaxDemos
  <2>1. Len(added) = Len(q) + Offset(now) /\ Offset(now) \in {0, 1}
    BY DEF RunningInv, Data, Holds, Offset
  <2>2. Len(added) + Missing = 2 * demos /\ demos \in 0..MaxDemos /\ Missing \in {0, 1, 2}
    BY DEF RunningInv, ControlInv, Missing
  <2>3. Len(q) \in Nat /\ MaxDemos \in Nat
    BY ThreadHeapAssumption
  <2> QED BY <2>1, <2>2, <2>3
<1>4. QueueKept
  <2>1. NodesIn(mem, Edge, q, now, stack) /\ Holds(mem, q, now, added)
    BY DEF RunningInv, Data
  <2> QED BY <1>3, <2>1, FollowedIs DEF QueueKept
<1> QED BY <1>1, <1>2, <1>3, <1>4

LEMMA HaltKeeps ==
  ASSUME Running, NEW q \in Seq(Nat), RunningInv(q),
         status' # "ok", UNCHANGED <<mem, nodes, made>>, pc' # "switched"
  PROVE  ThreadInv'
<1>1. FilesKept /\ ContextsKept
  BY RunningKept
<1>2. FilesKept' /\ ContextsKept'
  BY <1>1 DEF FilesKept, Payload, ContextsKept, StartsAt
<1> QED BY <1>2 DEF ThreadInv, Running
-----------------------------------------------------------------------------
(* The calls of kmalloc.                                                   *)
LEMMA CallKeeps ==
  ASSUME NEW q \in Seq(Nat), RunningInv(q), Call
  PROVE  RunningInv(q)'
<1> USE DEF RunningInv
<1>1. /\ pc # "idle" /\ got = 0 /\ first' = NowEmpty
      /\ request' = [size |-> Asked, page_align |-> FALSE]
      /\ UNCHANGED <<mem, index, end, live, pc, files, got, base, word0, now, stack>>
      /\ UNCHANGED <<nodes, made, added, demos>>
  BY DEF Call, Alloc
<1>2. HoleInv' /\ Frontier' = Frontier /\ Top' = Top /\ Edge' = Edge /\ Asked' = Asked
      /\ Missing' = Missing
  BY <1>1 DEF HoleInv, Frontier, Top, Edge, Asked, SizeAt, At, Missing
<1>3. NowEmpty <=> now = 0 /\ ~word0
  <2>1. CASE now = 0
    BY <2>1 DEF NowEmpty
  <2>2. CASE now # 0
    <3>1. added[1] = At(mem, now) /\ 1 \in 1..Len(added)
      BY <2>2 DEF Data, Holds, Offset
    <3>2. PICK t \in ToSet(made) : added[1] = t.at
      BY <3>1 DEF Data
    <3>3. t.at # 0
      BY ContextTyped DEF Data
    <3> QED BY <2>2, <3>1, <3>2, <3>3 DEF NowEmpty
  <2> QED BY <2>1, <2>2
<1>4. ControlInv'
  BY <1>1, <1>2, <1>3 DEF ControlInv
<1>5. Data(mem, Edge, nodes, made, q, now, stack, added)'
  BY <1>1, <1>2
<1> QED BY <1>2, <1>4, <1>5

LEMMA ExpandKeeps ==
  ASSUME NEW q \in Seq(Nat), RunningInv(q), Expand, status' = "ok"
  PROVE  RunningInv(q)'
<1> USE DEF RunningInv
<1>1. Grow /\ request # << >> /\ UNCHANGED tvars
  BY DEF Expand, Grow
<1>2. request = [size |-> Asked, page_align |-> FALSE] /\ got = 0 /\ request.size \in Nat
  <2>1. request = [size |-> Asked, page_align |-> FALSE] /\ got = 0
    BY <1>1 DEF ControlInv
  <2>2. request.size = Asked
    BY <2>1
  <2> QED BY <2>1, <2>2, EdgeIs
<1>3. HoleInv' /\ Frontier' = Frontier /\ Agrees(mem, mem', Frontier) /\ request' = request
  BY <1>1, <1>2, GrowKeeps
<1>4. Top' = Top /\ Edge' = Edge /\ Asked' = Asked /\ Missing' = Missing
  BY <1>1, <1>3 DEF tvars, Top, Edge, Asked, Missing
<1>5. ControlInv'
  BY <1>1, <1>3, <1>4 DEF ControlInv, tvars
<1>6. Data(mem, Edge, nodes, made, q, now, stack, added)'
  <2>1. Agrees(mem, mem', Edge) /\ Edge \in Int
    BY <1>3, EdgeIs DEF Agrees
  <2>2. Data(mem', Edge, nodes, made, q, now, stack, added)
    BY <2>1, DataKept
  <2> QED BY <1>1, <1>4, <2>2 DEF tvars
<1> QED BY <1>3, <1>5, <1>6
LEMMA ReturnKeeps ==
  ASSUME NEW q \in Seq(Nat), RunningInv(q), Return, status' = "ok"
  PROVE  RunningInv(q)'
<1> USE DEF RunningInv
<1>1. /\ Place /\ request # << >> /\ got' = (CHOOSE b \in live' \ live : TRUE).at
      /\ UNCHANGED <<pc, files, base, first, word0, now, stack, nodes, made, added, demos>>
  BY DEF Return, Place
<1> DEFINE s == Asked
           f == Frontier
<1>2. request = [size |-> s, page_align |-> FALSE] /\ got = 0
  BY <1>1 DEF ControlInv
<1>3. /\ f \in Nat /\ Start \in Nat \ {0} /\ s \in Nat /\ Start <= f /\ Edge \in Int
      /\ Edge <= Top /\ Top = f
  BY <1>2, EdgeIs, FrontierIs DEF Top
<1> HIDE DEF s
<1>4. /\ HoleInv' /\ f + 5 + s <= Frontier' /\ Agrees(mem, mem', f)
      /\ request' = << >>
      /\ live' = live \cup {[at |-> f + 3, size |-> s]}
  BY <1>1, <1>2, <1>3, PlaceKeeps
<1> DEFINE b0 == [at |-> f + 3, size |-> s]
<1>5. got' = f + 3
  <2>1. b0 \notin live
    <3>1. b0.at = f + 3
      OBVIOUS
    <3> HIDE DEF b0
    <3>2. \A b \in live : b.at < f
      BY DEF HoleInv
    <3> QED BY <1>3, <3>1, <3>2
  <2>2. live' \ live = {b0}
    BY <1>4, <2>1
  <2>3. b0.at = f + 3
    OBVIOUS
  <2> HIDE DEF b0
  <2>4. (CHOOSE b \in {b0} : TRUE) = b0
    OBVIOUS
  <2> QED BY <1>1, <2>2, <2>3, <2>4
<1>6. Top' = f /\ Edge' = Edge /\ Asked' = s /\ Missing' = Missing /\ got' # 0
  <2>1. Top' = f /\ got' # 0
    BY <1>3, <1>5 DEF Top
  <2> QED BY <1>1, <1>3, <2>1 DEF Edge, Asked, Missing, s
<1>7. ControlInv'
  <2>1. Frontier' \in Nat
    BY <1>3, <1>4 DEF HoleInv, Frontier
  <2>2. got' \in Nat /\ Start + 3 <= got' /\ got' + Asked' + 2 <= Frontier'
    BY <1>3, <1>4, <1>5, <1>6, <2>1
  <2>3. pc # "idle"
    BY <1>1 DEF ControlInv
  <2>4. pc = "thread" => base \in Nat /\ Start + 3 <= base /\ base + StackWords + 2 <= Top'
    BY <1>3, <1>6 DEF ControlInv
  <2>5. pc \in {"add", "add again"} => made # << >> /\ (first <=> now = 0 /\ ~word0)
    BY <1>1 DEF ControlInv
  <2> QED BY <1>1, <1>4, <1>6, <2>2, <2>3, <2>4, <2>5 DEF ControlInv
<1>8. Data(mem, Edge, nodes, made, q, now, stack, added)'
  <2>1. Agrees(mem, mem', Edge) /\ Edge \in Int
    BY <1>3, <1>4 DEF Agrees
  <2>2. Data(mem', Edge, nodes, made, q, now, stack, added)
    BY <2>1, DataKept
  <2> QED BY <1>1, <1>6, <2>2
<1> QED BY <1>4, <1>7, <1>8

(* interpret starts a demo, and the stack it was given is only remembered. *)
LEMMA DemoKeeps ==
  ASSUME NEW q \in Seq(Nat), RunningInv(q), Demo
  PROVE  RunningInv(q)'
<1> USE DEF RunningInv
<1>1. /\ pc = "idle" /\ pc' = "stack" /\ demos' = demos + 1 /\ demos < MaxDemos
      /\ UNCHANGED <<mem, index, end, live, request, files, got, base, word0, now, stack>>
      /\ UNCHANGED <<nodes, made, added>>
  BY DEF Demo, vars
<1>2. request = << >> /\ got = 0
  BY <1>1 DEF ControlInv
<1>3. /\ HoleInv' /\ Frontier' = Frontier /\ Top' = Top /\ Edge' = Edge
      /\ Missing = 0 /\ Missing' = 2
  BY <1>1 DEF HoleInv, Frontier, Top, Edge, SizeAt, At, Missing
<1>4. ControlInv'
  <2>1. demos' \in 0..MaxDemos /\ Len(added') + Missing' = 2 * demos'
    <3>1. MaxDemos \in Nat /\ demos \in 0..MaxDemos /\ Len(added) + Missing = 2 * demos
      BY ThreadHeapAssumption DEF ControlInv
    <3>2. demos' \in 0..MaxDemos
      BY <1>1, <3>1
    <3>3. Len(added') = 2 * demos
      BY <1>1, <1>3, <3>1
    <3> QED BY <1>1, <1>3, <3>1, <3>2, <3>3
  <2>2. pc' \in Statements /\ files' \in Nat /\ (now' = 0 /\ ~word0' => stack' = 0)
    BY <1>1 DEF ControlInv, Statements
  <2> QED BY <1>1, <1>2, <2>1, <2>2 DEF ControlInv
<1>5. Data(mem, Edge, nodes, made, q, now, stack, added)'
  BY <1>1, <1>3
<1> QED BY <1>3, <1>4, <1>5

LEMMA StackKeeps ==
  ASSUME NEW q \in Seq(Nat), RunningInv(q), Stack
  PROVE  RunningInv(q)'
<1> USE DEF RunningInv
<1>1. /\ pc = "stack" /\ got # 0 /\ got' = 0 /\ base' = got /\ pc' = After(pc) /\ request = << >>
      /\ UNCHANGED <<mem, index, end, live, request, files, word0, now, stack>>
      /\ UNCHANGED <<nodes, made, added, demos>>
  BY DEF Stack, Goes
<1>2. pc' = "thread" /\ Missing = 2 /\ Missing' = 2 /\ Asked = StackWords
  BY <1>1 DEF After, Missing, Asked
<1>3. got \in Nat /\ Start + 3 <= got /\ got + Asked + 2 <= Frontier
  BY <1>1 DEF ControlInv
<1>4. HoleInv' /\ Frontier' = Frontier /\ Top' = Frontier /\ Edge' = got - 4 /\ Edge = (got - 3) - 1
  BY <1>1, <1>2 DEF HoleInv, Frontier, Top, Edge, SizeAt, At
<1>5. ControlInv'
  <2>1. base' \in Nat /\ Start + 3 <= base' /\ base' + StackWords + 2 <= Top'
    BY <1>1, <1>2, <1>3, <1>4
  <2>2. pc' \in Statements /\ files' \in Nat /\ (now' = 0 /\ ~word0' => stack' = 0)
    BY <1>1, <1>2 DEF ControlInv, Statements
  <2>3. demos' \in 0..MaxDemos /\ Len(added') + Missing' = 2 * demos'
    BY <1>1, <1>2 DEF ControlInv
  <2> QED BY <1>1, <1>2, <2>1, <2>2, <2>3 DEF ControlInv
<1>6. Data(mem, Edge, nodes, made, q, now, stack, added)'
  <2>1. Edge' = Edge
    BY <1>3, <1>4
  <2> QED BY <1>1, <2>1
<1> QED BY <1>4, <1>5, <1>6
(* init_initrd fills the block it was given.                               *)
LEMMA DirectoriesKeep ==
  ASSUME NEW q \in Seq(Nat), RunningInv(q), Directories, status' = "ok"
  PROVE  RunningInv(q)'
<1> USE DEF RunningInv
<1> DEFINE n == Asked
           marks == [i \in 1..n |-> FilesMark]
<1>1. /\ pc \in ToSet(InitDirectories) /\ status = "ok" /\ request = << >> /\ got # 0 /\ got' = 0
      /\ pc' = After(pc) /\ mem' = Put(mem, got, marks)
      /\ nodes' = nodes \cup {[at |-> got, size |-> n]}
      /\ UNCHANGED <<index, end, live, request, files, base, word0, now, stack>>
      /\ UNCHANGED <<made, added, demos>>
  BY DEF Directories, Goes
<1>2. pc \in {"root", "dev", "nodes"}
  BY <1>1 DEF ToSet, InitDirectories
<1>3. pc' \in {"dev", "nodes", "idle"} /\ Missing = 0 /\ Missing' = 0
  BY <1>1, <1>2 DEF After, Missing
<1>4. /\ got \in Nat /\ Start + 3 <= got /\ got + n + 2 <= Frontier /\ n \in Nat
      /\ Start \in Nat \ {0} /\ Frontier \in Nat /\ Frontier <= MaxAddress /\ MaxAddress \in Nat
  BY <1>1, EdgeIs DEF ControlInv
<1>5. \A x : At(mem', x) = IF x \in Words /\ x \in got..(got + n - 1) THEN FilesMark ELSE At(mem, x)
  <2>1. Len(marks) = n /\ \A i \in 1..n : marks[i] = FilesMark
    BY <1>4
  <2> HIDE DEF marks, n
  <2>2. \A x : At(mem', x) = IF x \in Words /\ x \in got..(got + Len(marks) - 1)
                             THEN marks[x - got + 1] ELSE At(mem, x)
    BY <1>1, PutMany
  <2>3. \A x \in got..(got + n - 1) : x - got + 1 \in 1..n
    BY <1>4
  <2> QED BY <2>1, <2>2, <2>3
<1> HIDE DEF marks, n
<1>6. \A x \in Int : x < got \/ got + n <= x => At(mem', x) = At(mem, x)
  BY <1>4, <1>5
<1>7. HoleInv'
  <2>1. Frontier + 2 \in Int /\ got + n <= Frontier + 2
    BY <1>4
  <2>2. SizeAt(mem', Frontier) = SizeAt(mem, Frontier)
    BY <1>6, <2>1 DEF SizeAt
  <2>3. Frontier' = Frontier
    BY <1>1 DEF Frontier
  <2> QED BY <1>1, <2>2, <2>3 DEF HoleInv
<1>8. Frontier' = Frontier /\ Top' = Frontier /\ Edge' = Frontier - 1 /\ Edge = (got - 3) - 1
  BY <1>1, <1>2, <1>3 DEF Frontier, Top, Edge
<1>9. ControlInv'
  <2>1. pc' \in Statements /\ files' \in Nat /\ (now' = 0 /\ ~word0' => stack' = 0)
    BY <1>1, <1>3 DEF ControlInv, Statements
  <2>2. demos' \in 0..MaxDemos /\ Len(added') + Missing' = 2 * demos'
    BY <1>1, <1>3 DEF ControlInv
  <2> QED BY <1>1, <1>3, <2>1, <2>2 DEF ControlInv
<1>10. Data(mem, Edge, nodes, made, q, now, stack, added)'
  <2> DEFINE e == Edge
             e2 == Edge'
  <2>1. /\ e \in Int /\ e2 \in Int /\ e <= e2 /\ Start <= got /\ e <= got /\ got + n <= e2
        /\ Agrees(mem, mem', e)
    BY <1>4, <1>6, <1>8 DEF Agrees
  <2>2. \A x \in got..(got + n - 1) : At(mem', x) = FilesMark
    BY <1>4, <1>5, WordIs
  <2>3. Data(mem, e, nodes, made, q, now, stack, added)
    OBVIOUS
  <2> HIDE DEF e, e2
  <2>4. Data(mem', e2, nodes \cup {[at |-> got, size |-> n]}, made, q, now, stack, added)
    BY <1>4, <2>1, <2>2, <2>3, FileAdded
  <2> QED BY <1>1, <2>4 DEF e2
<1> QED BY <1>7, <1>9, <1>10

(* create_thread writes the thread and, below the stack, what it starts    *)
(* from.                                                                   *)
LEMMA CreatedIs ==
  ASSUME NEW a \in Nat, NEW sp \in Nat, Start - 2 <= sp, sp + 4 <= a, a + 3 <= MaxAddress
  PROVE  LET m == Created(a, sp)
         IN  /\ At(m, a + 1) = sp /\ At(m, a + 2) = sp /\ Starts(m, sp)
             /\ Agrees(mem, m, sp)
             /\ \A x \in Int : a + 3 <= x => At(m, x) \in {0, At(mem, x)}
<1> DEFINE zeros == [i \in 1..6 |-> 0]
           m1 == Put(mem, a, zeros)
           m2 == Put(m1, sp, Pushed)
           m == Put(m2, a, <<demos - 1, sp, sp>>)
<1>1. Created(a, sp) = m
  BY DEF Created, Memset
<1>2. \A x : At(m1, x) = IF x \in Words /\ x \in a..(a + 5) THEN 0 ELSE At(mem, x)
  <2>1. Len(zeros) = 6 /\ \A i \in 1..6 : zeros[i] = 0
    OBVIOUS
  <2> HIDE DEF zeros
  <2>2. \A x : At(m1, x) = IF x \in Words /\ x \in a..(a + Len(zeros) - 1)
                           THEN zeros[x - a + 1] ELSE At(mem, x)
    BY PutMany
  <2>3. a + Len(zeros) - 1 = a + 5 /\ \A x \in a..(a + 5) : x - a + 1 \in 1..6
    BY <2>1
  <2> QED BY <2>1, <2>2, <2>3
<1>3. \A x : At(m2, x) = IF x \in Words /\ x \in sp..(sp + 3) THEN Pushed[x - sp + 1] ELSE At(m1, x)
  <2>1. Len(Pushed) = 4
    BY DEF Pushed
  <2> HIDE DEF m1
  <2>2. \A x : At(m2, x) = IF x \in Words /\ x \in sp..(sp + Len(Pushed) - 1)
                           THEN Pushed[x - sp + 1] ELSE At(m1, x)
    BY PutMany
  <2>3. sp + Len(Pushed) - 1 = sp + 3
    BY <2>1
  <2> QED BY <2>2, <2>3
<1> HIDE DEF m1, m2
<1>4. \A x : At(m, x) = IF x \in Words /\ x \in {a, a + 1, a + 2}
                        THEN (IF x = a THEN demos - 1 ELSE IF x = a + 1 THEN sp ELSE sp)
                        ELSE At(m2, x)
  BY PutThree
<1> HIDE DEF m
<1>5. {a, a + 1, a + 2} \subseteq Words /\ \A x \in sp..(sp + 3) : x \in Words
  BY WordIs
<1>6. At(m, a + 1) = sp /\ At(m, a + 2) = sp
  BY <1>4, <1>5
<1>7. Starts(m, sp)
  <2> SUFFICES ASSUME NEW i \in 1..4 PROVE At(m, sp + i - 1) = Pushed[i]
    BY DEF Starts
  <2>1. sp + i - 1 \in sp..(sp + 3) /\ sp + i - 1 \notin {a, a + 1, a + 2}
    OBVIOUS
  <2>2. (sp + i - 1) - sp + 1 = i
    OBVIOUS
  <2> QED BY <1>3, <1>4, <1>5, <2>1, <2>2
<1>8. Agrees(mem, m, sp)
  <2> SUFFICES ASSUME NEW x \in Int, x < sp PROVE At(m, x) = At(mem, x)
    BY DEF Agrees
  <2>1. x \notin {a, a + 1, a + 2} /\ x \notin sp..(sp + 3) /\ x \notin a..(a + 5)
    OBVIOUS
  <2> QED BY <1>2, <1>3, <1>4, <2>1
<1>9. ASSUME NEW x \in Int, a + 3 <= x PROVE At(m, x) \in {0, At(mem, x)}
  <2>1. x \notin {a, a + 1, a + 2} /\ x \notin sp..(sp + 3)
    BY <1>9
  <2> QED BY <1>2, <1>3, <1>4, <2>1
<1> QED BY <1>1, <1>6, <1>7, <1>8, <1>9
LEMMA ThreadKeeps ==
  ASSUME NEW q \in Seq(Nat), RunningInv(q), Thread, status' = "ok"
  PROVE  RunningInv(q)'
<1> USE DEF RunningInv
<1> DEFINE sp == base - 4
           e == Edge
<1>1. /\ pc = "thread" /\ request = << >> /\ got # 0 /\ got' = 0 /\ pc' = After(pc)
      /\ mem' = Created(got, sp) /\ made' = Append(made, [at |-> got, sp |-> sp])
      /\ UNCHANGED <<index, end, live, request, files, base, word0, now, stack>>
      /\ UNCHANGED <<nodes, added, demos>>
  BY DEF Thread, Goes
<1>2. pc' = "add" /\ Missing = 2 /\ Missing' = 2 /\ Asked = 1
  BY <1>1 DEF After, Missing, Asked
<1>3. /\ got \in Nat /\ Start + 3 <= got /\ got + 3 <= Frontier /\ base \in Nat
      /\ Start + 3 <= base /\ base + 2 <= got - 3 /\ Start \in Nat \ {0}
      /\ Frontier \in Nat /\ Frontier <= MaxAddress /\ MaxAddress \in Nat
  <2>1. got \in Nat /\ Start + 3 <= got /\ got + Asked + 2 <= Frontier
    BY <1>1 DEF ControlInv
  <2>2. base \in Nat /\ Start + 3 <= base /\ base + StackWords + 2 <= Top /\ Top = got - 3
    BY <1>1 DEF ControlInv, Top
  <2>3. StackWords \in Nat
    BY ThreadHeapAssumption
  <2>4. base + 2 <= got - 3
    BY <2>1, <2>2, <2>3
  <2> QED BY <1>2, <2>1, <2>2, <2>4, EdgeIs
<1>4. sp \in Nat /\ Start - 2 <= sp /\ sp + 4 <= got /\ sp + 3 < Frontier /\ e = sp
  <2>1. e = sp
    BY <1>1 DEF Edge
  <2>2. sp \in Nat /\ Start - 2 <= sp
    BY <1>3
  <2>3. sp + 4 <= got /\ sp + 3 < Frontier
    BY <1>3
  <2> HIDE DEF sp, e
  <2> QED BY <2>1, <2>2, <2>3
<1> HIDE DEF sp, e
<1>5. /\ At(mem', got + 1) = sp /\ At(mem', got + 2) = sp /\ Starts(mem', sp)
      /\ Agrees(mem, mem', sp)
      /\ \A x \in Int : got + 3 <= x => At(mem', x) \in {0, At(mem, x)}
  <2>1. got + 3 <= MaxAddress
    BY <1>3
  <2> QED BY <1>1, <1>3, <1>4, <2>1, CreatedIs
<1>6. Frontier' = Frontier /\ Top' = Frontier /\ Edge' = Frontier
  BY <1>1, <1>2 DEF Frontier, Top, Edge
<1>7. HoleInv'
  <2>1. Frontier + 2 \in Int /\ got + 3 <= Frontier + 2
    BY <1>3
  <2>2. SizeAt(mem', Frontier) \in {0, SizeAt(mem, Frontier)}
    BY <1>5, <2>1 DEF SizeAt
  <2> QED BY <1>1, <1>6, <2>2 DEF HoleInv
<1>8. ControlInv'
  <2>1. pc' \in Statements /\ files' \in Nat /\ (now' = 0 /\ ~word0' => stack' = 0)
    BY <1>1, <1>2 DEF ControlInv, Statements
  <2>2. demos' \in 0..MaxDemos /\ Len(added') + Missing' = 2 * demos'
    BY <1>1, <1>2 DEF ControlInv
  <2>3. made' # << >>
    <3>1. made \in Seq([at : Nat \ {0}, sp : Nat])
      BY DEF Data, ContextsIn
    <3> QED BY <1>1, <3>1
  <2> QED BY <1>1, <1>2, <2>1, <2>2, <2>3 DEF ControlInv
<1>9. Data(mem, Edge, nodes, made, q, now, stack, added)'
  <2> DEFINE e2 == Edge'
  <2>1. /\ e \in Int /\ e2 \in Int /\ e <= e2 /\ e <= got /\ e <= sp /\ got + 2 < e2 /\ sp + 3 < e2
        /\ got \in Nat \ {0} /\ Agrees(mem, mem', e)
    BY <1>3, <1>4, <1>5, <1>6
  <2>2. Data(mem, e, nodes, made, q, now, stack, added)
    BY DEF e
  <2> HIDE DEF e2
  <2>3. Data(mem', e2, nodes, Append(made, [at |-> got, sp |-> sp]), q, now, stack, added)
    BY <1>4, <1>5, <2>1, <2>2, ThreadAdded
  <2> QED BY <1>1, <2>3 DEF e2
<1> QED BY <1>7, <1>8, <1>9

(* add_thread, twice in a demo.                                            *)
LEMMA AddThreadKeeps ==
  ASSUME NEW q \in Seq(Nat), RunningInv(q), AddThread, status' = "ok"
  PROVE  \E r \in Seq(Nat) : RunningInv(r)'
<1> USE DEF RunningInv
<1> DEFINE v == Newest.at
           e == Edge
           e2 == Edge'
<1>1. /\ status = "ok" /\ pc \in {"add", "add again"} /\ request = << >> /\ got # 0 /\ got' = 0 /\ pc' = After(pc)
      /\ mem' = Linked(got) /\ added' = Append(added, v)
      /\ now' = (IF first THEN got ELSE now)
      /\ stack' = (IF ~first /\ stack = 0 THEN got ELSE stack)
      /\ UNCHANGED <<index, end, live, request, files, base, word0, nodes, made, demos>>
  BY DEF AddThread, Goes
<1>2. /\ pc' \in {"add again", "idle"} /\ Asked = 1
      /\ \/ Missing = 2 /\ Missing' = 1
         \/ Missing = 1 /\ Missing' = 0
  <2>1. pc' = IF pc = "add" THEN "add again" ELSE "idle"
    BY <1>1 DEF After
  <2>2. Asked = 1 /\ Missing = IF pc = "add" THEN 2 ELSE 1
    BY <1>1 DEF Asked, Missing
  <2>3. Missing' = IF pc = "add" THEN 1 ELSE 0
    BY <2>1 DEF Missing
  <2>4. CASE pc = "add"
    <3>1. pc' = "add again"
      BY <2>1, <2>4
    <3>2. Missing = 2
      BY <2>2, <2>4
    <3>3. Missing' = 1
      BY <2>3, <2>4
    <3> QED BY <2>2, <3>1, <3>2, <3>3
  <2>5. CASE pc = "add again"
    <3>1. pc' = "idle"
      BY <1>1, <2>1, <2>5
    <3>2. Missing = 1
      BY <1>1, <2>2, <2>5
    <3>3. Missing' = 0
      BY <1>1, <2>3, <2>5
    <3> QED BY <2>2, <3>1, <3>2, <3>3
  <2> QED BY <1>1, <2>4, <2>5
<1>18. PICK g \in Nat : g = got
  BY <1>1 DEF ControlInv
<1> DEFINE m1 == Put(mem, g, <<v, 0>>)
<1>3. /\ g \in Nat /\ Start + 3 <= g /\ g + 3 <= Frontier /\ Start \in Nat \ {0}
      /\ Frontier \in Nat /\ Frontier <= MaxAddress /\ MaxAddress \in Nat /\ Top = g - 3
  <2>1. got \in Nat /\ Start + 3 <= got /\ got + Asked + 2 <= Frontier
    BY <1>1 DEF ControlInv
  <2>2. Top = g - 3
    BY <1>1, <1>18 DEF Top
  <2>3. g + 3 <= Frontier
    <3>1. g + 1 + 2 <= Frontier
      BY <1>2, <1>18, <2>1
    <3>2. Frontier \in Nat
      BY EdgeIs
    <3> QED BY <3>1, <3>2
  <2> QED BY <1>18, <2>1, <2>2, <2>3, EdgeIs
<1>4. /\ Frontier' = Frontier /\ e = g - 3 /\ (e2 = Frontier \/ e2 = Frontier - 1)
  <2>1. Frontier' = Frontier
    BY <1>1 DEF Frontier
  <2>2. Top' = Frontier'
    BY <1>1 DEF Top
  <2>3. e = Top
    BY <1>1 DEF Edge
  <2>4. e2 = Top' \/ e2 = Top' - 1
    BY <1>2 DEF Edge
  <2> QED BY <1>3, <2>1, <2>2, <2>3, <2>4
<1>5. (first <=> now = 0 /\ ~word0) /\ made # << >>
  BY <1>1 DEF ControlInv
<1>6. v \in Nat /\ v \in {t.at : t \in ToSet(made)}
  <2> DEFINE T == [at : Nat \ {0}, sp : Nat]
  <2>1. made \in Seq(T)
    BY DEF Data, ContextsIn
  <2> HIDE DEF T
  <2>2. Newest = made[Len(made)] /\ Len(made) \in 1..Len(made)
    BY <1>5, <2>1 DEF Newest, Last
  <2>3. Newest \in ToSet(made)
    BY <2>1, <2>2, Members
  <2>4. v \in Nat
    BY <2>3, ContextTyped DEF Data
  <2> QED BY <2>3, <2>4
<1>7. /\ At(m1, g) = v /\ NextOf(m1, g) = 0
      /\ \A x : x \notin {g, g + 1} => At(m1, x) = At(mem, x)
  <2>1. {g, g + 1} \subseteq Words /\ g + 1 # g
    BY <1>3, WordIs
  <2> HIDE DEF v, m1
  <2>2. \A x : At(m1, x) = IF x \in Words /\ x \in {g, g + 1} THEN (IF x = g THEN v ELSE 0)
                           ELSE At(mem, x)
    BY <1>3, PutTwo DEF m1
  <2> QED BY <2>1, <2>2 DEF NextOf
<1> HIDE DEF v, m1
<1>8. Agrees(mem, m1, e)
  BY <1>3, <1>4, <1>7 DEF Agrees
<1>9. Data(mem, e, nodes, made, q, now, stack, added)
  OBVIOUS
<1>10. Filled(got) = m1
  BY <1>18 DEF Filled, m1, v
<1>11. e \in Int /\ e2 \in Int /\ e <= e2 /\ Start <= g /\ e <= g /\ g + 1 < e2 /\ g \in Nat \ {0}
  BY <1>3, <1>4
<1>12. ControlInv'
  <2>1. pc' \in Statements /\ files' \in Nat
    BY <1>1, <1>2 DEF ControlInv, Statements
  <2>2. now' = 0 /\ ~word0' => stack' = 0
    BY <1>1, <1>5 DEF ControlInv
  <2>3. demos' \in 0..MaxDemos /\ Len(added') + Missing' = 2 * demos'
    <3>1. added \in Seq(Nat)
      BY DEF Data, Holds
    <3>2. Len(added') = Len(added) + 1 /\ Len(added) \in Nat
      <4> HIDE DEF v
      <4>1. Len(Append(added, v)) = Len(added) + 1 /\ Len(added) \in Nat
        BY <1>6, <3>1
      <4> QED BY <1>1, <4>1
    <3>3. Len(added) + Missing = 2 * demos /\ demos \in 0..MaxDemos
      BY DEF ControlInv
    <3>4. demos' = demos
      BY <1>1
    <3>5. Len(added') + Missing' = Len(added) + Missing
      <4>1. CASE Missing = 2 /\ Missing' = 1
        BY <3>2, <4>1
      <4>2. CASE Missing = 1 /\ Missing' = 0
        BY <3>2, <4>2
      <4> QED BY <1>2, <4>1, <4>2
    <3> QED BY <3>3, <3>4, <3>5
  <2> QED BY <1>1, <1>2, <1>5, <2>1, <2>2, <2>3 DEF ControlInv
<1>13. ASSUME \A x \in Int : g + 2 <= x => At(mem', x) = At(mem, x) PROVE HoleInv'
  <2>1. Frontier + 2 \in Int /\ g + 2 <= Frontier + 2
    BY <1>3
  <2>2. SizeAt(mem', Frontier) = SizeAt(mem, Frontier)
    BY <1>13, <2>1 DEF SizeAt
  <2> QED BY <1>1, <1>4, <2>2 DEF HoleInv
<1>14. \A x \in Int : g + 2 <= x => At(m1, x) = At(mem, x)
  BY <1>3, <1>7
<1> HIDE DEF e, e2
<1>15. CASE first
  <2>1. now = 0 /\ stack = 0 /\ mem' = m1 /\ now' = g /\ stack' = 0
    BY <1>1, <1>5, <1>10, <1>15, <1>18 DEF ControlInv, Linked
  <2>2. Data(mem, e, nodes, made, q, 0, 0, added)
    BY <1>9, <2>1
  <2>3. Data(m1, e2, nodes, made, q, g, 0, Append(added, v))
    BY <1>6, <1>7, <1>8, <1>11, <2>2, FirstAdded
  <2>4. Data(mem, Edge, nodes, made, q, now, stack, added)'
    BY <1>1, <2>1, <2>3 DEF e2
  <2> QED BY <1>12, <1>13, <1>14, <2>1, <2>4
<1>16. CASE ~first /\ stack = 0
  <2>1. mem' = m1 /\ now' = now /\ stack' = g
    BY <1>1, <1>10, <1>16, <1>18 DEF Linked
  <2>2. Data(mem, e, nodes, made, q, now, 0, added)
    BY <1>9, <1>16
  <2>3. Data(m1, e2, nodes, made, <<g>>, now, g, Append(added, v))
    BY <1>6, <1>7, <1>8, <1>11, <2>2, SecondAdded
  <2>4. Data(mem, Edge, nodes, made, <<g>>, now, stack, added)'
    BY <1>1, <2>1, <2>3 DEF e2
  <2>5. <<g>> \in Seq(Nat)
    BY <1>11
  <2> QED BY <1>12, <1>13, <1>14, <2>1, <2>4, <2>5
<1>17. CASE ~first /\ stack # 0
  <2> DEFINE z == q[Len(q)]
  <2>1. now' = now /\ stack' = stack
    BY <1>1, <1>17
  <2>2. q # << >>
    BY <1>17 DEF Data, NodesIn
  <2>3. Data(m1, e, nodes, made, q, now, stack, added)
    BY <1>8, <1>9, <1>11, DataKept
  <2>4. Len(q) <= 2 * MaxDemos
    BY <1>1, RunningKept DEF Running
  <2>5. Len(q) \in 1..Len(q) /\ LastNode(m1, stack) = z
    BY <2>2, <2>3, <2>4, LastNodeIs DEF Data
  <2>6. mem' = Put(m1, z + 1, <<g>>)
    BY <1>1, <1>10, <1>17, <1>18, <2>5 DEF Linked
  <2>7. z \in Nat /\ Start <= z /\ z + 1 < e
    BY <2>3, <2>5 DEF Data, NodesIn
  <2>8. z + 1 \in Words /\ z + 1 \in Int /\ z + 1 < g
    BY <1>3, <1>4, <1>11, <2>7, WordIs
  <2> HIDE DEF z
  <2>9. \A x : At(mem', x) = IF x \in Words /\ x = z + 1 THEN g ELSE At(m1, x)
    BY <2>6, <2>8, PutOne
  <2>10. At(mem', q[Len(q)] + 1) = g /\ \A x : x # q[Len(q)] + 1 => At(mem', x) = At(m1, x)
    BY <2>8, <2>9 DEF z
  <2>11. Data(mem', e2, nodes, made, Append(q, g), now, stack, Append(added, v))
    BY <1>6, <1>7, <1>8, <1>9, <1>11, <2>2, <2>10, LinkAdded
  <2>12. Data(mem, Edge, nodes, made, Append(q, g), now, stack, added)'
    BY <1>1, <2>1, <2>11 DEF e2
  <2>13. Append(q, g) \in Seq(Nat)
    BY <1>11
  <2>14. HoleInv'
    <3>1. \A x \in Int : g + 2 <= x => At(mem', x) = At(mem, x)
      BY <1>11, <1>14, <2>8, <2>9
    <3> QED BY <1>13, <3>1
  <2> QED BY <1>12, <2>12, <2>13, <2>14
<1> QED BY <1>15, <1>16, <1>17
(* The tick links the last node to now and loads the first thread.         *)
LEMMA TickKeeps ==
  ASSUME Running, NEW q \in Seq(Nat), RunningInv(q), Tick
  PROVE  ThreadInv'
<1> USE DEF RunningInv
<1> DEFINE z == q[Len(q)]
<1>1. /\ pc = "idle" /\ stack # 0 /\ pc' = "switched"
      /\ mem' = Put(mem, LastNode(mem, stack) + 1, <<now>>)
      /\ loaded'.esp = At(mem', At(mem', stack) + 1)
      /\ loaded'.ebp = At(mem', At(mem', stack) + 2)
      /\ UNCHANGED <<request, nodes, made>>
  BY DEF Tick
<1>2. request' = << >>
  BY <1>1 DEF ControlInv
<1>3. Edge \in Int /\ Edge <= MaxAddress /\ Start \in Nat \ {0}
  BY EdgeIs
<1>4. q # << >> /\ stack = q[1] /\ Len(q) \in 1..Len(q) /\ LastNode(mem, stack) = z
  <2>1. q # << >>
    BY <1>1 DEF Data, NodesIn
  <2>2. Len(q) <= 2 * MaxDemos
    BY RunningKept
  <2> QED BY <2>1, <2>2, LastNodeIs DEF Data
<1>5. \A i \in 1..Len(q) : q[i] \in Nat /\ (i # Len(q) => q[i] + 1 < z)
  BY <1>4 DEF Data, NodesIn
<1> DEFINE k == Len(q)
<1> HIDE DEF z, k
<1>6. \A x : x # q[k] + 1 => At(mem', x) = At(mem, x)
  <2>1. z + 1 \in Int /\ q[k] = z
    BY <1>4, <1>5 DEF z, k
  <2>2. \A x : At(mem', x) = IF x \in Words /\ x = z + 1 THEN now ELSE At(mem, x)
    BY <1>1, <1>4, <2>1, PutOne
  <2> QED BY <2>1, <2>2
<1>7. FilesIn(mem', Edge, nodes) /\ ContextsIn(mem', Edge, made)
  <2>1. k \in 1..Len(q) /\ LinksApart(q, nodes, made)
    BY <1>4 DEF Data, k
  <2>2. FilesIn(mem, Edge, nodes) /\ ContextsIn(mem, Edge, made)
    BY DEF Data
  <2> QED BY <1>3, <1>6, <2>1, <2>2, LinkWritten
<1>8. PICK t \in ToSet(made) : At(mem', stack) = t.at
  <2>1. q[1] # q[k] + 1
    <3>1. 1 \in 1..k /\ k \in 1..k /\ q[k] = z
      BY <1>4 DEF k, z
    <3>2. q[1] \in Nat /\ z \in Nat /\ (1 # k => q[1] + 1 < z)
      BY <1>5, <3>1 DEF k
    <3> QED BY <3>1, <3>2
  <2>2. At(mem', stack) = At(mem, q[1])
    BY <1>4, <1>6, <2>1
  <2>3. added[1 + Offset(now)] = At(mem, q[1]) /\ 1 + Offset(now) \in 1..Len(added)
    <3>1. 1 \in 1..Len(q) /\ Offset(now) \in {0, 1}
      BY <1>4 DEF Offset
    <3>2. Len(added) = Len(q) + Offset(now) /\ added[1 + Offset(now)] = At(mem, q[1])
      BY <3>1 DEF Data, Holds
    <3>3. 1 + Offset(now) \in 1..(Len(q) + Offset(now))
      BY <3>1
    <3> QED BY <3>2, <3>3
  <2>4. added[1 + Offset(now)] \in {t.at : t \in ToSet(made)}
    BY <2>3 DEF Data
  <2> QED BY <2>2, <2>3, <2>4
<1>9. \A u \in ToSet(made) :
         At(mem', u.at + 1) = u.sp /\ At(mem', u.at + 2) = u.sp /\ Starts(mem', u.sp)
  BY <1>7 DEF ContextsIn
<1>10. loaded'.esp = t.sp /\ loaded'.ebp = t.sp
  BY <1>1, <1>8, <1>9
<1>11. \A u \in ToSet(made) : [i \in 1..4 |-> At(mem', u.sp + i - 1)] = Pushed
  BY <1>9, StartsIs
<1>12. FilesKept'
  BY <1>1, <1>3, <1>7, FilesReadable DEF FilesKept, Payload
<1>13. ContextsKept'
  <2>1. \A u \in ToSet(made') :
           At(mem', u.at + 1) = u.sp /\ At(mem', u.at + 2) = u.sp /\ StartsAt(u.sp)'
    BY <1>1, <1>9, <1>11 DEF StartsAt
  <2>2. loaded'.esp = loaded'.ebp /\ StartsAt(loaded.esp)'
    BY <1>10, <1>11 DEF StartsAt
  <2> QED BY <2>1, <2>2 DEF ContextsKept
<1> QED BY <1>1, <1>2, <1>12, <1>13 DEF ThreadInv, Running
-----------------------------------------------------------------------------
LEMMA InitThreadInv == InitThreads => ThreadInv
<1> SUFFICES ASSUME InitThreads PROVE ThreadInv
  OBVIOUS
<1> DEFINE q == << >>
           l == InitialEnd - Start
           m0 == [x \in Words |-> 0]
<1>1. /\ mem = Put(m0, Start, Header(1, l)) /\ index = <<Start>> /\ end = InitialEnd
      /\ request = << >> /\ status = "ok" /\ live = {}
      /\ pc = "root" /\ files \in 0..MaxFiles /\ got = 0 /\ now = 0 /\ stack = 0
      /\ nodes = {} /\ made = << >> /\ added = << >> /\ demos = 0
  BY DEF InitThreads, Init
<1>2. /\ Start \in Nat \ {0} /\ InitialEnd \in Nat /\ MaxAddress \in Nat /\ Start + 5 <= InitialEnd
      /\ InitialEnd <= MaxAddress
  BY HeapAssumption
<1>3. Frontier = Start /\ Top = Start /\ Edge = Start - 1
  BY <1>1 DEF Frontier, Top, Edge
<1>4. SizeAt(mem, Start) = l
  <2> HIDE DEF m0, l
  <2>1. Start + 2 \in Words
    BY <1>2, WordIs
  <2>2. Start \in Int /\ Start + 2 # Start /\ Start + 2 # Start + 1
    BY <1>2
  <2>3. At(mem, Start + 2) = l
    BY <1>1, <2>1, <2>2, PutThree DEF Header
  <2> QED BY <2>3 DEF SizeAt
<1>5. HoleInv
  BY <1>1, <1>2, <1>3, <1>4 DEF HoleInv
<1>6. ControlInv
  <2>1. demos \in 0..MaxDemos /\ Len(added) + Missing = 2 * demos
    BY <1>1, ThreadHeapAssumption DEF Missing
  <2> QED BY <1>1, <2>1 DEF ControlInv, Statements
<1>7. Data(mem, Edge, nodes, made, q, now, stack, added)
  <2>1. FilesIn(mem, Edge, nodes) /\ LinksApart(q, nodes, made)
    BY <1>1 DEF FilesIn, LinksApart
  <2>2. ContextsIn(mem, Edge, made)
    BY <1>1 DEF ContextsIn, ToSet
  <2>3. NodesIn(mem, Edge, q, now, stack)
    BY <1>1 DEF NodesIn
  <2>4. Holds(mem, q, now, added)
    BY <1>1 DEF Holds, Offset
  <2>5. \A i \in 1..Len(added) : added[i] \in {t.at : t \in ToSet(made)}
    BY <1>1
  <2> QED BY <2>1, <2>2, <2>3, <2>4, <2>5 DEF Data
<1>8. q \in Seq(Nat)
  OBVIOUS
<1> QED BY <1>1, <1>5, <1>6, <1>7, <1>8 DEF ThreadInv, Running, RunningInv

LEMMA StepThreadInv == ASSUME ThreadInv, NextThreads PROVE ThreadInv'
<1>1. Running
  <2>1. status = "ok"
    BY DEF NextThreads, Call, Alloc, Expand, Grow, Return, Place, Directories, Demo, Stack, Thread,
           AddThread, Goes, Tick
  <2>2. pc # "switched"
    <3>1. pc \in ToSet(InitDirectories) => pc # "switched"
      BY DEF ToSet, InitDirectories
    <3>2. request # << >> => pc # "switched"
      BY DEF ThreadInv
    <3> HIDE DEF ThreadInv
    <3> QED BY <3>1, <3>2 DEF NextThreads, Call, Expand, Grow, Return, Place, Directories, Demo,
               Stack, Thread, AddThread, Tick
  <2> QED BY <2>1, <2>2 DEF Running
<1>2. PICK q \in Seq(Nat) : RunningInv(q)
  BY <1>1 DEF ThreadInv
<1>3. ASSUME NEW r \in Seq(Nat), RunningInv(r)', pc' # "switched", status' = "ok" PROVE ThreadInv'
  BY <1>3 DEF ThreadInv, Running
<1>5. CASE Call
  <2>1. status' = "ok" /\ pc' # "switched"
    BY <1>1, <1>5 DEF Call, Alloc, Running
  <2> QED BY <1>2, <1>3, <1>5, <2>1, CallKeeps
<1>6. CASE Expand
  <2>1. pc' # "switched" /\ UNCHANGED <<nodes, made>>
    BY <1>1, <1>6 DEF Expand, tvars, Running
  <2>2. CASE status' = "ok"
    BY <1>2, <1>3, <1>6, <2>1, <2>2, ExpandKeeps
  <2>3. CASE status' # "ok"
    <3>1. UNCHANGED mem
      BY <1>1, <1>6, <2>3 DEF Expand, Grow, Halt, Running
    <3> QED BY <1>1, <1>2, <2>1, <2>3, <3>1, HaltKeeps
  <2> QED BY <2>2, <2>3
<1>7. CASE Return
  <2>1. pc' # "switched" /\ UNCHANGED <<nodes, made>>
    BY <1>1, <1>7 DEF Return, Running
  <2>2. CASE status' = "ok"
    BY <1>2, <1>3, <1>7, <2>1, <2>2, ReturnKeeps
  <2>3. CASE status' # "ok"
    <3>1. UNCHANGED mem
      BY <1>1, <1>7, <2>3 DEF Return, Place, Halt, Running
    <3> QED BY <1>1, <1>2, <2>1, <2>3, <3>1, HaltKeeps
  <2> QED BY <2>2, <2>3
<1>8. CASE Directories
  <2>1. pc' # "switched"
    BY <1>1, <1>8 DEF Directories, Goes, After
  <2>2. CASE status' = "ok"
    BY <1>2, <1>3, <1>8, <2>1, <2>2, DirectoriesKeep
  <2>3. CASE status' # "ok"
    <3>1. UNCHANGED <<mem, nodes, made>>
      BY <1>8, <2>3 DEF Directories, Goes
    <3> QED BY <1>1, <1>2, <2>1, <2>3, <3>1, HaltKeeps
  <2> QED BY <2>2, <2>3
<1>9. CASE Demo
  <2>1. status' = "ok" /\ pc' # "switched"
    BY <1>9 DEF Demo, vars
  <2> QED BY <1>2, <1>3, <1>9, <2>1, DemoKeeps
<1>10. CASE Stack
  <2>1. status' = "ok" /\ pc' # "switched"
    <3>1. Reach(got, 0, backed)
      <4>1. got \in Int
        BY <1>2, <1>10 DEF RunningInv, ControlInv, Stack, Goes
      <4>2. got..(got + 0 - 1) = {}
        BY <4>1
      <4> QED BY <4>2 DEF Reach
    <3> QED BY <1>10, <3>1 DEF Stack, Goes, After
  <2> QED BY <1>2, <1>3, <1>10, <2>1, StackKeeps
<1>11. CASE Thread
  <2>1. pc' # "switched"
    BY <1>1, <1>11 DEF Thread, Goes, After
  <2>2. CASE status' = "ok"
    BY <1>2, <1>3, <1>11, <2>1, <2>2, ThreadKeeps
  <2>3. CASE status' # "ok"
    <3>1. UNCHANGED <<mem, nodes, made>>
      BY <1>11, <2>3 DEF Thread, Goes
    <3> QED BY <1>1, <1>2, <2>1, <2>3, <3>1, HaltKeeps
  <2> QED BY <2>2, <2>3
<1>12. CASE AddThread
  <2>1. pc' # "switched"
    BY <1>1, <1>12 DEF AddThread, Goes, After
  <2>2. CASE status' = "ok"
    <3>1. PICK r \in Seq(Nat) : RunningInv(r)'
      BY <1>2, <1>12, <2>2, AddThreadKeeps
    <3> QED BY <1>3, <2>1, <2>2, <3>1
  <2>3. CASE status' # "ok"
    <3>1. UNCHANGED <<mem, nodes, made>>
      BY <1>12, <2>3 DEF AddThread, Goes
    <3> QED BY <1>1, <1>2, <2>1, <2>3, <3>1, HaltKeeps
  <2> QED BY <2>2, <2>3
<1>13. CASE Tick
  BY <1>1, <1>2, <1>13, TickKeeps
<1> QED BY <1>5, <1>6, <1>7, <1>8, <1>9, <1>10, <1>11, <1>12, <1>13 DEF NextThreads

LEMMA StutterThreadInv == ASSUME ThreadInv, UNCHANGED <<vars, tvars>> PROVE ThreadInv'
<1>1. /\ UNCHANGED <<mem, index, end, backed, request, status, live, frees>>
      /\ UNCHANGED <<pc, files, got, base, first, word0, now, stack, loaded, nodes, made, added, demos>>
  BY DEF vars, tvars
<1>2. CASE Running
  <2>1. PICK q \in Seq(Nat) : RunningInv(q)
    BY <1>2 DEF ThreadInv
  <2>2. Frontier' = Frontier /\ Top' = Top /\ Edge' = Edge /\ Asked' = Asked /\ Missing' = Missing
    BY <1>1 DEF Frontier, Top, Edge, Asked, Missing
  <2>3. HoleInv'
    BY <1>1, <2>1, <2>2 DEF RunningInv, HoleInv, SizeAt, At
  <2>4. ControlInv'
    BY <1>1, <2>1, <2>2 DEF RunningInv, ControlInv
  <2>5. RunningInv(q)'
    BY <1>1, <2>1, <2>2, <2>3, <2>4 DEF RunningInv
  <2> QED BY <1>1, <1>2, <2>5 DEF ThreadInv, Running
<1>3. CASE ~Running
  <2>1. FilesKept' /\ ContextsKept'
    BY <1>1, <1>3 DEF ThreadInv, FilesKept, Payload, ContextsKept, StartsAt, At
  <2> QED BY <1>1, <1>3, <2>1 DEF ThreadInv, Running
<1> QED BY <1>2, <1>3

(* For every size of the heap, of a node and of a stack, and however often *)
(* the demo is typed: create_thread and add_thread, which write more words *)
(* than they ask kmalloc for, spoil neither a file of the image nor the    *)
(* registers and the stack of a thread that is not running yet, and the    *)
(* links that they write lead the scheduler through every thread in order. *)
THEOREM ThreadsSafe == SpecThreads => [](ContextsKept /\ FilesKept /\ QueueKept)
<1>1. InitThreads => ThreadInv
  BY InitThreadInv
<1>2. ThreadInv /\ [NextThreads]_<<vars, tvars>> => ThreadInv'
  BY StepThreadInv, StutterThreadInv
<1>3. ThreadInv => ContextsKept /\ FilesKept /\ QueueKept
  <2> SUFFICES ASSUME ThreadInv PROVE ContextsKept /\ FilesKept /\ QueueKept
    OBVIOUS
  <2>1. CASE Running
    BY <2>1, RunningKept DEF ThreadInv
  <2>2. CASE ~Running
    BY <2>2 DEF ThreadInv, Running, QueueKept
  <2> QED BY <2>1, <2>2
<1> QED BY <1>1, <1>2, <1>3, PTL DEF SpecThreads
=============================================================================
