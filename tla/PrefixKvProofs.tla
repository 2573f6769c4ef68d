---------------------------- MODULE PrefixKvProofs ----------------------------
(***************************************************************************)
(* Prefix reuse, for any slots, prompts, models, bounds and faults: a      *)
(* bound request always has a token left to prefill, and, as long as no    *)
(* bind keeps an anchor of other tokens than its own, its cells are those  *)
(* of its own text, whatever tier they came from.  And of requests with    *)
(* images: the cells are those of this prompt, images and all.             *)
(***************************************************************************)
EXTENDS PrefixKv, VisionKv, FoldLemmas

-----------------------------------------------------------------------------
(* Least and greatest.                                                      *)

\* What Least picks.
LEMMA LeastPicks ==
  ASSUME NEW T \in SUBSET Nat, T # {}
  PROVE  Least(T) \in T /\ \A x \in T : Least(T) <= x
<1>1. \E z \in T : \A x \in T : z <= x
  BY LeastNat
<1> QED
  BY <1>1 DEF Least

\* What Most picks from a bounded set.
LEMMA MostPicks ==
  ASSUME NEW T \in SUBSET Nat, T # {}, NEW b \in Nat, \A x \in T : x <= b
  PROVE  Most(T) \in T /\ \A x \in T : x <= Most(T)
<1> DEFINE D == {n \in Nat : \E x \in T : n = b - x}
<1>1. D \in SUBSET Nat
  OBVIOUS
<1>2. D # {}
  <2>1. PICK x \in T : TRUE
    OBVIOUS
  <2>2. b - x \in Nat
    BY <2>1
  <2> QED
    BY <2>1, <2>2
<1>3. PICK m \in D : \A k \in D : m <= k
  <2> HIDE DEF D
  <2> QED
    BY <1>1, <1>2, LeastNat
<1>4. PICK y \in T : m = b - y
  BY <1>3
<1>5. ASSUME NEW x \in T PROVE x <= y
  <2>1. b - x \in D
    OBVIOUS
  <2>2. m <= b - x
    BY <1>3, <2>1
  <2> QED
    BY <1>4, <2>2
<1>6. \E z \in T : \A x \in T : x <= z
  BY <1>5
<1> QED
  BY <1>6 DEF Most

\* What Longest picks from keys of bounded length.
LEMMA LongestPicks ==
  ASSUME NEW K \in SUBSET Seq(Nat), K # {}, NEW b \in Nat, \A k \in K : Len(k) <= b
  PROVE  Longest(K) \in K /\ \A k \in K : Len(k) <= Len(Longest(K))
<1> DEFINE T == {Len(k) : k \in K}
<1>1. T \in SUBSET Nat
  BY LenProperties
<1>2. T # {} /\ \A x \in T : x <= b
  OBVIOUS
<1>3. Most(T) \in T /\ \A x \in T : x <= Most(T)
  <2> HIDE DEF T
  <2> QED
    BY <1>1, <1>2, MostPicks
<1>4. PICK z \in K : Most(T) = Len(z)
  BY <1>3
<1>5. \A k \in K : Len(k) <= Len(z)
  BY <1>3, <1>4
<1>6. \E w \in K : \A k \in K : Len(k) <= Len(w)
  BY <1>5
<1> QED
  BY <1>6 DEF Longest

-----------------------------------------------------------------------------
(* Beginnings.                                                              *)

\* The first k tokens of two texts are the same.
Agree(a, b, k) == \A i \in 1 .. k : a[i] = b[i]

\* The first n tokens of a text.
LEMMA UptoIs ==
  ASSUME NEW q \in Seq(Nat), NEW n \in Nat, n <= Len(q)
  PROVE  /\ Upto(q, n) \in Seq(Nat) /\ Len(Upto(q, n)) = n
         /\ Agree(Upto(q, n), q, n)
<1>1. Len(q) \in Nat /\ n \in Int
  BY LenProperties
<1>2. \A i \in 1 .. n : q[i] \in Nat
  BY <1>1, ElementOfSeq
<1>3. /\ SubSeq(q, 1, n) \in Seq(Nat)
      /\ Len(SubSeq(q, 1, n)) = IF 1 <= n THEN n - 1 + 1 ELSE 0
      /\ \A i \in 1 .. n - 1 + 1 : SubSeq(q, 1, n)[i] = q[1 + i - 1]
  BY <1>1, <1>2, SubSeqProperties
<1>4. Len(SubSeq(q, 1, n)) = n
  BY <1>1, <1>3
<1>5. \A i \in 1 .. n : i \in 1 .. n - 1 + 1 /\ 1 + i - 1 = i
  BY <1>1
<1>6. \A i \in 1 .. n : SubSeq(q, 1, n)[i] = q[i]
  BY <1>3, <1>5
<1> QED
  BY <1>3, <1>4, <1>6 DEF Upto, Agree

\* What agrees with a text over its whole length is a beginning of it.
LEMMA AgreeIsUpto ==
  ASSUME NEW q \in Seq(Nat), NEW n \in Nat, n <= Len(q),
         NEW a \in Seq(Nat), Len(a) = n, Agree(a, q, n)
  PROVE  a = Upto(q, n)
<1> DEFINE u == Upto(q, n)
<1>1. u \in Seq(Nat) /\ Len(u) = n /\ Agree(u, q, n)
  BY UptoIs
<1> HIDE DEF u
<1>2. \A i \in 1 .. n : a[i] = u[i]
  BY <1>1 DEF Agree
<1>3. a = u
  BY <1>1, <1>2, SeqEqual
<1> QED
  BY <1>3 DEF u

\* A beginning of what agrees with a text is a beginning of the text.
LEMMA UptoOfAgreeing ==
  ASSUME NEW q \in Seq(Nat), NEW n \in Nat, n <= Len(q),
         NEW a \in Seq(Nat), n <= Len(a), Agree(a, q, n)
  PROVE  Upto(a, n) = Upto(q, n)
<1> DEFINE u == Upto(a, n)
<1>1. u \in Seq(Nat) /\ Len(u) = n /\ Agree(u, a, n)
  BY UptoIs
<1> HIDE DEF u
<1>2. Agree(u, q, n)
  BY <1>1 DEF Agree
<1>3. u = Upto(q, n)
  BY <1>1, <1>2, AgreeIsUpto
<1> QED
  BY <1>3 DEF u

\* A prefix agrees with what it is a prefix of.
LEMMA PrefixAgrees ==
  ASSUME NEW k \in Seq(Nat), NEW p \in Seq(Nat), IsPrefix(k, p)
  PROVE  Len(k) <= Len(p) /\ k = Upto(p, Len(k)) /\ Agree(k, p, Len(k))
<1>1. Len(k) \in Nat /\ Len(k) <= Len(p) /\ Upto(k, Len(k)) = Upto(p, Len(k))
  BY LenProperties DEF IsPrefix, Upto
<1> DEFINE u == Upto(k, Len(k))
           v == Upto(p, Len(k))
<1>2. u \in Seq(Nat) /\ Len(u) = Len(k) /\ Agree(u, k, Len(k))
  BY <1>1, UptoIs
<1>3. Agree(v, p, Len(k))
  BY <1>1, UptoIs
<1>4. u = v
  BY <1>1
<1> HIDE DEF u, v
<1>5. \A i \in 1 .. Len(k) : k[i] = u[i]
  BY <1>2 DEF Agree
<1>6. k = u
  BY <1>2, <1>5, SeqEqual
<1>7. Agree(k, p, Len(k))
  BY <1>3, <1>4, <1>5 DEF Agree
<1> QED
  BY <1>1, <1>4, <1>6, <1>7 DEF v

\* What two texts have in common at their beginning.
LEMMA CommonIs ==
  ASSUME NEW a \in Seq(Nat), NEW b \in Seq(Nat)
  PROVE  /\ Common(a, b) \in Nat /\ Common(a, b) <= Len(a) /\ Common(a, b) <= Len(b)
         /\ Agree(a, b, Common(a, b))
<1> DEFINE C == CommonPrefixes({a, b})
<1>1. \A c \in C : c \in Seq(Nat) /\ IsPrefix(c, a) /\ IsPrefix(c, b)
  <2>1. ASSUME NEW c \in C
        PROVE  c \in Seq(Nat) /\ IsPrefix(c, a) /\ IsPrefix(c, b)
    <3>1. /\ IsPrefix(c, a) /\ IsPrefix(c, b)
          /\ \E q \in {a, b} : \E l \in 0 .. Len(q) : c = Upto(q, l)
      BY DEF CommonPrefixes, Prefixes, Upto
    <3>2. PICK q \in {a, b} : \E l \in 0 .. Len(q) : c = Upto(q, l)
      BY <3>1
    <3>3. PICK l \in 0 .. Len(q) : c = Upto(q, l)
      BY <3>2
    <3>4. q \in Seq(Nat) /\ Len(q) \in Nat
      BY <3>2, LenProperties
    <3>5. l \in Nat /\ l <= Len(q)
      BY <3>3, <3>4
    <3> QED
      BY <3>1, <3>3, <3>4, <3>5, UptoIs
  <2> QED
    BY <2>1
<1>2. C # {}
  <2>1. Len(a) \in Nat /\ Len(b) \in Nat
    BY LenProperties
  <2> DEFINE e == Upto(a, 0)
  <2>2. e \in Seq(Nat) /\ Len(e) = 0 /\ 0 \in 0 .. Len(a)
    BY <2>1, UptoIs
  <2>3. \A q \in {a, b} : IsPrefix(e, q)
    <3>1. ASSUME NEW q \in {a, b} PROVE IsPrefix(e, q)
      <4>1. Upto(q, 0) \in Seq(Nat) /\ Len(Upto(q, 0)) = 0
        BY <2>1, UptoIs
      <4>2. Upto(e, 0) \in Seq(Nat) /\ Len(Upto(e, 0)) = 0
        <5> HIDE DEF e
        <5> QED
          BY <2>2, UptoIs
      <4>3. Upto(e, 0) = Upto(q, 0)
        <5> HIDE DEF e
        <5> DEFINE u == Upto(e, 0)
                   v == Upto(q, 0)
        <5>1. u \in Seq(Nat) /\ v \in Seq(Nat) /\ Len(u) = 0 /\ Len(v) = 0
          BY <4>1, <4>2
        <5> HIDE DEF u, v
        <5>2. u = v
          BY <5>1, EmptySeq
        <5> QED
          BY <5>2 DEF u, v
      <4> HIDE DEF e
      <4> QED
        BY <2>1, <2>2, <4>3 DEF IsPrefix, Upto
    <3> QED
      BY <3>1
  <2>4. e \in Prefixes(a)
    BY <2>2 DEF Prefixes, Upto
  <2> HIDE DEF e
  <2>5. e \in C
    BY <2>3, <2>4 DEF CommonPrefixes
  <2> QED
    BY <2>5
<1> HIDE DEF C
<1>3. /\ C \in SUBSET Seq(Nat) /\ Len(a) \in Nat
      /\ \A c \in C : Len(c) <= Len(a)
  BY <1>1, LenProperties DEF IsPrefix
<1>4. Longest(C) \in C /\ \A k \in C : Len(k) <= Len(Longest(C))
  BY <1>2, <1>3, LongestPicks
<1>5. \E w \in C : \A k \in C : Len(k) <= Len(w)
  BY <1>4
<1>6. LongestCommonPrefix({a, b}) \in C
  BY <1>5 DEF LongestCommonPrefix, C
<1> DEFINE l == LongestCommonPrefix({a, b})
<1>7. l \in Seq(Nat) /\ IsPrefix(l, a) /\ IsPrefix(l, b)
  BY <1>1, <1>6
<1> HIDE DEF l
<1>8. /\ Len(l) \in Nat /\ Len(l) <= Len(a) /\ Agree(l, a, Len(l))
      /\ Len(l) <= Len(b) /\ Agree(l, b, Len(l))
  BY <1>7, PrefixAgrees, LenProperties
<1>9. Agree(a, b, Len(l))
  BY <1>8 DEF Agree
<1> QED
  BY <1>8, <1>9 DEF Common, l

-----------------------------------------------------------------------------
(* The inductive invariant.                                                 *)

\* Anchors: each has as many cells as it is long, and there is a longest.
Anchors(c) ==
  /\ \A m \in DOMAIN c : m \in Nat /\ c[m] \in Seq(Nat) /\ Len(c[m]) = m
  /\ \E b \in Nat : \A m \in DOMAIN c : m <= b

\* Snapshots of a store: each has as many cells as its key has tokens.
Filed(f) == \A k \in DOMAIN f : k \in Seq(Nat) /\ f[k] \in Seq(Nat) /\ Len(f[k]) = Len(k)

Jobs == [prompt : Seq(Nat), n : Nat, gen : Seq(Nat), stop : Nat, pre : Nat]

\* A running job has a cell for each token up to its position; before its
\* first token that is short of the prompt, and later one short of the text.
Placed(s) ==
  /\ job[s].prompt \in Prompts
  /\ Len(gpu[s]) = job[s].n
  /\ IF Len(job[s].gen) = 0 THEN job[s].n < Len(job[s].prompt)
     ELSE job[s].n = Len(job[s].prompt) + Len(job[s].gen) - 1

Typed ==
  /\ arch \in Archs
  /\ gpu \in [Slots -> Seq(Nat)]
  /\ mem \in [Slots -> Seq(Nat)]
  /\ job \in [Slots -> Jobs]
  /\ DOMAIN chain = Slots /\ \A s \in Slots : Anchors(chain[s])
  /\ kept \in SUBSET Slots /\ \A s \in kept : Idle(s)
  /\ Filed(store) /\ Filed(disk)

Sized == Typed /\ \A s \in Slots : ~Idle(s) => Placed(s)

\* One text and then another, by a name the provers need not open.
Then(a, b) == a \o b

\* A running job: its cells and the anchors of its slot are its own text's.
Own(s) ==
  /\ Agree(gpu[s], Then(job[s].prompt, job[s].gen), job[s].n)
  /\ \A m \in DOMAIN chain[s] :
       m <= Len(job[s].prompt) /\ Agree(chain[s][m], job[s].prompt, m)

\* An idle slot: cells that are still there are those it remembers, or it
\* remembers nothing; anchors agree with as much as it remembers.
Left(s) ==
  /\ mem[s] = <<>> \/ gpu[s] = <<>> \/ gpu[s] = mem[s]
  /\ \A m \in DOMAIN chain[s] :
       \A i \in 1 .. m : i <= Len(mem[s]) => chain[s][m][i] = mem[s][i]

Honest ==
  /\ HostHonest
  /\ MemoryHonest
  /\ \A s \in Slots : IF Idle(s) THEN Left(s) ELSE Own(s)

\* A bind keeps an anchor that holds other tokens than the prompt bound: of
\* the session before it, one token past the match, or of any session when
\* the new one came from the store (prune_chain_beyond_reuse).
KeepsForeignAnchor ==
  \E s \in Slots :
    /\ Idle(s) /\ ~Idle(s)'
    /\ \E m \in DOMAIN chain'[s] : ~Agree(chain'[s][m], job'[s].prompt, m)

-----------------------------------------------------------------------------
(* Bind.                                                                    *)

\* Where the first k cells of data may come from.
Source(s, p, data, k) ==
  \/ k = 0
  \/ /\ k <= Common(mem[s], p)
     /\ data = gpu[s] \/ \E m \in DOMAIN chain[s] : data = chain[s][m]
  \/ \E x \in DOMAIN store : IsPrefix(x, p) /\ data = store[x]
  \/ \E x \in DOMAIN disk : IsPrefix(x, p) /\ data = disk[x]

\* The reuse leaves a token, and matches what the slot remembers.
LEMMA ReuseIs ==
  ASSUME NEW s \in Slots, NEW p \in Prompts, Typed
  PROVE  /\ p \in Seq(Nat) /\ Len(p) \in Nat /\ Len(p) > 0
         /\ ReuseForBind(s, p) \in Nat /\ ReuseForBind(s, p) <= Len(p) - 1
         /\ ReuseForBind(s, p) <= Common(mem[s], p)
<1>1. p \in Seq(Nat) /\ p # <<>> /\ mem[s] \in Seq(Nat) /\ gpu[s] \in Seq(Nat)
  BY PromptsAssumption DEF Typed
<1>2. Len(p) \in Nat /\ Len(p) > 0 /\ Len(gpu[s]) \in Nat
  BY <1>1, EmptySeq, LenProperties
<1>3. Common(mem[s], p) \in Nat
  BY <1>1, CommonIs
<1>4. LatestAnchor(s) \in Nat
  <2>1. Anchors(chain[s])
    BY DEF Typed
  <2>2. PICK b \in Nat : \A m \in DOMAIN chain[s] : m <= b
    BY <2>1 DEF Anchors
  <2> DEFINE T == {0} \cup DOMAIN chain[s]
  <2>3. T \in SUBSET Nat /\ T # {} /\ \A x \in T : x <= b
    BY <2>1, <2>2 DEF Anchors
  <2> HIDE DEF T
  <2>4. Most(T) \in Nat
    BY <2>3, MostPicks
  <2> QED
    BY <2>4 DEF T, LatestAnchor
<1>5. Most({Len(gpu[s]), LatestAnchor(s)}) \in Nat
  <2> DEFINE x == Len(gpu[s])
             y == LatestAnchor(s)
             T == {x, y}
  <2>1. x \in Nat /\ y \in Nat
    BY <1>2, <1>4
  <2> HIDE DEF x, y
  <2>2. \E b \in Nat : x <= b /\ y <= b
    <3>1. CASE x <= y
      BY <2>1, <3>1
    <3>2. CASE y <= x
      BY <2>1, <3>2
    <3> QED
      BY <2>1, <3>1, <3>2
  <2>3. PICK b \in Nat : \A z \in T : z <= b
    BY <2>2
  <2>4. T \in SUBSET Nat /\ T # {}
    BY <2>1
  <2> HIDE DEF T
  <2>5. Most(T) \in Nat
    BY <2>3, <2>4, MostPicks
  <2> QED
    BY <2>5 DEF T, x, y
<1> DEFINE a == Common(mem[s], p)
           c == Most({Len(gpu[s]), LatestAnchor(s)})
           T == {a, Len(p) - 1, c}
<1>6. T \in SUBSET Nat /\ T # {} /\ a \in T /\ Len(p) - 1 \in T
  <2>1. a \in Nat /\ c \in Nat /\ Len(p) - 1 \in Nat
    BY <1>2, <1>3, <1>5
  <2> HIDE DEF a, c
  <2> QED
    BY <2>1
<1> HIDE DEF T
<1>7. Least(T) \in Nat /\ Least(T) <= a /\ Least(T) <= Len(p) - 1
  BY <1>6, LeastPicks
<1>8. Least(T) = ReuseForBind(s, p)
  BY DEF T, ReuseForBind
<1> QED
  BY <1>1, <1>2, <1>7, <1>8

\* The smaller of two numbers, by Least.
LEMMA LeastOfTwo ==
  ASSUME NEW a \in Nat, NEW b \in Nat
  PROVE  Least({a, b}) \in Nat /\ Least({a, b}) <= a /\ Least({a, b}) <= b
<1> DEFINE T == {a, b}
<1>1. T \in SUBSET Nat /\ T # {} /\ a \in T /\ b \in T
  OBVIOUS
<1> HIDE DEF T
<1>2. Least(T) \in T /\ \A x \in T : Least(T) <= x
  BY <1>1, LeastPicks
<1> QED
  BY <1>1, <1>2 DEF T

\* What a bind settles on.
SettledFrom(s, p, r) ==
  \E data \in Seq(Nat), k \in Nat, tokens \in {<<>>, mem[s]} :
    /\ k <= Len(data) /\ k < Len(p)
    /\ r = Settled(s, Upto(data, k), tokens, k)
    /\ Source(s, p, data, k)

\* A full prefill is one of them.
LEMMA ColdIs ==
  ASSUME NEW s \in Slots, NEW p \in Prompts, Typed
  PROVE  SettledFrom(s, p, Cold(s))
<1>1. Len(p) \in Nat /\ Len(p) > 0
  BY ReuseIs
<1>2. PICK e \in Seq(Nat), z \in Nat : e = <<>> /\ z = 0 /\ z <= Len(e)
  <2>1. \E e \in Seq(Nat) : e = <<>> /\ Len(e) = 0
    BY EmptySeq
  <2>2. PICK e \in Seq(Nat) : e = <<>> /\ Len(e) = 0
    BY <2>1
  <2>3. 0 <= Len(e)
    BY <2>2
  <2> QED
    BY <2>2, <2>3
<1>3. Upto(e, z) = e
  <2>1. Upto(e, z) \in Seq(Nat) /\ Len(Upto(e, z)) = z
    BY <1>2, UptoIs
  <2> QED
    BY <1>2, <2>1, EmptySeq
<1>4. Cold(s) = Settled(s, Upto(e, z), <<>>, z)
  BY <1>2, <1>3 DEF Cold
<1>5. Source(s, p, e, z)
  BY <1>2 DEF Source
<1>6. z <= Len(e) /\ z < Len(p)
  BY <1>1, <1>2
<1>7. \E tokens \in {<<>>, mem[s]} : Cold(s) = Settled(s, Upto(e, z), tokens, z)
  BY <1>4
<1> QED
  BY <1>5, <1>6, <1>7 DEF SettledFrom

\* From the store or the disk.
LEMMA FromHostIs ==
  ASSUME NEW s \in Slots, NEW p \in Prompts, Typed,
         NEW n \in Nat, n <= Len(p) - 1, NEW r \in FromHost(s, p, n)
  PROVE  SettledFrom(s, p, r)
<1>1. p \in Seq(Nat) /\ Len(p) \in Nat /\ Len(p) > 0 /\ SettledFrom(s, p, Cold(s))
  BY ReuseIs, ColdIs
<1>2. SearchLen(p, n) \in Nat /\ SearchLen(p, n) < Len(p)
  BY <1>1 DEF SearchLen
<1>3. Filed(store) /\ Filed(disk)
  BY DEF Typed
<1> DEFINE tokens == IF n = 0 THEN <<>> ELSE mem[s]
           ram == Longest(InRam(p, n))
           stays == Least({SearchLen(p, n), Len(ram)})
           key == Longest(OnDisk(p, n))
<1>4. tokens \in {<<>>, mem[s]}
  OBVIOUS
<1>5. CASE OnDisk(p, n) # {} /\ r \in Restored(s, Settled(s, disk[key], tokens, Len(key)))
  <2>1. OnDisk(p, n) \in SUBSET Seq(Nat) /\ \A k \in OnDisk(p, n) : Len(k) <= SearchLen(p, n)
    BY <1>3 DEF OnDisk, Filed
  <2>2. key \in OnDisk(p, n)
    BY <1>2, <1>5, <2>1, LongestPicks
  <2> HIDE DEF key, tokens
  <2>3. key \in DOMAIN disk /\ IsPrefix(key, p) /\ Len(key) <= SearchLen(p, n)
    BY <2>2 DEF OnDisk
  <2>4. /\ key \in Seq(Nat) /\ disk[key] \in Seq(Nat) /\ Len(disk[key]) = Len(key)
        /\ Len(key) \in Nat /\ Len(key) < Len(p)
    BY <1>1, <1>2, <1>3, <2>3, LenProperties DEF Filed
  <2>5. disk[key] = Upto(disk[key], Len(key))
    <3> DEFINE d == disk[key]
    <3>1. d \in Seq(Nat) /\ Len(d) = Len(key) /\ Agree(d, d, Len(key))
      BY <2>4 DEF Agree
    <3> HIDE DEF d
    <3>2. d = Upto(d, Len(key))
      BY <2>4, <3>1, AgreeIsUpto
    <3> QED
      BY <3>2 DEF d
  <2>6. Source(s, p, disk[key], Len(key))
    BY <2>3 DEF Source
  <2>7. SettledFrom(s, p, Settled(s, disk[key], tokens, Len(key)))
    <3> DEFINE d == disk[key]
               k == Len(key)
    <3>1. /\ d \in Seq(Nat) /\ k \in Nat /\ k <= Len(d) /\ k < Len(p)
          /\ Source(s, p, d, k) /\ Settled(s, d, tokens, k) = Settled(s, Upto(d, k), tokens, k)
      BY <2>4, <2>5, <2>6
    <3> HIDE DEF d, k
    <3>2. SettledFrom(s, p, Settled(s, d, tokens, k))
      BY <1>4, <3>1 DEF SettledFrom
    <3> QED
      BY <3>2 DEF d, k
  <2> QED
    BY <1>1, <1>5, <2>7 DEF Restored
<1>6. CASE /\ InRam(p, n) # {} /\ Trims(store[ram], stays)
           /\ r \in Restored(s, Settled(s, Upto(store[ram], stays), tokens, stays))
  <2>1. /\ InRam(p, n) \in SUBSET Seq(Nat) /\ SearchLen(p, n) + 1 \in Nat
        /\ \A k \in InRam(p, n) : Len(k) <= SearchLen(p, n) + 1
    BY <1>2, <1>3 DEF InRam, Filed
  <2>2. ram \in InRam(p, n)
    BY <1>6, <2>1, LongestPicks
  <2>3. ram \in DOMAIN store /\ IsPrefix(ram, p)
    BY <2>2 DEF InRam
  <2>4. ram \in Seq(Nat) /\ store[ram] \in Seq(Nat) /\ Len(ram) \in Nat
    BY <1>3, <2>3, LenProperties DEF Filed
  <2>5. stays \in Nat /\ stays <= SearchLen(p, n)
    <3> HIDE DEF ram
    <3> QED
      BY <1>2, <2>4, LeastOfTwo
  <2>6. stays < Len(p)
    <3> HIDE DEF stays
    <3> QED
      BY <1>1, <1>2, <2>5
  <2> HIDE DEF ram, stays, tokens
  <2>7. stays <= Len(store[ram])
    BY <1>6 DEF Trims
  <2>8. Source(s, p, store[ram], stays)
    BY <2>3 DEF Source
  <2>9. SettledFrom(s, p, Settled(s, Upto(store[ram], stays), tokens, stays))
    BY <1>4, <2>4, <2>5, <2>6, <2>7, <2>8 DEF SettledFrom
  <2> QED
    BY <1>1, <1>6, <2>9 DEF Restored
<1>7. \/ OnDisk(p, n) # {} /\ r \in Restored(s, Settled(s, disk[key], tokens, Len(key)))
      \/ /\ InRam(p, n) # {} /\ Trims(store[ram], stays)
         /\ r \in Restored(s, Settled(s, Upto(store[ram], stays), tokens, stays))
      \/ r = Cold(s)
  BY DEF FromHost
<1> QED
  BY <1>1, <1>5, <1>6, <1>7

\* From an anchor.
LEMMA FromAnchorIs ==
  ASSUME NEW s \in Slots, NEW p \in Prompts, Typed,
         NEW n \in Nat, n <= Len(p) - 1, n <= Common(mem[s], p),
         FittingAnchors(s, n) # {}, NEW r \in FromAnchor(s, n)
  PROVE  SettledFrom(s, p, r)
<1>1. Len(p) \in Nat /\ Len(p) > 0 /\ SettledFrom(s, p, Cold(s))
  BY ReuseIs, ColdIs
<1>2. Common(mem[s], p) \in Nat
  BY PromptsAssumption, CommonIs DEF Typed
<1>3. Anchors(chain[s])
  BY DEF Typed
<1> DEFINE F == FittingAnchors(s, n)
           m == Most(F)
           stays == Least({n, m})
           data == chain[s][m]
<1>4. F \in SUBSET Nat /\ F # {} /\ n + 1 \in Nat /\ \A x \in F : x <= n + 1
  BY <1>3 DEF FittingAnchors, Anchors
<1>5. m \in F
  <2> HIDE DEF F
  <2> QED
    BY <1>4, MostPicks
<1>6. m \in DOMAIN chain[s] /\ m \in Nat /\ data \in Seq(Nat)
  <2>1. m \in DOMAIN chain[s]
    BY <1>5 DEF FittingAnchors
  <2> HIDE DEF m
  <2> QED
    BY <1>3, <2>1 DEF Anchors
<1> HIDE DEF m
<1>7. stays \in Nat /\ stays <= n
  BY <1>6, LeastOfTwo
<1>8. \/ r = Cold(s)
      \/ Trims(data, stays) /\ r = Settled(s, Upto(data, stays), mem[s], stays)
  BY DEF FromAnchor, Restored, m, F
<1> HIDE DEF stays
<1>9. Source(s, p, data, stays)
  BY <1>2, <1>6, <1>7 DEF Source
<1> HIDE DEF data
<1>10. CASE Trims(data, stays) /\ r = Settled(s, Upto(data, stays), mem[s], stays)
  <2>1. stays <= Len(data) /\ stays < Len(p)
    BY <1>1, <1>7, <1>10 DEF Trims
  <2>2. \E tokens \in {<<>>, mem[s]} : r = Settled(s, Upto(data, stays), tokens, stays)
    BY <1>10
  <2> QED
    BY <1>6, <1>7, <1>9, <2>1, <2>2 DEF SettledFrom
<1> QED
  BY <1>1, <1>8, <1>10

\* Whatever a bind settles on.
LEMMA SettleIs ==
  ASSUME NEW s \in Slots, NEW p \in Prompts, Typed, NEW r \in SettlePrefixKv(s, p)
  PROVE  SettledFrom(s, p, r)
<1> DEFINE n == ReuseForBind(s, p)
<1>1. /\ Len(p) \in Nat /\ n \in Nat /\ n <= Len(p) - 1
      /\ n <= Common(mem[s], p)
  BY ReuseIs
<1>2. gpu[s] \in Seq(Nat) /\ Common(mem[s], p) \in Nat
  BY PromptsAssumption, CommonIs DEF Typed
<1>3. \/ Trims(gpu[s], n) /\ r = Settled(s, Upto(gpu[s], n), mem[s], n)
      \/ FittingAnchors(s, n) # {} /\ r \in FromAnchor(s, n)
      \/ r \in FromHost(s, p, n)
  BY DEF SettlePrefixKv
<1> HIDE DEF n
<1>4. CASE Trims(gpu[s], n) /\ r = Settled(s, Upto(gpu[s], n), mem[s], n)
  <2>1. n <= Len(gpu[s]) /\ n < Len(p)
    BY <1>1, <1>4 DEF Trims
  <2>2. Source(s, p, gpu[s], n)
    BY <1>1 DEF Source
  <2>3. \E tokens \in {<<>>, mem[s]} : r = Settled(s, Upto(gpu[s], n), tokens, n)
    BY <1>4
  <2> QED
    BY <1>1, <1>2, <2>1, <2>2, <2>3 DEF SettledFrom
<1>5. CASE FittingAnchors(s, n) # {} /\ r \in FromAnchor(s, n)
  BY <1>1, <1>5, FromAnchorIs
<1>6. CASE r \in FromHost(s, p, n)
  BY <1>1, <1>6, FromHostIs
<1> QED
  BY <1>3, <1>4, <1>5, <1>6

\* How many cells a bound prompt has, and what becomes of the anchors.
LEMMA SettleSized ==
  ASSUME NEW s \in Slots, NEW p \in Prompts, Typed, NEW r \in SettlePrefixKv(s, p)
  PROVE  /\ r.n \in Nat /\ r.n < Len(p)
         /\ r.gpu \in Seq(Nat) /\ Len(r.gpu) = r.n
         /\ r.mem \in {<<>>, mem[s]}
         /\ Anchors(r.chain)
         /\ \A m \in DOMAIN r.chain :
              m \in DOMAIN chain[s] /\ r.chain[m] = chain[s][m] /\ m <= r.n + 1
<1>1. PICK data \in Seq(Nat), k \in Nat, tokens \in {<<>>, mem[s]} :
        /\ k <= Len(data) /\ k < Len(p)
        /\ r = Settled(s, Upto(data, k), tokens, k)
  BY SettleIs DEF SettledFrom
<1>2. Upto(data, k) \in Seq(Nat) /\ Len(Upto(data, k)) = k
  BY <1>1, UptoIs
<1>3. /\ r.n = k /\ r.gpu = Upto(data, k) /\ r.mem = tokens
      /\ r.chain = Prune(chain[s], k)
  BY <1>1 DEF Settled
<1>4. \A m \in DOMAIN r.chain :
        m \in DOMAIN chain[s] /\ r.chain[m] = chain[s][m] /\ m <= k + 1
  BY <1>3 DEF Prune, Restrict
<1>5. Anchors(r.chain)
  <2>1. Anchors(chain[s])
    BY DEF Typed
  <2> QED
    BY <1>4, <2>1 DEF Anchors
<1> QED
  BY <1>1, <1>2, <1>3, <1>4, <1>5

\* The cells a bound prompt has are its own.
LEMMA SettleHonest ==
  ASSUME NEW s \in Slots, NEW p \in Prompts, Typed, HostHonest, Left(s),
         NEW r \in SettlePrefixKv(s, p)
  PROVE  Agree(r.gpu, p, r.n)
<1>1. PICK data \in Seq(Nat), k \in Nat, tokens \in {<<>>, mem[s]} :
        /\ k <= Len(data) /\ k < Len(p)
        /\ r = Settled(s, Upto(data, k), tokens, k)
        /\ Source(s, p, data, k)
  BY SettleIs DEF SettledFrom
<1>2. r.n = k /\ r.gpu = Upto(data, k)
  BY <1>1 DEF Settled
<1>3. Agree(Upto(data, k), data, k)
  BY <1>1, UptoIs
<1>4. /\ p \in Seq(Nat) /\ mem[s] \in Seq(Nat) /\ gpu[s] \in Seq(Nat)
      /\ Len(mem[s]) \in Nat /\ Len(data) \in Nat
  BY PromptsAssumption, LenProperties DEF Typed
<1>5. /\ Common(mem[s], p) \in Nat /\ Common(mem[s], p) <= Len(mem[s])
      /\ Agree(mem[s], p, Common(mem[s], p))
  BY <1>4, CommonIs
<1>6. Agree(data, p, k)
  <2>1. CASE k = 0
    BY <2>1 DEF Agree
  <2>2. CASE k # 0 /\ k <= Common(mem[s], p) /\ data = gpu[s]
    <3>1. data # <<>> /\ mem[s] # <<>>
      BY <1>1, <1>4, <1>5, <2>2, EmptySeq
    <3>2. data = mem[s]
      BY <2>2, <3>1 DEF Left
    <3>3. \A i \in 1 .. k : i \in 1 .. Common(mem[s], p)
      BY <1>1, <1>5, <2>2
    <3>4. \A i \in 1 .. k : mem[s][i] = p[i]
      BY <1>5, <3>3 DEF Agree
    <3> QED
      BY <3>2, <3>4 DEF Agree
  <2>3. ASSUME k <= Common(mem[s], p), NEW m \in DOMAIN chain[s], data = chain[s][m]
        PROVE  Agree(data, p, k)
    <3>1. m \in Nat /\ Len(data) = m
      BY <2>3 DEF Typed, Anchors
    <3>2. \A i \in 1 .. k : i \in 1 .. m /\ i <= Len(mem[s]) /\ i \in 1 .. Common(mem[s], p)
      <4> DEFINE c == Common(mem[s], p)
                 l == Len(mem[s])
      <4>1. k \in Nat /\ k <= m /\ k <= c /\ c <= l /\ m \in Nat /\ c \in Nat /\ l \in Nat
        BY <1>1, <1>4, <1>5, <2>3, <3>1
      <4> HIDE DEF c, l
      <4>2. \A i \in 1 .. k : i \in 1 .. m /\ i <= l /\ i \in 1 .. c
        BY <4>1
      <4> QED
        BY <4>2 DEF c, l
    <3>3. \A i \in 1 .. k : data[i] = mem[s][i]
      BY <2>3, <3>2 DEF Left
    <3>4. \A i \in 1 .. k : mem[s][i] = p[i]
      BY <1>5, <3>2 DEF Agree
    <3> QED
      BY <3>3, <3>4 DEF Agree
  <2>4. ASSUME NEW x \in Seq(Nat), IsPrefix(x, p), data = x
        PROVE  Agree(data, p, k)
    <3>1. Agree(x, p, Len(x))
      BY <1>4, <2>4, PrefixAgrees
    <3>2. \A i \in 1 .. k : i \in 1 .. Len(x)
      BY <1>1, <1>4, <2>4
    <3> QED
      BY <2>4, <3>1, <3>2 DEF Agree
  <2>5. ASSUME NEW x \in DOMAIN store, IsPrefix(x, p), data = store[x]
        PROVE  Agree(data, p, k)
    BY <2>4, <2>5 DEF HostHonest, Typed, Filed
  <2>6. ASSUME NEW x \in DOMAIN disk, IsPrefix(x, p), data = disk[x]
        PROVE  Agree(data, p, k)
    BY <2>4, <2>6 DEF HostHonest, Typed, Filed
  <2> QED
    BY <1>1, <2>1, <2>2, <2>3, <2>5, <2>6 DEF Source
<1> DEFINE u == Upto(data, k)
<1>7. Agree(u, p, k)
  <2> HIDE DEF u
  <2>1. Agree(u, data, k)
    BY <1>3 DEF u
  <2> QED
    BY <1>6, <2>1 DEF Agree
<1> QED
  BY <1>2, <1>7

-----------------------------------------------------------------------------
(* Prefill and decode.                                                      *)

\* No job.
LEMMA NoJobIs == NoJob \in Jobs /\ <<>> \in Seq(Nat) /\ Len(<<>>) = 0
BY EmptySeq DEF NoJob, Jobs

\* A chunk never goes past the prompt.
LEMMA LimitIs ==
  ASSUME NEW j \in Jobs, j.n <= Len(j.prompt), NEW take \in 1 .. Limit(j)
  PROVE  take \in Nat /\ take >= 1 /\ j.n + take <= Len(j.prompt)
<1>1. j.n \in Nat /\ Len(j.prompt) \in Nat /\ j.stop \in Nat /\ j.pre \in Nat
  BY LenProperties DEF Jobs
<1> DEFINE stops == {m \in {j.stop, j.pre} : m # 0}
           left == Len(j.prompt) - j.n
           most == Least(stops) - j.n
<1>2. left \in Nat
  BY <1>1
<1>3. CASE stops # {} /\ Least(stops) > j.n
  <2>1. stops \in SUBSET Nat
    BY <1>1
  <2>2. Least(stops) \in Nat
    <3> HIDE DEF stops
    <3> QED
      BY <1>3, <2>1, LeastPicks
  <2>3. most \in Nat
    <3> HIDE DEF stops
    <3> QED
      BY <1>1, <1>3, <2>2
  <2>4. Limit(j) = Least({left, most})
    BY <1>3 DEF Limit
  <2> HIDE DEF left, most
  <2>5. Limit(j) \in Nat /\ Limit(j) <= left
    BY <1>2, <2>3, <2>4, LeastOfTwo
  <2> QED
    BY <1>1, <2>5 DEF left
<1>4. CASE ~(stops # {} /\ Least(stops) > j.n)
  <2>1. Limit(j) = left
    BY <1>4 DEF Limit
  <2> HIDE DEF stops
  <2> QED
    BY <1>1, <1>2, <2>1
<1> QED
  BY <1>3, <1>4

\* The cells after a chunk.
Grown(held, p, n, take) == held \o SubSeq(p, n + 1, n + take)

\* They are as many as the position, and a prompt's own cells stay its own.
LEMMA GrownIs ==
  ASSUME NEW held \in Seq(Nat), NEW p \in Seq(Nat), NEW n \in Nat, Len(held) = n,
         NEW take \in Nat, take >= 1, n + take <= Len(p)
  PROVE  /\ Grown(held, p, n, take) \in Seq(Nat)
         /\ Len(Grown(held, p, n, take)) = n + take
         /\ Agree(held, p, n) => Agree(Grown(held, p, n, take), p, n + take)
<1> DEFINE c == SubSeq(p, n + 1, n + take)
<1>1. Len(p) \in Nat /\ n + 1 \in Int /\ n + take \in Int /\ n + 1 <= n + take
  BY LenProperties
<1>2. \A i \in n + 1 .. n + take : p[i] \in Nat
  <2>1. \A i \in n + 1 .. n + take : i \in 1 .. Len(p)
    BY <1>1
  <2> QED
    BY <2>1, ElementOfSeq
<1>3. /\ c \in Seq(Nat)
      /\ Len(c) = IF n + 1 <= n + take THEN n + take - (n + 1) + 1 ELSE 0
      /\ \A i \in 1 .. n + take - (n + 1) + 1 : c[i] = p[n + 1 + i - 1]
  BY <1>1, <1>2, SubSeqProperties
<1>4. Len(c) = take
  BY <1>1, <1>3
<1>5. \A i \in 1 .. take : c[i] = p[n + i]
  <2>1. \A i \in 1 .. take : i \in 1 .. n + take - (n + 1) + 1 /\ n + 1 + i - 1 = n + i
    BY <1>1
  <2> QED
    BY <1>3, <2>1
<1> HIDE DEF c
<1> DEFINE g == held \o c
<1>6. /\ g \in Seq(Nat) /\ Len(g) = Len(held) + Len(c)
      /\ \A i \in 1 .. Len(held) + Len(c) :
           g[i] = IF i <= Len(held) THEN held[i] ELSE c[i - Len(held)]
  BY <1>3, ConcatProperties
<1> HIDE DEF g
<1>7. Len(g) = n + take
  BY <1>4, <1>6
<1>8. ASSUME Agree(held, p, n) PROVE Agree(g, p, n + take)
  <2>1. ASSUME NEW i \in 1 .. n + take PROVE g[i] = p[i]
    <3>1. g[i] = IF i <= n THEN held[i] ELSE c[i - n]
      BY <1>4, <1>6
    <3>2. CASE i <= n
      BY <1>8, <3>1, <3>2 DEF Agree
    <3>3. CASE ~(i <= n)
      <4>1. i - n \in 1 .. take /\ n + (i - n) = i
        BY <3>3
      <4>2. c[i - n] = p[n + (i - n)]
        BY <1>5, <4>1
      <4> QED
        BY <3>1, <3>3, <4>1, <4>2
    <3> QED
      BY <3>2, <3>3
  <2> QED
    BY <2>1 DEF Agree
<1> QED
  BY <1>6, <1>7, <1>8 DEF Grown, g, c

\* Anchors after a push: the new one, and some of the old.
LEMMA PushedIs ==
  ASSUME NEW c, NEW n, NEW data
  PROVE  \A m \in DOMAIN Pushed(c, n, data) :
           \/ m = n /\ Pushed(c, n, data)[m] = data
           \/ m \in DOMAIN c /\ Pushed(c, n, data)[m] = c[m]
<1> DEFINE f == Put(c, n, data)
           q == Trimmed(f)
<1>1. \E T \in SUBSET DOMAIN f : q = [x \in T |-> f[x]]
  BY DEF Trimmed, Restrict
<1>2. \A m \in DOMAIN q : m \in DOMAIN f /\ q[m] = f[m]
  <2> HIDE DEF f, q
  <2> QED
    BY <1>1
<1>3. \A m \in DOMAIN f :
        \/ m = n /\ f[m] = data
        \/ m \in DOMAIN c /\ f[m] = c[m]
  BY DEF Put
<1> HIDE DEF f
<1> QED
  BY <1>2, <1>3 DEF Pushed, f

\* A store after a put: the new entry, and some of the old.
LEMMA BoundedIs ==
  ASSUME NEW f, NEW k, NEW data, NEW max, NEW g \in Bounded(Put(f, k, data), max)
  PROVE  \A x \in DOMAIN g :
           \/ x = k /\ g[x] = data
           \/ x \in DOMAIN f /\ g[x] = f[x]
<1> DEFINE q == Put(f, k, data)
<1>1. \A x \in DOMAIN q :
        \/ x = k /\ q[x] = data
        \/ x \in DOMAIN f /\ q[x] = f[x]
  BY DEF Put
<1>2. g \in Bounded(q, max)
  OBVIOUS
<1> HIDE DEF q
<1>3. g = q \/ \E v : g = [x \in DOMAIN q \ {v} |-> q[x]]
  BY <1>2 DEF Bounded, Restrict
<1>4. \A x \in DOMAIN g : x \in DOMAIN q /\ g[x] = q[x]
  BY <1>3
<1> QED
  BY <1>1, <1>4

\* One more anchor is an anchor.
LEMMA PushedAnchors ==
  ASSUME NEW c, Anchors(c), NEW n \in Nat, NEW data \in Seq(Nat), Len(data) = n
  PROVE  Anchors(Pushed(c, n, data))
<1> DEFINE q == Pushed(c, n, data)
<1>1. \A m \in DOMAIN q :
        \/ m = n /\ q[m] = data
        \/ m \in DOMAIN c /\ q[m] = c[m]
  BY PushedIs
<1> HIDE DEF q
<1>2. \A m \in DOMAIN q : m \in Nat /\ q[m] \in Seq(Nat) /\ Len(q[m]) = m
  BY <1>1 DEF Anchors
<1>3. PICK b \in Nat : \A m \in DOMAIN c : m <= b
  BY DEF Anchors
<1>4. b + n \in Nat /\ \A m \in DOMAIN q : m <= b + n
  BY <1>1, <1>2, <1>3
<1>5. Anchors(q)
  BY <1>2, <1>4 DEF Anchors
<1> QED
  BY <1>5 DEF q

\* The store and the disk after a put.
LEMMA PutFiled ==
  ASSUME NEW f, Filed(f), NEW k \in Seq(Nat), NEW data \in Seq(Nat), Len(data) = Len(k),
         NEW max, NEW g \in Bounded(Put(f, k, data), max)
  PROVE  Filed(g)
<1>1. \A x \in DOMAIN g :
        \/ x = k /\ g[x] = data
        \/ x \in DOMAIN f /\ g[x] = f[x]
  BY BoundedIs
<1> QED
  BY <1>1 DEF Filed

\* What a chunk does: the position, the cells, and what may become of the
\* tiers.
LEMMA PrefillIs ==
  ASSUME Sized, NEW s \in Slots, NEW take \in 1 .. Limit(job[s]), Prefill(s, take)
  PROVE  \E n \in Nat, held \in Seq(Nat), gen \in Seq(Nat) :
           /\ n <= Len(job[s].prompt) /\ n > 0 /\ Len(held) = n
           /\ Agree(gpu[s], job[s].prompt, job[s].n) => Agree(held, job[s].prompt, n)
           /\ IF Len(gen) = 0 THEN n < Len(job[s].prompt)
              ELSE n = Len(job[s].prompt) /\ Len(gen) = 1
           /\ gpu' = [gpu EXCEPT ![s] = held]
           /\ \E stop \in Nat, pre \in Nat :
                job' = [job EXCEPT ![s] = [prompt |-> job[s].prompt, n |-> n, gen |-> gen,
                                           stop |-> stop, pre |-> pre]]
           /\ \/ chain' = chain
              \/ \E others : /\ chain' = [chain EXCEPT ![s] = Pushed(others, n, held)]
                            /\ Anchors(others)
                            /\ \A m \in DOMAIN others :
                                 m \in DOMAIN chain[s] /\ others[m] = chain[s][m]
           /\ \/ store' = store
              \/ store' \in Bounded(Put(store, Upto(job[s].prompt, n), held), StoreMax)
           /\ \/ disk' = disk
              \/ disk' \in Bounded(Put(disk, Upto(job[s].prompt, n), held), DiskMax)
<1> DEFINE j == job[s]
           n == j.n + take
           held == Grown(gpu[s], j.prompt, j.n, take)
           done == n = Len(j.prompt)
           demand == j.stop # 0 /\ n >= j.stop
           atPre == j.pre # 0 /\ n >= j.pre
           others == IF (n \in StubLens \/ demand) /\ n \in Window
                     THEN Restrict(chain[s], {m \in DOMAIN chain[s] : m \notin Window \/ m = n})
                     ELSE chain[s]
<1>1. ~Idle(s) /\ j.gen = <<>> /\ Placed(s)
  BY DEF Prefill, Prefilling, Sized
<1>2. j \in Jobs /\ gpu[s] \in Seq(Nat) /\ Anchors(chain[s])
  BY DEF Sized, Typed
<1>3. /\ j.prompt \in Seq(Nat) /\ j.n \in Nat /\ j.stop \in Nat /\ j.pre \in Nat
      /\ Len(j.prompt) \in Nat
  BY <1>2, LenProperties DEF Jobs
<1>4. Len(gpu[s]) = j.n /\ j.n < Len(j.prompt)
  BY <1>1, NoJobIs DEF Placed
<1>5. take \in Nat /\ take >= 1 /\ n <= Len(j.prompt)
  <2>1. take \in 1 .. Limit(j) /\ j.n <= Len(j.prompt)
    BY <1>3, <1>4
  <2> HIDE DEF j
  <2> QED
    BY <1>2, <2>1, LimitIs
<1>6. n \in Nat /\ n > 0
  BY <1>3, <1>5
<1>7. /\ held \in Seq(Nat) /\ Len(held) = n
      /\ Agree(gpu[s], j.prompt, j.n) => Agree(held, j.prompt, n)
  <2> DEFINE a == gpu[s]
             p == j.prompt
             m == j.n
  <2>1. /\ a \in Seq(Nat) /\ p \in Seq(Nat) /\ m \in Nat /\ Len(a) = m
        /\ take \in Nat /\ take >= 1 /\ m + take <= Len(p)
    BY <1>2, <1>3, <1>4, <1>5
  <2> HIDE DEF a, p, m
  <2>2. /\ Grown(a, p, m, take) \in Seq(Nat) /\ Len(Grown(a, p, m, take)) = m + take
        /\ Agree(a, p, m) => Agree(Grown(a, p, m, take), p, m + take)
    BY <2>1, GrownIs
  <2> QED
    BY <2>2 DEF a, p, m
<1>8. PICK t \in Gen :
        job' = [job EXCEPT ![s] =
                  [prompt |-> j.prompt, n |-> n, gen |-> IF done THEN <<t>> ELSE <<>>,
                   stop |-> IF demand THEN 0 ELSE j.stop,
                   pre |-> IF atPre THEN 0 ELSE j.pre]]
  BY DEF Prefill
<1> DEFINE gen == IF done THEN <<t>> ELSE <<>>
           stop == IF demand THEN 0 ELSE j.stop
           pre == IF atPre THEN 0 ELSE j.pre
<1>9. /\ gen \in Seq(Nat)
      /\ IF Len(gen) = 0 THEN n < Len(j.prompt) ELSE n = Len(j.prompt) /\ Len(gen) = 1
  <2>1. <<t>> \in Seq(Nat) /\ Len(<<t>>) = 1
    BY PromptsAssumption
  <2>2. CASE done
    BY <2>1, <2>2
  <2>3. CASE ~done
    BY <1>3, <1>5, <1>6, <2>3, NoJobIs
  <2> QED
    BY <2>2, <2>3
<1>10. stop \in Nat /\ pre \in Nat
  BY <1>3
<1>12. job' = [job EXCEPT ![s] = [prompt |-> j.prompt, n |-> n, gen |-> gen,
                                  stop |-> stop, pre |-> pre]]
  BY <1>8
<1>13. gpu' = [gpu EXCEPT ![s] = held]
  BY DEF Prefill, Grown
<1>14. /\ Anchors(others)
       /\ \A m \in DOMAIN others : m \in DOMAIN chain[s] /\ others[m] = chain[s][m]
  <2>1. \A m \in DOMAIN others : m \in DOMAIN chain[s] /\ others[m] = chain[s][m]
    BY DEF Restrict
  <2> HIDE DEF others
  <2> QED
    BY <1>2, <2>1 DEF Anchors
<1>15. chain' = chain \/ chain' = [chain EXCEPT ![s] = Pushed(others, n, held)]
  BY DEF Prefill, Grown
<1>16. /\ store' = store \/ store' \in Bounded(Put(store, Upto(j.prompt, n), held), StoreMax)
       /\ disk' = disk \/ disk' \in Bounded(Put(disk, Upto(j.prompt, n), held), DiskMax)
  BY DEF Prefill, Grown, SnapshotKey
<1> HIDE DEF n, held, others, gen, stop, pre, j
<1>17. \/ chain' = chain
       \/ \E o : /\ chain' = [chain EXCEPT ![s] = Pushed(o, n, held)]
                 /\ Anchors(o)
                 /\ \A m \in DOMAIN o : m \in DOMAIN chain[s] /\ o[m] = chain[s][m]
  BY <1>14, <1>15
<1> QED
  BY <1>5, <1>6, <1>7, <1>9, <1>10, <1>12, <1>13, <1>16, <1>17 DEF j

-----------------------------------------------------------------------------
(* Sizes.                                                                   *)

\* A slot without anchors.
LEMMA NoAnchors == Anchors(NoFun) /\ Filed(NoFun) /\ DOMAIN NoFun = {}
<1>1. DOMAIN NoFun = {}
  BY DEF NoFun
<1>2. 0 \in Nat /\ \A m \in DOMAIN NoFun : m <= 0
  BY <1>1
<1> QED
  BY <1>1, <1>2 DEF Anchors, Filed

\* Sizes hold after a step of one slot if they hold in it.
LEMMA SlotSized ==
  ASSUME Sized, NEW s \in Slots, NEW j \in Jobs, NEW held \in Seq(Nat),
         job' = [job EXCEPT ![s] = j], gpu' = [gpu EXCEPT ![s] = held],
         arch' = arch, mem' \in [Slots -> Seq(Nat)],
         DOMAIN chain' = Slots, \A t \in Slots : Anchors(chain'[t]),
         kept' \in SUBSET Slots,
         \A t \in kept' : (t = s /\ j = NoJob) \/ (t \in kept /\ t # s),
         Filed(store'), Filed(disk'),
         j # NoJob => /\ j.prompt \in Prompts /\ Len(held) = j.n
                      /\ IF Len(j.gen) = 0 THEN j.n < Len(j.prompt)
                         ELSE j.n = Len(j.prompt) + Len(j.gen) - 1
  PROVE  Sized'
<1>1. Typed
  BY DEF Sized
<1>2. job' \in [Slots -> Jobs] /\ gpu' \in [Slots -> Seq(Nat)]
  BY <1>1 DEF Typed
<1>3. /\ job'[s] = j /\ gpu'[s] = held
      /\ \A t \in Slots : t # s => job'[t] = job[t] /\ gpu'[t] = gpu[t]
  BY <1>1 DEF Typed
<1>4. \A t \in kept' : Idle(t)'
  BY <1>1, <1>3 DEF Typed, Idle
<1>5. Typed'
  BY <1>1, <1>2, <1>4 DEF Typed
<1>6. ASSUME NEW t \in Slots, ~Idle(t)' PROVE Placed(t)'
  <2>1. CASE t = s
    BY <1>3, <1>6, <2>1 DEF Placed, Idle
  <2>2. CASE t # s
    <3>1. ~Idle(t)
      BY <1>3, <1>6, <2>2 DEF Idle
    <3>2. Placed(t)
      BY <3>1 DEF Sized
    <3> QED
      BY <1>3, <2>2, <3>2 DEF Placed
  <2> QED
    BY <2>1, <2>2
<1> QED
  BY <1>5, <1>6 DEF Sized

\* A bind.
LEMMA BindSized ==
  ASSUME Sized, NEW s \in Slots, NEW p \in Prompts, Bind(s, p)
  PROVE  Sized'
<1>1. Typed
  BY DEF Sized
<1>2. PICK r \in SettlePrefixKv(s, p) : \E b \in {0} \cup (r.n + 1)..(Len(p) - 1) :
       /\ gpu' = [gpu EXCEPT ![s] = r.gpu]
       /\ mem' = [mem EXCEPT ![s] = r.mem]
       /\ chain' = [chain EXCEPT ![s] = r.chain]
       /\ job' = [job EXCEPT ![s] =
                    [prompt |-> p, n |-> r.n, gen |-> <<>>, stop |-> b,
                     pre |-> IF arch.recurrent THEN Len(p) - 1 ELSE 0]]
  BY DEF Bind
<1>3. PICK b \in {0} \cup (r.n + 1)..(Len(p) - 1) :
        job' = [job EXCEPT ![s] =
                    [prompt |-> p, n |-> r.n, gen |-> <<>>, stop |-> b,
                     pre |-> IF arch.recurrent THEN Len(p) - 1 ELSE 0]]
  BY <1>2
<1>4. p \in Seq(Nat) /\ Len(p) \in Nat /\ Len(p) > 0
  BY <1>1, ReuseIs
<1>5. /\ r.n \in Nat /\ r.n < Len(p) /\ r.gpu \in Seq(Nat) /\ Len(r.gpu) = r.n
      /\ r.mem \in {<<>>, mem[s]} /\ Anchors(r.chain)
  BY <1>1, SettleSized
<1> DEFINE j == [prompt |-> p, n |-> r.n, gen |-> <<>>, stop |-> b,
                 pre |-> IF arch.recurrent THEN Len(p) - 1 ELSE 0]
<1>6. b \in Nat /\ (IF arch.recurrent THEN Len(p) - 1 ELSE 0) \in Nat
  BY <1>4, <1>5
<1>7. j \in Jobs
  BY <1>4, <1>5, <1>6, NoJobIs DEF Jobs
<1>8. j.prompt \in Prompts /\ Len(r.gpu) = j.n /\ j.gen = <<>> /\ j.n < Len(j.prompt)
  BY <1>5
<1>9. job' = [job EXCEPT ![s] = j] /\ Len(j.gen) = 0
  BY <1>3, NoJobIs
<1> HIDE DEF j
<1>10. mem' \in [Slots -> Seq(Nat)]
  <2>1. mem \in [Slots -> Seq(Nat)]
    BY <1>1 DEF Typed
  <2>2. r.mem \in Seq(Nat)
    BY <1>5, <2>1, NoJobIs
  <2>3. mem' = [mem EXCEPT ![s] = r.mem]
    BY <1>2
  <2> QED
    BY <2>1, <2>2, <2>3
<1>11. DOMAIN chain' = Slots /\ \A t \in Slots : Anchors(chain'[t])
  BY <1>1, <1>2, <1>5 DEF Typed
<1>12. /\ kept' \in SUBSET Slots /\ arch' = arch /\ Filed(store') /\ Filed(disk')
       /\ \A t \in kept' : t \in kept /\ t # s
  BY <1>1 DEF Bind, Typed, Filed
<1>13. gpu' = [gpu EXCEPT ![s] = r.gpu] /\ r.gpu \in Seq(Nat)
  BY <1>2, <1>5
<1>14. \A t \in kept' : (t = s /\ j = NoJob) \/ (t \in kept /\ t # s)
  BY <1>12
<1>15. j # NoJob => /\ j.prompt \in Prompts /\ Len(r.gpu) = j.n
                    /\ IF Len(j.gen) = 0 THEN j.n < Len(j.prompt)
                       ELSE j.n = Len(j.prompt) + Len(j.gen) - 1
  BY <1>8, <1>9
<1> DEFINE held == r.gpu
<1>16. /\ gpu' = [gpu EXCEPT ![s] = held] /\ held \in Seq(Nat)
       /\ j # NoJob => /\ j.prompt \in Prompts /\ Len(held) = j.n
                       /\ IF Len(j.gen) = 0 THEN j.n < Len(j.prompt)
                          ELSE j.n = Len(j.prompt) + Len(j.gen) - 1
  BY <1>13, <1>15
<1> HIDE DEF held
<1> QED
  BY <1>7, <1>9, <1>10, <1>11, <1>12, <1>14, <1>16, SlotSized

\* A chunk of a prompt.
LEMMA PrefillSized ==
  ASSUME Sized, NEW s \in Slots, NEW take \in 1 .. Limit(job[s]), Prefill(s, take)
  PROVE  Sized'
<1>1. Typed
  BY DEF Sized
<1> DEFINE p == job[s].prompt
<1>2. PICK n \in Nat, held \in Seq(Nat), gen \in Seq(Nat) :
           /\ n <= Len(p) /\ n > 0 /\ Len(held) = n
           /\ Agree(gpu[s], p, job[s].n) => Agree(held, p, n)
           /\ IF Len(gen) = 0 THEN n < Len(p) ELSE n = Len(p) /\ Len(gen) = 1
           /\ gpu' = [gpu EXCEPT ![s] = held]
           /\ \E stop \in Nat, pre \in Nat :
                job' = [job EXCEPT ![s] = [prompt |-> p, n |-> n, gen |-> gen,
                                           stop |-> stop, pre |-> pre]]
           /\ \/ chain' = chain
              \/ \E others : /\ chain' = [chain EXCEPT ![s] = Pushed(others, n, held)]
                            /\ Anchors(others)
                            /\ \A m \in DOMAIN others :
                                 m \in DOMAIN chain[s] /\ others[m] = chain[s][m]
           /\ \/ store' = store
              \/ store' \in Bounded(Put(store, Upto(p, n), held), StoreMax)
           /\ \/ disk' = disk
              \/ disk' \in Bounded(Put(disk, Upto(p, n), held), DiskMax)
  BY PrefillIs
<1>3. PICK stop \in Nat, pre \in Nat :
        job' = [job EXCEPT ![s] = [prompt |-> p, n |-> n, gen |-> gen,
                                   stop |-> stop, pre |-> pre]]
  BY <1>2
<1>4. ~Idle(s) /\ p \in Prompts
  BY DEF Prefill, Prefilling, Sized, Placed
<1>5. p \in Seq(Nat) /\ Len(p) \in Nat
  BY <1>4, PromptsAssumption, LenProperties
<1> DEFINE j == [prompt |-> p, n |-> n, gen |-> gen, stop |-> stop, pre |-> pre]
<1> HIDE DEF p
<1>6. j \in Jobs
  BY <1>5 DEF Jobs
<1>7. /\ j.prompt \in Prompts /\ Len(held) = j.n
      /\ IF Len(j.gen) = 0 THEN j.n < Len(j.prompt)
         ELSE j.n = Len(j.prompt) + Len(j.gen) - 1
  <2>1. /\ Len(held) = n
        /\ IF Len(gen) = 0 THEN n < Len(p) ELSE n = Len(p) /\ Len(gen) = 1
    BY <1>2
  <2>2. IF Len(gen) = 0 THEN n < Len(p) ELSE n = Len(p) + Len(gen) - 1
    <3>1. CASE Len(gen) = 0
      BY <2>1, <3>1
    <3>2. CASE Len(gen) # 0
      <4>1. n = Len(p) /\ Len(gen) = 1
        BY <2>1, <3>2
      <4>2. Len(p) = Len(p) + 1 - 1
        BY <1>5
      <4> QED
        BY <3>2, <4>1, <4>2
    <3> QED
      BY <3>1, <3>2
  <2>3. p \in Prompts
    BY <1>4 DEF p
  <2>4. j.prompt = p /\ j.n = n /\ j.gen = gen
    OBVIOUS
  <2> HIDE DEF j
  <2> QED
    BY <2>1, <2>2, <2>3, <2>4
<1>8. job' = [job EXCEPT ![s] = j]
  BY <1>3
<1> HIDE DEF j
<1>9. DOMAIN chain' = Slots /\ \A t \in Slots : Anchors(chain'[t])
  <2>1. CASE chain' = chain
    BY <1>1, <2>1 DEF Typed
  <2>2. ASSUME NEW others, chain' = [chain EXCEPT ![s] = Pushed(others, n, held)],
               Anchors(others)
        PROVE  DOMAIN chain' = Slots /\ \A t \in Slots : Anchors(chain'[t])
    <3>1. Anchors(Pushed(others, n, held))
      BY <1>2, <2>2, PushedAnchors
    <3> QED
      BY <1>1, <2>2, <3>1 DEF Typed
  <2> QED
    BY <1>2, <2>1, <2>2
<1>10. Filed(store') /\ Filed(disk')
  <2>1. Filed(store) /\ Filed(disk)
    BY <1>1 DEF Typed
  <2>2. Upto(p, n) \in Seq(Nat) /\ Len(Upto(p, n)) = n
    BY <1>2, <1>5, UptoIs
  <2> DEFINE k == Upto(p, n)
  <2>3. k \in Seq(Nat) /\ Len(held) = Len(k)
    BY <1>2, <2>2
  <2>4. /\ store' = store \/ store' \in Bounded(Put(store, k, held), StoreMax)
        /\ disk' = disk \/ disk' \in Bounded(Put(disk, k, held), DiskMax)
    BY <1>2
  <2> HIDE DEF k
  <2>5. Filed(store')
    BY <2>1, <2>3, <2>4, PutFiled
  <2>6. Filed(disk')
    BY <2>1, <2>3, <2>4, PutFiled
  <2> QED
    BY <2>5, <2>6
<1>11. /\ kept' \in SUBSET Slots /\ arch' = arch /\ mem' \in [Slots -> Seq(Nat)]
       /\ \A t \in kept' : t \in kept /\ t # s
  BY <1>1, <1>4 DEF Prefill, Typed
<1>12. gpu' = [gpu EXCEPT ![s] = held]
  BY <1>2
<1>13. \A t \in kept' : (t = s /\ j = NoJob) \/ (t \in kept /\ t # s)
  BY <1>11
<1> QED
  BY <1>6, <1>7, <1>8, <1>9, <1>10, <1>11, <1>12, <1>13, SlotSized

\* A job one token on.
LEMMA JobGoesOn ==
  ASSUME NEW j \in Jobs, NEW n \in Nat, NEW g \in Seq(Nat)
  PROVE  [j EXCEPT !.n = n, !.gen = g] \in Jobs
BY DEF Jobs

\* A decoded token.
LEMMA DecodeIs ==
  ASSUME Sized, NEW s \in Slots, NEW t \in Gen, Decode(s, t)
  PROVE  /\ job[s] \in Jobs /\ gpu[s] \in Seq(Nat) /\ ~Idle(s) /\ Placed(s)
         /\ job[s].gen # <<>> /\ Len(job[s].gen) \in Nat /\ Len(job[s].gen) > 0
         /\ Append(gpu[s], Last(job[s].gen)) \in Seq(Nat)
         /\ Len(Append(gpu[s], Last(job[s].gen))) = job[s].n + 1
         /\ Append(job[s].gen, t) \in Seq(Nat)
         /\ Len(Append(job[s].gen, t)) = Len(job[s].gen) + 1
<1>1. job[s] \in Jobs /\ gpu[s] \in Seq(Nat) /\ ~Idle(s) /\ Placed(s) /\ job[s].gen # <<>>
  BY DEF Sized, Typed, Decode
<1>2. job[s].gen \in Seq(Nat) /\ t \in Nat
  BY <1>1, PromptsAssumption DEF Jobs
<1>3. Len(job[s].gen) \in Nat /\ Len(job[s].gen) > 0
  BY <1>1, <1>2, EmptySeq, LenProperties
<1>4. Last(job[s].gen) \in Nat
  BY <1>2, <1>3, ElementOfSeq DEF Last
<1>5. /\ Append(gpu[s], Last(job[s].gen)) \in Seq(Nat)
      /\ Len(Append(gpu[s], Last(job[s].gen))) = Len(gpu[s]) + 1
  BY <1>1, <1>4, AppendProperties
<1>6. Append(job[s].gen, t) \in Seq(Nat) /\ Len(Append(job[s].gen, t)) = Len(job[s].gen) + 1
  BY <1>2, AppendProperties
<1> QED
  BY <1>1, <1>3, <1>5, <1>6 DEF Placed

LEMMA DecodeSized ==
  ASSUME Sized, NEW s \in Slots, NEW t \in Gen, Decode(s, t)
  PROVE  Sized'
<1>1. Typed
  BY DEF Sized
<1> DEFINE old == job[s]
           held == Append(gpu[s], Last(old.gen))
           gen == Append(old.gen, t)
           j == [old EXCEPT !.n = old.n + 1, !.gen = gen]
<1>2. /\ old \in Jobs /\ ~Idle(s) /\ Placed(s) /\ old.gen # <<>>
      /\ Len(old.gen) \in Nat /\ Len(old.gen) > 0
      /\ held \in Seq(Nat) /\ Len(held) = old.n + 1
      /\ gen \in Seq(Nat) /\ Len(gen) = Len(old.gen) + 1
  BY DecodeIs
<1>3. /\ old.prompt \in Prompts /\ old.n = Len(old.prompt) + Len(old.gen) - 1
      /\ Len(old.prompt) \in Nat /\ old.n \in Nat
  <2>1. IF Len(old.gen) = 0 THEN old.n < Len(old.prompt)
        ELSE old.n = Len(old.prompt) + Len(old.gen) - 1
    BY <1>2 DEF Placed
  <2>2. Len(old.gen) # 0
    BY <1>2
  <2>3. old.prompt \in Seq(Nat) /\ old.n \in Nat
    BY <1>2 DEF Jobs
  <2> QED
    BY <1>2, <2>1, <2>2, <2>3, LenProperties DEF Placed
<1>4. job' = [job EXCEPT ![s] = j]
  BY <1>1 DEF Decode, Typed, Jobs
<1>5. j.prompt = old.prompt /\ j.n = old.n + 1 /\ j.gen = gen
  BY <1>2 DEF Jobs
<1>6. j \in Jobs
  <2>1. old.n + 1 \in Nat
    <3>1. old.n \in Nat
      BY <1>3
    <3> HIDE DEF gen, old, held, j
    <3> QED
      BY <3>1
  <2>2. gen \in Seq(Nat)
    BY <1>2
  <2> DEFINE n == old.n + 1
  <2>3. j = [old EXCEPT !.n = n, !.gen = gen]
    OBVIOUS
  <2>4. n \in Nat /\ gen \in Seq(Nat) /\ old \in Jobs
    BY <1>2, <2>1, <2>2
  <2> HIDE DEF gen, j, old, n
  <2>5. [old EXCEPT !.n = n, !.gen = gen] \in Jobs
    BY <2>4, JobGoesOn
  <2> QED
    BY <2>3, <2>5
<1> HIDE DEF j
<1>7. /\ j.prompt \in Prompts /\ Len(held) = j.n
      /\ IF Len(j.gen) = 0 THEN j.n < Len(j.prompt)
         ELSE j.n = Len(j.prompt) + Len(j.gen) - 1
  <2>1. Len(gen) # 0
    <3> HIDE DEF gen
    <3> QED
      BY <1>2
  <2> DEFINE np == Len(old.prompt)
             ng == Len(old.gen)
             n == old.n
  <2>2. n \in Nat /\ np \in Nat /\ ng \in Nat /\ n = np + ng - 1
    BY <1>2, <1>3
  <2> HIDE DEF np, ng, n
  <2>3. n + 1 = np + (ng + 1) - 1
    BY <2>2
  <2>4. old.n + 1 = Len(old.prompt) + Len(gen) - 1
    BY <1>2, <2>3 DEF np, ng, n
  <2> HIDE DEF gen, old, held
  <2>5. Len(j.gen) # 0 /\ Len(held) = j.n /\ j.n = Len(j.prompt) + Len(j.gen) - 1
    BY <1>2, <1>5, <2>1, <2>4
  <2> QED
    BY <1>3, <1>5, <2>5
<1>8. gpu' = [gpu EXCEPT ![s] = held]
  BY <1>1 DEF Decode, Typed
<1>9. /\ kept' \in SUBSET Slots /\ arch' = arch /\ mem' \in [Slots -> Seq(Nat)]
      /\ \A u \in kept' : u \in kept /\ u # s
  BY <1>1, <1>2 DEF Decode, Typed
<1>10. /\ DOMAIN chain' = Slots /\ \A u \in Slots : Anchors(chain'[u])
       /\ Filed(store') /\ Filed(disk')
  BY <1>1 DEF Decode, Typed, Filed, Anchors
<1> HIDE DEF held
<1>11. \A u \in kept' : (u = s /\ j = NoJob) \/ (u \in kept /\ u # s)
  BY <1>9
<1>12. held \in Seq(Nat)
  BY <1>2 DEF held
<1> QED
  BY <1>4, <1>6, <1>7, <1>8, <1>9, <1>10, <1>11, <1>12, SlotSized

\* What finish remembers.
LEMMA RememberedIs ==
  ASSUME Sized, NEW s \in Slots, ~Idle(s)
  PROVE  /\ job[s].prompt \in Seq(Nat) /\ job[s].gen \in Seq(Nat)
         /\ job[s].n \in Nat /\ Then(job[s].prompt, job[s].gen) \in Seq(Nat)
         /\ job[s].n <= Len(Then(job[s].prompt, job[s].gen))
         /\ Remembered(job[s]) = Upto(Then(job[s].prompt, job[s].gen), job[s].n)
         /\ Remembered(job[s]) \in Seq(Nat)
<1> DEFINE j == job[s]
           p == j.prompt
           g == j.gen
<1>1. /\ j \in Jobs /\ Placed(s) /\ p \in Seq(Nat) /\ g \in Seq(Nat) /\ j.n \in Nat
      /\ Len(p) \in Nat /\ Len(g) \in Nat
  BY LenProperties DEF Sized, Typed, Jobs
<1>2. Then(p, g) \in Seq(Nat) /\ Len(Then(p, g)) = Len(p) + Len(g)
  BY <1>1, ConcatProperties DEF Then
<1>3. j.n <= Len(p) + Len(g)
  <2>1. IF Len(g) = 0 THEN j.n < Len(p) ELSE j.n = Len(p) + Len(g) - 1
    BY <1>1 DEF Placed
  <2> HIDE DEF j, p, g
  <2> QED
    BY <1>1, <2>1
<1>4. Remembered(j) = Upto(Then(p, g), j.n)
  BY DEF Remembered, Then
<1>5. Upto(Then(p, g), j.n) \in Seq(Nat)
  BY <1>1, <1>2, <1>3, UptoIs
<1> QED
  BY <1>1, <1>2, <1>3, <1>4, <1>5

\* The end of a job.
LEMMA FinishSized ==
  ASSUME Sized, NEW s \in Slots, Finish(s)
  PROVE  Sized'
<1>1. Typed
  BY DEF Sized
<1>2. Remembered(job[s]) \in Seq(Nat)
  BY RememberedIs DEF Finish
<1>3. mem' \in [Slots -> Seq(Nat)] /\ job' = [job EXCEPT ![s] = NoJob]
  BY <1>1, <1>2 DEF Finish, Typed
<1>4. gpu[s] \in Seq(Nat) /\ gpu' = [gpu EXCEPT ![s] = gpu[s]]
  BY <1>1 DEF Finish, Typed
<1>5. kept' \in SUBSET Slots /\ \A u \in kept' : u = s \/ (u \in kept /\ u # s)
  BY <1>1 DEF Finish, Typed
<1>6. /\ DOMAIN chain' = Slots /\ \A u \in Slots : Anchors(chain'[u])
      /\ Filed(store') /\ Filed(disk') /\ arch' = arch
  BY <1>1 DEF Finish, Typed, Filed, Anchors
<1> DEFINE j == NoJob
           held == gpu[s]
<1>7. j = NoJob /\ j \in Jobs /\ held \in Seq(Nat)
  BY <1>4, NoJobIs
<1>8. /\ job' = [job EXCEPT ![s] = j] /\ gpu' = [gpu EXCEPT ![s] = held]
      /\ \A u \in kept' : (u = s /\ j = NoJob) \/ (u \in kept /\ u # s)
  BY <1>3, <1>4, <1>5
<1> HIDE DEF j, held
<1> QED
  BY <1>3, <1>5, <1>6, <1>7, <1>8, SlotSized

\* Slots that lose their jobs.
LEMMA FailSized ==
  ASSUME Sized, NEW S \in SUBSET Slots, Fail(S)
  PROVE  Sized'
<1>1. Typed
  BY DEF Sized
<1>2. /\ gpu' \in [Slots -> Seq(Nat)] /\ mem' \in [Slots -> Seq(Nat)]
      /\ job' \in [Slots -> Jobs]
  BY <1>1, NoJobIs DEF Fail, Typed
<1>3. DOMAIN chain' = Slots /\ \A t \in Slots : Anchors(chain'[t])
  <2>1. chain' = [t \in Slots |-> IF t \in S THEN NoFun ELSE chain[t]]
    BY DEF Fail
  <2> QED
    BY <1>1, <2>1, NoAnchors DEF Typed
<1>4. \A t \in Slots : job'[t] = NoJob \/ (t \notin S /\ job'[t] = job[t] /\ gpu'[t] = gpu[t])
  BY DEF Fail
<1>5. kept' \in SUBSET Slots /\ \A t \in kept' : Idle(t)'
  BY <1>1, <1>4 DEF Fail, Typed, Idle
<1>6. Typed'
  BY <1>1, <1>2, <1>3, <1>5 DEF Fail, Typed, Filed
<1>7. ASSUME NEW t \in Slots, ~Idle(t)' PROVE Placed(t)'
  <2>1. job'[t] = job[t] /\ gpu'[t] = gpu[t]
    BY <1>4, <1>7 DEF Idle
  <2>2. Placed(t)
    BY <1>7, <2>1 DEF Sized, Idle
  <2> QED
    BY <2>1, <2>2 DEF Placed
<1> QED
  BY <1>6, <1>7 DEF Sized

\* Retained cells go.
LEMMA ReleaseSized ==
  ASSUME Sized, Release
  PROVE  Sized'
<1>1. Typed
  BY DEF Sized
<1>2. gpu' \in [Slots -> Seq(Nat)]
  BY <1>1, NoJobIs DEF Release, Typed
<1>3. /\ arch' = arch /\ mem' = mem /\ chain' = chain /\ job' = job /\ kept' = {}
      /\ store' = store /\ disk' = disk
  BY DEF Release
<1>4. Typed'
  BY <1>1, <1>2, <1>3 DEF Typed
<1>5. ASSUME NEW t \in Slots, ~Idle(t)' PROVE Placed(t)'
  <2>1. ~Idle(t)
    BY <1>3, <1>5 DEF Idle
  <2>2. t \notin kept /\ Placed(t)
    BY <1>1, <2>1 DEF Sized, Typed
  <2>3. gpu'[t] = gpu[t]
    BY <2>2 DEF Release
  <2> QED
    BY <1>3, <2>2, <2>3 DEF Placed
<1> QED
  BY <1>4, <1>5 DEF Sized

\* Fresh slots, with any cells and any tier as it was or empty.
LEMMA FreshSized ==
  ASSUME FreshSlots, arch' \in Archs, gpu' \in [Slots -> Seq(Nat)],
         Filed(store'), Filed(disk')
  PROVE  Sized'
<1>1. /\ mem' \in [Slots -> Seq(Nat)] /\ job' \in [Slots -> Jobs] /\ kept' = {}
      /\ \A t \in Slots : Idle(t)'
  BY NoJobIs DEF FreshSlots, Idle
<1>2. DOMAIN chain' = Slots /\ \A t \in Slots : Anchors(chain'[t])
  BY NoAnchors DEF FreshSlots
<1> QED
  BY <1>1, <1>2 DEF Sized, Typed

LEMMA InitSized == Init => Sized
<1> SUFFICES ASSUME Init PROVE Sized
  OBVIOUS
<1>1. /\ gpu \in [Slots -> Seq(Nat)] /\ mem \in [Slots -> Seq(Nat)]
      /\ job \in [Slots -> Jobs] /\ \A t \in Slots : Idle(t)
  BY NoJobIs DEF Init, Idle
<1>2. /\ DOMAIN chain = Slots /\ \A t \in Slots : Anchors(chain[t])
      /\ Filed(store) /\ Filed(disk)
  BY NoAnchors DEF Init
<1> QED
  BY <1>1, <1>2 DEF Sized, Typed, Init

LEMMA NextSized == Sized /\ [Next]_vars => Sized'
<1> SUFFICES ASSUME Sized, [Next]_vars PROVE Sized'
  OBVIOUS
<1>1. Typed
  BY DEF Sized
<1>2. CASE UNCHANGED vars
  <2>1. /\ arch' = arch /\ gpu' = gpu /\ mem' = mem /\ chain' = chain /\ job' = job
        /\ kept' = kept /\ store' = store /\ disk' = disk
    BY <1>2 DEF vars
  <2>2. \A s \in Slots : Idle(s)' <=> Idle(s)
    BY <2>1 DEF Idle
  <2>3. \A s \in Slots : Placed(s) => Placed(s)'
    BY <2>1 DEF Placed
  <2>4. Typed'
    BY <1>1, <2>1, <2>2 DEF Typed
  <2> QED
    BY <2>2, <2>3, <2>4 DEF Sized
<1>3. ASSUME NEW s \in Slots, NEW p \in Prompts, Bind(s, p) PROVE Sized'
  BY <1>3, BindSized
<1>4. ASSUME NEW s \in Slots, NEW take \in 1 .. Limit(job[s]), Prefill(s, take) PROVE Sized'
  BY <1>4, PrefillSized
<1>5. ASSUME NEW s \in Slots, NEW t \in Gen, Decode(s, t) PROVE Sized'
  BY <1>5, DecodeSized
<1>6. ASSUME NEW s \in Slots, Finish(s) PROVE Sized'
  BY <1>6, FinishSized
<1>7. ASSUME NEW S \in {Busy} \cup {{s} : s \in Busy}, Fail(S) PROVE Sized'
  <2>1. S \in SUBSET Slots
    BY DEF Busy
  <2> QED
    BY <1>7, <2>1, FailSized
<1>8. CASE Release
  BY <1>8, ReleaseSized
<1>9. CASE Panic
  <2>1. FreshSlots /\ arch' = arch /\ gpu' = gpu /\ store' = store /\ disk' = disk
    BY <1>9 DEF Panic
  <2>2. /\ arch' \in Archs /\ gpu' \in [Slots -> Seq(Nat)]
        /\ Filed(store') /\ Filed(disk')
    BY <1>1, <2>1 DEF Typed
  <2> QED
    BY <2>1, <2>2, FreshSized
<1>10. CASE Restart
  <2>1. /\ FreshSlots /\ arch' = arch /\ gpu' = [s \in Slots |-> <<>>]
        /\ store' = NoFun /\ disk' = disk
    BY <1>10 DEF Restart
  <2>2. /\ arch' \in Archs /\ gpu' \in [Slots -> Seq(Nat)]
        /\ Filed(store') /\ Filed(disk')
    BY <1>1, <2>1, NoJobIs, NoAnchors DEF Typed
  <2> QED
    BY <2>1, <2>2, FreshSized
<1> QED
  BY <1>2, <1>3, <1>4, <1>5, <1>6, <1>7, <1>8, <1>9, <1>10 DEF Next

\* Any slots, prompts, models, bounds and faults: cells, anchors and snapshots
\* are as many as they are filed for (settle_prefix_kv, apply_plan).
THEOREM SizesInductive == Spec => []Sized
<1>1. Init => Sized
  BY InitSized
<1>2. Sized /\ [Next]_vars => Sized'
  BY NextSized
<1> QED
  BY <1>1, <1>2, PTL DEF Spec

\* A bound request has a token left to prefill, wherever its cells come from
\* (reuse_for_bind, host_search_len).
THEOREM LogitsLeftAlways == Spec => []LogitsLeft
<1>1. Sized => LogitsLeft
  <2> SUFFICES ASSUME Sized, NEW s \in Slots, Prefilling(s)
               PROVE  job[s].n < Len(job[s].prompt)
    BY DEF LogitsLeft
  <2>1. Placed(s) /\ Len(job[s].gen) = 0
    BY NoJobIs DEF Sized, Prefilling
  <2> QED
    BY <2>1 DEF Placed
<1> QED
  BY <1>1, SizesInductive, PTL

-----------------------------------------------------------------------------
(* Contents.                                                                *)

\* Two texts in a row.
LEMMA ThenIs ==
  ASSUME NEW a \in Seq(Nat), NEW b \in Seq(Nat)
  PROVE  /\ Then(a, b) \in Seq(Nat) /\ Len(Then(a, b)) = Len(a) + Len(b)
         /\ Len(a) \in Nat /\ Len(b) \in Nat
         /\ Agree(Then(a, b), a, Len(a))
         /\ \A i \in 1 .. Len(b) : Then(a, b)[Len(a) + i] = b[i]
<1> DEFINE c == a \o b
<1>1. Len(a) \in Nat /\ Len(b) \in Nat
  BY LenProperties
<1>2. /\ c \in Seq(Nat) /\ Len(c) = Len(a) + Len(b)
      /\ \A i \in 1 .. Len(a) + Len(b) : c[i] = IF i <= Len(a) THEN a[i] ELSE b[i - Len(a)]
  BY ConcatProperties
<1> HIDE DEF c
<1>3. \A i \in 1 .. Len(a) : i \in 1 .. Len(a) + Len(b) /\ i <= Len(a)
  BY <1>1
<1>4. Agree(c, a, Len(a))
  BY <1>2, <1>3 DEF Agree
<1>5. ASSUME NEW i \in 1 .. Len(b) PROVE c[Len(a) + i] = b[i]
  <2>1. /\ Len(a) + i \in 1 .. Len(a) + Len(b) /\ ~(Len(a) + i <= Len(a))
        /\ Len(a) + i - Len(a) = i
    BY <1>1
  <2> DEFINE k == Len(a) + i
  <2>2. k \in 1 .. Len(a) + Len(b) /\ ~(k <= Len(a)) /\ k - Len(a) = i
    BY <2>1
  <2> HIDE DEF k
  <2>3. c[k] = b[i]
    BY <1>2, <2>2
  <2> QED
    BY <2>3 DEF k
<1> QED
  BY <1>1, <1>2, <1>4, <1>5 DEF Then, c

\* Contents are right after a step of one slot if they are right in it.
LEMMA SlotHonest ==
  ASSUME Honest, NEW s \in Slots,
         \A t \in Slots : t # s => /\ job'[t] = job[t] /\ gpu'[t] = gpu[t]
                                  /\ mem'[t] = mem[t] /\ chain'[t] = chain[t],
         kept' \in SUBSET Slots,
         \A t \in kept' : (t = s /\ gpu'[s] = mem'[s]) \/ (t \in kept /\ t # s),
         HostHonest', IF Idle(s)' THEN Left(s)' ELSE Own(s)'
  PROVE  Honest'
<1>1. MemoryHonest'
  BY DEF MemoryHonest, Honest
<1>2. ASSUME NEW t \in Slots PROVE IF Idle(t)' THEN Left(t)' ELSE Own(t)'
  <2>1. CASE t = s
    BY <2>1
  <2>2. CASE t # s
    <3>1. /\ job'[t] = job[t] /\ gpu'[t] = gpu[t] /\ mem'[t] = mem[t]
          /\ chain'[t] = chain[t]
      BY <2>2
    <3>2. IF Idle(t) THEN Left(t) ELSE Own(t)
      BY DEF Honest
    <3>3. Idle(t)' <=> Idle(t)
      BY <3>1 DEF Idle
    <3>4. Left(t)' <=> Left(t)
      BY <3>1 DEF Left
    <3>5. Own(t)' <=> Own(t)
      BY <3>1 DEF Own
    <3> QED
      BY <3>2, <3>3, <3>4, <3>5
  <2> QED
    BY <2>1, <2>2
<1> QED
  BY <1>1, <1>2 DEF Honest

\* A bind that keeps no foreign anchor.
LEMMA BindHonest ==
  ASSUME Sized, Honest, NEW s \in Slots, NEW p \in Prompts, Bind(s, p),
         ~KeepsForeignAnchor
  PROVE  Honest'
<1>1. Typed /\ Idle(s) /\ HostHonest /\ Left(s)
  BY DEF Sized, Honest, Bind
<1>2. PICK r \in SettlePrefixKv(s, p) : \E b \in {0} \cup (r.n + 1)..(Len(p) - 1) :
       /\ gpu' = [gpu EXCEPT ![s] = r.gpu]
       /\ mem' = [mem EXCEPT ![s] = r.mem]
       /\ chain' = [chain EXCEPT ![s] = r.chain]
       /\ job' = [job EXCEPT ![s] =
                    [prompt |-> p, n |-> r.n, gen |-> <<>>, stop |-> b,
                     pre |-> IF arch.recurrent THEN Len(p) - 1 ELSE 0]]
  BY DEF Bind
<1>3. /\ r.n \in Nat /\ r.n < Len(p)
      /\ \A m \in DOMAIN r.chain : m \in DOMAIN chain[s] /\ m <= r.n + 1
  BY <1>1, SettleSized
<1>4. Agree(r.gpu, p, r.n)
  BY <1>1, SettleHonest
<1>5. p \in Seq(Nat) /\ Len(p) \in Nat /\ Len(p) > 0 /\ p # <<>>
  BY <1>1, ReuseIs, PromptsAssumption
<1>6. /\ job'[s].prompt = p /\ job'[s].n = r.n /\ job'[s].gen = <<>>
      /\ gpu'[s] = r.gpu /\ chain'[s] = r.chain
  BY <1>1, <1>2 DEF Typed
<1>7. ~Idle(s)'
  BY <1>5, <1>6 DEF Idle, NoJob
<1>8. \A m \in DOMAIN chain'[s] : Agree(chain'[s][m], p, m)
  BY <1>1, <1>6, <1>7 DEF KeepsForeignAnchor
<1>9. \A m \in DOMAIN chain'[s] : m <= Len(p)
  <2>1. \A m \in DOMAIN chain[s] : m \in Nat
    BY <1>1 DEF Typed, Anchors
  <2> QED
    BY <1>3, <1>5, <1>6, <2>1
<1>10. Then(p, <<>>) = p
  BY <1>5, ConcatEmptySeq DEF Then
<1>11. Own(s)'
  BY <1>4, <1>6, <1>8, <1>9, <1>10 DEF Own
<1>12. \A t \in Slots : t # s => /\ job'[t] = job[t] /\ gpu'[t] = gpu[t]
                                /\ mem'[t] = mem[t] /\ chain'[t] = chain[t]
  BY <1>1, <1>2 DEF Typed
<1>13. kept' \in SUBSET Slots /\ \A t \in kept' : t \in kept /\ t # s
  BY <1>1 DEF Bind, Typed
<1>14. HostHonest'
  BY <1>1 DEF Bind, HostHonest
<1> QED
  BY <1>7, <1>11, <1>12, <1>13, <1>14, SlotHonest

\* Snapshots that hold what they are filed under.
Exact(f) == \A k \in DOMAIN f : f[k] = k

\* A store of them is one after a put.
LEMMA PutExact ==
  ASSUME NEW f, Exact(f), NEW data, NEW max, NEW g \in Bounded(Put(f, data, data), max)
  PROVE  Exact(g)
<1>1. \A x \in DOMAIN g :
        \/ x = data /\ g[x] = data
        \/ x \in DOMAIN f /\ g[x] = f[x]
  BY BoundedIs
<1> QED
  BY <1>1 DEF Exact

\* A chunk of a prompt.
LEMMA PrefillHonest ==
  ASSUME Sized, Honest, NEW s \in Slots, NEW take \in 1 .. Limit(job[s]), Prefill(s, take)
  PROVE  Honest'
<1>1. Typed /\ HostHonest
  BY DEF Sized, Honest
<1> DEFINE p == job[s].prompt
<1>2. /\ ~Idle(s) /\ job[s].gen = <<>> /\ Placed(s) /\ Own(s) /\ job[s].n \in Nat
      /\ p \in Prompts /\ p \in Seq(Nat) /\ Len(p) \in Nat /\ p # <<>>
  BY <1>1, PromptsAssumption, LenProperties
     DEF Prefill, Prefilling, Sized, Honest, Placed, Typed, Jobs
<1>3. PICK n \in Nat, held \in Seq(Nat), gen \in Seq(Nat) :
           /\ n <= Len(p) /\ n > 0 /\ Len(held) = n
           /\ Agree(gpu[s], p, job[s].n) => Agree(held, p, n)
           /\ IF Len(gen) = 0 THEN n < Len(p) ELSE n = Len(p) /\ Len(gen) = 1
           /\ gpu' = [gpu EXCEPT ![s] = held]
           /\ \E stop \in Nat, pre \in Nat :
                job' = [job EXCEPT ![s] = [prompt |-> p, n |-> n, gen |-> gen,
                                           stop |-> stop, pre |-> pre]]
           /\ \/ chain' = chain
              \/ \E others : /\ chain' = [chain EXCEPT ![s] = Pushed(others, n, held)]
                            /\ Anchors(others)
                            /\ \A m \in DOMAIN others :
                                 m \in DOMAIN chain[s] /\ others[m] = chain[s][m]
           /\ \/ store' = store
              \/ store' \in Bounded(Put(store, Upto(p, n), held), StoreMax)
           /\ \/ disk' = disk
              \/ disk' \in Bounded(Put(disk, Upto(p, n), held), DiskMax)
  BY PrefillIs
<1>4. PICK stop \in Nat, pre \in Nat :
        job' = [job EXCEPT ![s] = [prompt |-> p, n |-> n, gen |-> gen,
                                   stop |-> stop, pre |-> pre]]
  BY <1>3
<1>5. /\ job'[s].prompt = p /\ job'[s].n = n /\ job'[s].gen = gen /\ gpu'[s] = held
      /\ \A t \in Slots : t # s => job'[t] = job[t] /\ gpu'[t] = gpu[t]
  <2> HIDE DEF p
  <2> QED
    BY <1>1, <1>3, <1>4 DEF Typed
<1>6. Agree(held, p, n)
  <2>1. Then(p, <<>>) = p
    BY <1>2, ConcatEmptySeq DEF Then
  <2>2. Agree(gpu[s], p, job[s].n)
    BY <1>2, <2>1 DEF Own
  <2> QED
    BY <1>3, <2>2
<1>7. held = Upto(p, n)
  BY <1>2, <1>3, <1>6, AgreeIsUpto
<1>8. HostHonest'
  <2>1. /\ store' = store \/ store' \in Bounded(Put(store, held, held), StoreMax)
        /\ disk' = disk \/ disk' \in Bounded(Put(disk, held, held), DiskMax)
    BY <1>3, <1>7
  <2>2. Exact(store) /\ Exact(disk)
    BY <1>1 DEF HostHonest, Exact
  <2>3. Exact(store')
    BY <2>1, <2>2, PutExact
  <2>4. Exact(disk')
    BY <2>1, <2>2, PutExact
  <2> QED
    BY <2>3, <2>4 DEF HostHonest, Exact
<1>9. \A t \in Slots : t # s => chain'[t] = chain[t]
  BY <1>1, <1>3 DEF Typed
<1>10. \A m \in DOMAIN chain'[s] : m <= Len(p) /\ Agree(chain'[s][m], p, m)
  <2>1. \A m \in DOMAIN chain[s] : m <= Len(p) /\ Agree(chain[s][m], p, m)
    BY <1>2 DEF Own
  <2>2. ASSUME NEW others, chain' = [chain EXCEPT ![s] = Pushed(others, n, held)],
               \A m \in DOMAIN others : m \in DOMAIN chain[s] /\ others[m] = chain[s][m]
        PROVE  \A m \in DOMAIN chain'[s] : m <= Len(p) /\ Agree(chain'[s][m], p, m)
    <3>1. chain'[s] = Pushed(others, n, held)
      BY <1>1, <2>2 DEF Typed
    <3> DEFINE q == chain'[s]
    <3>2. \A m \in DOMAIN q :
            \/ m = n /\ q[m] = held
            \/ m \in DOMAIN others /\ q[m] = others[m]
      BY <3>1, PushedIs
    <3> HIDE DEF q, p
    <3>3. \A m \in DOMAIN q : m <= Len(p) /\ Agree(q[m], p, m)
      BY <1>3, <1>6, <2>1, <2>2, <3>2
    <3> QED
      BY <3>3 DEF q
  <2> QED
    BY <1>3, <2>1, <2>2
<1>11. Agree(held, Then(p, gen), n)
  <2> HIDE DEF p
  <2>1. Agree(Then(p, gen), p, Len(p))
    BY <1>2, ThenIs
  <2>2. \A i \in 1 .. n : i \in 1 .. Len(p)
    BY <1>2, <1>3
  <2> QED
    BY <1>6, <2>1, <2>2 DEF Agree
<1>12. Own(s)'
  BY <1>5, <1>10, <1>11 DEF Own
<1>13. ~Idle(s)'
  BY <1>2, <1>5 DEF Idle, NoJob
<1>14. /\ kept' \in SUBSET Slots /\ mem' = mem
       /\ \A t \in kept' : t \in kept /\ t # s
  BY <1>1, <1>2 DEF Prefill, Typed
<1> QED
  BY <1>5, <1>8, <1>9, <1>12, <1>13, <1>14, SlotHonest

\* A decoded token: the pending one gets its cell, and the text grows by the
\* next one.
LEMMA DecodeHonest ==
  ASSUME Sized, Honest, NEW s \in Slots, NEW t \in Gen, Decode(s, t)
  PROVE  Honest'
<1>1. Typed
  BY DEF Sized
<1> DEFINE old == job[s]
           p == old.prompt
           g == old.gen
           last == Last(g)
           held == Append(gpu[s], last)
           gen == Append(g, t)
<1>2. /\ old \in Jobs /\ ~Idle(s) /\ Placed(s) /\ Own(s)
      /\ Len(g) \in Nat /\ Len(g) > 0 /\ gpu[s] \in Seq(Nat)
      /\ p \in Seq(Nat) /\ g \in Seq(Nat) /\ old.n \in Nat /\ Len(p) \in Nat /\ t \in Nat
  BY DecodeIs, LenProperties, PromptsAssumption DEF Jobs, Honest
<1>3. p # <<>>
  BY <1>2, PromptsAssumption DEF Placed
<1>4. old.n = Len(p) + Len(g) - 1 /\ Len(gpu[s]) = old.n
  <2>1. /\ Len(gpu[s]) = old.n
        /\ IF Len(g) = 0 THEN old.n < Len(p) ELSE old.n = Len(p) + Len(g) - 1
    BY <1>2 DEF Placed
  <2>2. Len(g) # 0
    BY <1>2
  <2> QED
    BY <2>1, <2>2
<1>5. /\ job'[s].prompt = p /\ job'[s].n = old.n + 1 /\ job'[s].gen = gen
      /\ gpu'[s] = held
      /\ \A u \in Slots : u # s => job'[u] = job[u] /\ gpu'[u] = gpu[u]
  <2>1. job[s] \in Jobs /\ DOMAIN job = Slots /\ DOMAIN gpu = Slots
    BY <1>1 DEF Typed
  <2> QED
    BY <2>1 DEF Decode, Jobs
<1>6. Agree(gpu[s], Then(p, g), old.n)
  BY <1>2 DEF Own
<1> HIDE DEF p, g, held, gen, last
<1>7. /\ gen \in Seq(Nat) /\ Len(gen) = Len(g) + 1
      /\ \A i \in 1 .. Len(g) : gen[i] = g[i]
  BY <1>2, AppendProperties DEF gen
<1>8. last = g[Len(g)] /\ last \in Nat
  <2>1. last = g[Len(g)]
    BY DEF last, Last
  <2> QED
    BY <1>2, <2>1, ElementOfSeq
<1>9. /\ held[old.n + 1] = last
      /\ \A i \in 1 .. old.n : held[i] = gpu[s][i]
  BY <1>2, <1>4, <1>8, AppendProperties DEF held
<1>10. ASSUME NEW i \in 1 .. old.n + 1 PROVE held[i] = Then(p, gen)[i]
  <2>1. CASE i <= Len(p)
    <3>1. Then(p, g)[i] = p[i] /\ Then(p, gen)[i] = p[i]
      <4>1. i \in 1 .. Len(p)
        BY <1>2, <2>1
      <4>2. Agree(Then(p, g), p, Len(p)) /\ Agree(Then(p, gen), p, Len(p))
        BY <1>2, <1>7, ThenIs
      <4> QED
        BY <4>1, <4>2 DEF Agree
    <3>2. i \in 1 .. old.n
      BY <1>2, <1>4, <2>1
    <3>3. gpu[s][i] = Then(p, g)[i]
      BY <1>6, <3>2 DEF Agree
    <3> QED
      BY <1>9, <3>1, <3>2, <3>3
  <2>2. CASE ~(i <= Len(p))
    <3> DEFINE k == i - Len(p)
    <3>1. k \in 1 .. Len(g) /\ i = Len(p) + k
      BY <1>2, <1>4, <2>2
    <3> HIDE DEF k
    <3>2. Then(p, g)[i] = g[k]
      BY <1>2, <3>1, ThenIs
    <3>3. k \in 1 .. Len(gen)
      BY <1>2, <1>7, <3>1
    <3>4. Then(p, gen)[i] = gen[k]
      BY <1>2, <1>7, <3>1, <3>3, ThenIs
    <3>5. gen[k] = g[k]
      BY <1>7, <3>1
    <3>6. CASE i = old.n + 1
      <4>1. k = Len(g)
        BY <1>2, <1>4, <3>1, <3>6
      <4>2. held[i] = g[k]
        BY <1>8, <1>9, <3>6, <4>1
      <4> QED
        BY <3>4, <3>5, <4>2
    <3>7. CASE i # old.n + 1
      <4>1. i \in 1 .. old.n
        <5> DEFINE n == old.n
        <5>1. n \in Nat /\ i \in 1 .. n + 1 /\ i # n + 1
          BY <1>2, <3>7
        <5> HIDE DEF n
        <5>2. i \in 1 .. n
          BY <5>1
        <5> QED
          BY <5>2 DEF n
      <4>2. gpu[s][i] = Then(p, g)[i]
        BY <1>6, <4>1 DEF Agree
      <4> QED
        BY <1>9, <3>2, <3>4, <3>5, <4>1, <4>2
    <3> QED
      BY <3>6, <3>7
  <2> QED
    BY <2>1, <2>2
<1>11. Agree(held, Then(p, gen), old.n + 1)
  BY <1>10 DEF Agree
<1>12. Own(s)'
  <2>1. chain' = chain
    BY DEF Decode
  <2>2. \A m \in DOMAIN chain[s] : m <= Len(p) /\ Agree(chain[s][m], p, m)
    BY <1>2 DEF Own, p
  <2> QED
    BY <1>5, <1>11, <2>1, <2>2 DEF Own
<1>13. ~Idle(s)'
  BY <1>3, <1>5 DEF Idle, NoJob
<1>14. /\ kept' \in SUBSET Slots /\ mem' = mem /\ chain' = chain
       /\ \A u \in kept' : u \in kept /\ u # s
  BY <1>1, <1>2 DEF Decode, Typed
<1>15. HostHonest'
  BY DEF Decode, Honest, HostHonest
<1> QED
  BY <1>5, <1>12, <1>13, <1>14, <1>15, SlotHonest

\* The end of a job: what is remembered is what the cells hold.
LEMMA FinishHonest ==
  ASSUME Sized, Honest, NEW s \in Slots, Finish(s)
  PROVE  Honest'
<1>1. Typed /\ ~Idle(s) /\ Own(s) /\ Placed(s) /\ gpu[s] \in Seq(Nat)
  BY DEF Sized, Honest, Finish, Typed
<1> DEFINE p == job[s].prompt
           text == Then(p, job[s].gen)
           n == job[s].n
           past == Remembered(job[s])
<1>2. /\ p \in Seq(Nat) /\ job[s].gen \in Seq(Nat)
      /\ text \in Seq(Nat) /\ n \in Nat /\ n <= Len(text) /\ past = Upto(text, n)
  BY <1>1, RememberedIs
<1>3. Agree(gpu[s], text, n) /\ Len(gpu[s]) = n
  BY <1>1 DEF Own, Placed
<1>4. Agree(text, p, Len(p)) /\ Len(p) \in Nat
  BY <1>2, ThenIs
<1>5. \A m \in DOMAIN chain[s] : m \in Nat /\ m <= Len(p) /\ Agree(chain[s][m], p, m)
  BY <1>1 DEF Own, Typed, Anchors
<1>6. mem'[s] = past /\ gpu'[s] = gpu[s] /\ chain'[s] = chain[s]
  BY <1>1 DEF Finish, Typed
<1> HIDE DEF p, text, n, past
<1>7. gpu[s] = past
  BY <1>1, <1>2, <1>3, AgreeIsUpto
<1>8. Len(past) = n /\ Agree(past, text, n)
  BY <1>2, UptoIs
<1>9. ASSUME NEW m \in DOMAIN chain[s], NEW i \in 1 .. m, i <= Len(past)
      PROVE  chain[s][m][i] = past[i]
  <2>1. i \in 1 .. n /\ i \in 1 .. Len(p)
    BY <1>2, <1>4, <1>5, <1>8, <1>9
  <2> QED
    BY <1>4, <1>5, <1>8, <2>1 DEF Agree
<1>10. Left(s)'
  BY <1>6, <1>7, <1>9 DEF Left
<1>11. Idle(s)'
  BY <1>1 DEF Idle, Finish, Typed
<1>12. \A t \in Slots : t # s => /\ job'[t] = job[t] /\ gpu'[t] = gpu[t]
                                /\ mem'[t] = mem[t] /\ chain'[t] = chain[t]
  BY <1>1 DEF Finish, Typed
<1>13. /\ kept' \in SUBSET Slots /\ gpu'[s] = mem'[s]
       /\ \A t \in kept' : t = s \/ (t \in kept /\ t # s)
  BY <1>1, <1>6, <1>7 DEF Finish, Typed
<1>14. HostHonest'
  BY DEF Finish, Honest, HostHonest
<1> QED
  BY <1>10, <1>11, <1>12, <1>13, <1>14, SlotHonest

\* Slots that lose their jobs lose all they remember.
LEMMA FailHonest ==
  ASSUME Sized, Honest, NEW S \in SUBSET Slots, Fail(S)
  PROVE  Honest'
<1>1. \A t \in Slots :
        \/ t \in S /\ job'[t] = NoJob /\ mem'[t] = <<>> /\ gpu'[t] = <<>> /\ chain'[t] = NoFun
        \/ t \notin S /\ job'[t] = job[t] /\ mem'[t] = mem[t] /\ gpu'[t] = gpu[t]
           /\ chain'[t] = chain[t]
  BY DEF Fail
<1>2. HostHonest'
  BY DEF Fail, Honest, HostHonest
<1>3. MemoryHonest'
  BY <1>1 DEF Fail, Honest, MemoryHonest, Sized, Typed
<1>4. ASSUME NEW t \in Slots PROVE IF Idle(t)' THEN Left(t)' ELSE Own(t)'
  <2>1. CASE t \in S
    <3>1. Idle(t)' /\ mem'[t] = <<>> /\ DOMAIN (chain'[t]) = {}
      BY <1>1, <2>1, NoAnchors DEF Idle
    <3> QED
      BY <3>1 DEF Left
  <2>2. CASE t \notin S
    <3>1. /\ job'[t] = job[t] /\ gpu'[t] = gpu[t] /\ mem'[t] = mem[t]
          /\ chain'[t] = chain[t]
      BY <1>1, <2>2
    <3>2. IF Idle(t) THEN Left(t) ELSE Own(t)
      BY DEF Honest
    <3>3. Idle(t)' <=> Idle(t)
      BY <3>1 DEF Idle
    <3>4. Left(t)' <=> Left(t)
      BY <3>1 DEF Left
    <3>5. Own(t)' <=> Own(t)
      BY <3>1 DEF Own
    <3> QED
      BY <3>2, <3>3, <3>4, <3>5
  <2> QED
    BY <2>1, <2>2
<1> QED
  BY <1>2, <1>3, <1>4 DEF Honest

\* Retained cells go; what their slots remember stays.
LEMMA ReleaseHonest ==
  ASSUME Sized, Honest, Release
  PROVE  Honest'
<1>1. Typed
  BY DEF Sized
<1>2. HostHonest' /\ MemoryHonest'
  BY DEF Release, Honest, HostHonest, MemoryHonest
<1>3. ASSUME NEW t \in Slots PROVE IF Idle(t)' THEN Left(t)' ELSE Own(t)'
  <2>1. job'[t] = job[t] /\ mem'[t] = mem[t] /\ chain'[t] = chain[t]
    BY DEF Release
  <2>2. IF Idle(t) THEN Left(t) ELSE Own(t)
    BY DEF Honest
  <2>3. Idle(t)' <=> Idle(t)
    BY <2>1 DEF Idle
  <2>4. gpu'[t] = gpu[t] \/ (gpu'[t] = <<>> /\ Idle(t))
    BY <1>1 DEF Release, Typed
  <2>5. Left(t) => Left(t)'
    BY <2>1, <2>4 DEF Left
  <2>6. gpu'[t] = gpu[t] => (Own(t) => Own(t)')
    BY <2>1 DEF Own
  <2> QED
    BY <2>2, <2>3, <2>4, <2>5, <2>6
<1> QED
  BY <1>2, <1>3 DEF Honest

\* Fresh slots remember nothing.
LEMMA FreshHonest ==
  ASSUME FreshSlots, HostHonest'
  PROVE  Honest'
<1>1. \A t \in Slots : Idle(t)' /\ mem'[t] = <<>> /\ DOMAIN (chain'[t]) = {}
  BY NoAnchors DEF FreshSlots, Idle
<1>2. \A t \in Slots : Left(t)'
  BY <1>1 DEF Left
<1>3. MemoryHonest'
  BY DEF FreshSlots, MemoryHonest
<1> QED
  BY <1>1, <1>2, <1>3 DEF Honest

LEMMA InitHonest == Init => Honest
<1> SUFFICES ASSUME Init PROVE Honest
  OBVIOUS
<1>1. \A t \in Slots : Idle(t) /\ mem[t] = <<>> /\ DOMAIN (chain[t]) = {}
  BY NoAnchors DEF Init, Idle
<1>2. \A t \in Slots : Left(t)
  BY <1>1 DEF Left
<1>3. MemoryHonest /\ HostHonest
  BY NoAnchors DEF Init, MemoryHonest, HostHonest
<1> QED
  BY <1>1, <1>2, <1>3 DEF Honest

\* Every step that keeps no foreign anchor.
LEMMA NextHonest ==
  Sized /\ Honest /\ [Next]_vars /\ [~KeepsForeignAnchor]_vars => Honest'
<1> SUFFICES ASSUME Sized, Honest, [Next]_vars, [~KeepsForeignAnchor]_vars PROVE Honest'
  OBVIOUS
<1>1. CASE UNCHANGED vars
  BY <1>1 DEF vars, Honest, HostHonest, MemoryHonest, Idle, Left, Own
<1> SUFFICES ASSUME ~KeepsForeignAnchor PROVE Honest'
  BY <1>1
<1>2. ASSUME NEW s \in Slots, NEW p \in Prompts, Bind(s, p) PROVE Honest'
  BY <1>2, BindHonest
<1>3. ASSUME NEW s \in Slots, NEW take \in 1 .. Limit(job[s]), Prefill(s, take) PROVE Honest'
  BY <1>3, PrefillHonest
<1>4. ASSUME NEW s \in Slots, NEW t \in Gen, Decode(s, t) PROVE Honest'
  BY <1>4, DecodeHonest
<1>5. ASSUME NEW s \in Slots, Finish(s) PROVE Honest'
  BY <1>5, FinishHonest
<1>6. ASSUME NEW S \in {Busy} \cup {{s} : s \in Busy}, Fail(S) PROVE Honest'
  <2>1. S \in SUBSET Slots
    BY DEF Busy
  <2> QED
    BY <1>6, <2>1, FailHonest
<1>7. CASE Release
  BY <1>7, ReleaseHonest
<1>8. CASE Panic
  <2>1. FreshSlots /\ store' = store /\ disk' = disk
    BY <1>8 DEF Panic
  <2>2. HostHonest'
    BY <2>1 DEF Honest, HostHonest
  <2> QED
    BY <2>1, <2>2, FreshHonest
<1>9. CASE Restart
  <2>1. FreshSlots /\ store' = NoFun /\ disk' = disk
    BY <1>9 DEF Restart
  <2>2. HostHonest'
    BY <2>1, NoAnchors DEF Honest, HostHonest
  <2> QED
    BY <2>1, <2>2, FreshHonest
<1> QED
  BY <1>1, <1>2, <1>3, <1>4, <1>5, <1>6, <1>7, <1>8, <1>9 DEF Next

\* As long as no bind keeps a foreign anchor, what is remembered of cells,
\* anchors and snapshots is what they hold.
THEOREM HonestInductive == Spec /\ [][~KeepsForeignAnchor]_vars => []Honest
<1>1. Init => Honest
  BY InitHonest
<1>2. Sized /\ Honest /\ [Next]_vars /\ [~KeepsForeignAnchor]_vars => Honest'
  BY NextHonest
<1> QED
  BY <1>1, <1>2, SizesInductive, PTL DEF Spec

\* Then a bound request has its own cells up to its position, however they
\* came about: trimmed, from an anchor, from another slot's snapshot or from
\* the disk, through failures, panics and restarts (bind_slot).
THEOREM CellsAreTrueAlways == Spec /\ [][~KeepsForeignAnchor]_vars => []CellsAreTrue
<1>1. Sized /\ Honest /\ LogitsLeft => CellsAreTrue
  <2> SUFFICES ASSUME Sized, Honest, NEW s \in Slots, ~Idle(s)
               PROVE  gpu[s] = Upto(job[s].prompt \o job[s].gen, job[s].n)
    BY DEF CellsAreTrue, Faithful
  <2> DEFINE text == Then(job[s].prompt, job[s].gen)
             n == job[s].n
  <2>1. text \in Seq(Nat) /\ n \in Nat /\ n <= Len(text)
    BY RememberedIs
  <2>2. gpu[s] \in Seq(Nat) /\ Len(gpu[s]) = n /\ Agree(gpu[s], text, n)
    BY DEF Sized, Typed, Placed, Honest, Own
  <2>3. gpu[s] = Upto(text, n)
    <3> HIDE DEF text, n
    <3> QED
      BY <2>1, <2>2, AgreeIsUpto
  <2> QED
    BY <2>3 DEF Then
<1> QED
  BY <1>1, SizesInductive, HonestInductive, LogitsLeftAlways, PTL

\* And what is kept for later, in RAM, on disk or in an idle sequence, holds
\* the very tokens it is remembered by (apply_plan, finish_at).
THEOREM SnapshotsHonestAlways == Spec /\ [][~KeepsForeignAnchor]_vars => []SnapshotsHonest
<1>1. Honest => SnapshotsHonest
  BY DEF Honest, SnapshotsHonest
<1> QED
  BY <1>1, HonestInductive, PTL

-----------------------------------------------------------------------------
(* Requests with images: the parts of a sequence.                           *)

ImageType == [start : Nat, id : STRING, cells : Nat \ {0}, span : Nat \ {0}]

End(im) == im.start + im.cells

\* Positions of an image that takes so many cells.
SpanOf(id, m) ==
  CHOOSE k \in Nat : \E p \in VisionPrompts : \E j \in DOMAIN p :
    id # "" /\ p[j].id = id /\ p[j].cells = m /\ p[j].span = k

\* The images of a sequence lie in it, one after the other, over cells whose
\* tokens say nothing.
Seqs ==
  {s \in [tokens : Seq(Nat), images : SUBSET ImageType] :
     /\ \A im \in s.images :
          /\ End(im) <= Len(s.tokens) /\ im.span = SpanOf(im.id, im.cells)
          /\ \A k \in im.start + 1 .. End(im) : s.tokens[k] = 0
     /\ \A im, jm \in s.images : im = jm \/ End(im) <= jm.start \/ End(jm) <= im.start}

Long(s) == Len(s.tokens)

\* No image is cut at i.
Edge(s, i) == i \in 0 .. Long(s) /\ (ImageCovering(s, i) = {} \/ ImageAt(s, i) # {})

Step(s, i) == i + StepCells(s, i)

\* The parts of a sequence.
LEMMA SeqIs ==
  ASSUME NEW s \in Seqs
  PROVE  /\ s.tokens \in Seq(Nat) /\ Long(s) \in Nat /\ s.images \in SUBSET ImageType
         /\ s = [tokens |-> s.tokens, images |-> s.images]
         /\ \A im \in s.images :
              /\ im.start \in Nat /\ im.cells \in Nat \ {0} /\ im.span \in Nat \ {0}
              /\ End(im) \in Nat /\ im.start < End(im) /\ End(im) <= Long(s)
              /\ im.span = SpanOf(im.id, im.cells)
         /\ \A im, jm \in s.images : im = jm \/ End(im) <= jm.start \/ End(jm) <= im.start
<1>1. s.tokens \in Seq(Nat) /\ s.images \in SUBSET ImageType
      /\ s = [tokens |-> s.tokens, images |-> s.images]
  BY DEF Seqs
<1>2. Long(s) \in Nat
  BY <1>1, LenProperties DEF Long
<1>3. ASSUME NEW im \in s.images
      PROVE  /\ im.start \in Nat /\ im.cells \in Nat \ {0} /\ im.span \in Nat \ {0}
             /\ End(im) \in Nat /\ im.start < End(im) /\ End(im) <= Long(s)
             /\ im.span = SpanOf(im.id, im.cells)
  <2>1. im \in ImageType /\ End(im) <= Len(s.tokens) /\ im.span = SpanOf(im.id, im.cells)
    BY <1>1 DEF Seqs
  <2> QED
    BY <2>1 DEF ImageType, End, Long
<1>4. \A im, jm \in s.images : im = jm \/ End(im) <= jm.start \/ End(jm) <= im.start
  BY DEF Seqs
<1> QED
  BY <1>1, <1>2, <1>3, <1>4

\* At the start of an image there is no other.
LEMMA OneImage ==
  ASSUME NEW s \in Seqs, NEW im \in s.images
  PROVE  /\ ImageAt(s, im.start) = {im}
         /\ StepCells(s, im.start) = im.cells /\ StepSpan(s, im.start) = im.span
         /\ Step(s, im.start) = End(im) /\ Edge(s, im.start)
<1> DEFINE i == im.start
<1>1. /\ i \in Nat /\ im.cells \in Nat \ {0} /\ End(im) = i + im.cells /\ i < End(im)
      /\ End(im) <= Long(s) /\ Long(s) \in Nat
  BY SeqIs DEF End
<1>2. \A jm \in s.images : jm.start = i => jm = im
  <2> TAKE jm \in s.images
  <2>1. jm.start \in Nat /\ End(jm) \in Nat /\ jm.start < End(jm)
        /\ (im = jm \/ End(im) <= jm.start \/ End(jm) <= im.start)
    BY SeqIs
  <2> QED
    BY <1>1, <2>1
<1>3. ImageAt(s, i) = {im}
  BY <1>2 DEF ImageAt
<1> HIDE DEF i
<1>4. (CHOOSE jm \in ImageAt(s, i) : TRUE) = im
  BY <1>3
<1>5. StepCells(s, i) = im.cells /\ StepSpan(s, i) = im.span
  BY <1>3, <1>4 DEF StepCells, StepSpan
<1>6. i \in 0 .. Long(s)
  BY <1>1
<1> QED
  BY <1>1, <1>3, <1>5, <1>6 DEF i, Step, Edge

\* Where no image starts a step is one token.
LEMMA OneToken ==
  ASSUME NEW s \in Seqs, NEW i \in 0 .. Long(s), ImageAt(s, i) = {}
  PROVE  StepCells(s, i) = 1 /\ StepSpan(s, i) = 1 /\ Step(s, i) = i + 1
BY DEF StepCells, StepSpan, Step

\* A step goes forward and stays in the sequence; from an edge it goes to the
\* next one.
LEMMA StepIs ==
  ASSUME NEW s \in Seqs, NEW i \in 0 .. Long(s) - 1
  PROVE  /\ Step(s, i) \in i + 1 .. Long(s)
         /\ StepCells(s, i) \in Nat \ {0} /\ StepSpan(s, i) \in Nat \ {0}
         /\ Edge(s, i) => Edge(s, Step(s, i))
         /\ Edge(s, i) => \A b \in 0 .. Long(s) : Edge(s, b) /\ b > i => Step(s, i) <= b
<1>1. Long(s) \in Nat /\ i \in Nat /\ i \in 0 .. Long(s)
  BY SeqIs
<1>2. CASE ImageAt(s, i) = {}
  <2>1. StepCells(s, i) = 1 /\ StepSpan(s, i) = 1 /\ Step(s, i) = i + 1
    BY <1>1, <1>2, OneToken
  <2>2. ASSUME Edge(s, i) PROVE Edge(s, i + 1)
    <3>1. ImageCovering(s, i) = {}
      BY <1>2, <2>2 DEF Edge
    <3>2. ASSUME NEW im \in ImageCovering(s, i + 1) PROVE im \in ImageAt(s, i + 1)
      <4>1. im \in s.images /\ im.start <= i + 1 /\ i + 1 < End(im)
            /\ im.start \in Nat /\ End(im) \in Nat
        BY SeqIs DEF ImageCovering, End
      <4>2. ~(im.start <= i)
        BY <1>1, <3>1, <4>1 DEF ImageCovering, End
      <4>3. im.start = i + 1
        BY <1>1, <4>1, <4>2
      <4> QED
        BY <4>1, <4>3 DEF ImageAt
    <3>3. i + 1 \in 0 .. Long(s)
      BY <1>1
    <3> QED
      BY <3>2, <3>3 DEF Edge
  <2>3. \A b \in 0 .. Long(s) : b > i => i + 1 <= b
    BY <1>1
  <2> QED
    BY <1>1, <2>1, <2>2, <2>3
<1>3. CASE ImageAt(s, i) # {}
  <2>1. PICK im \in s.images : im.start = i
    BY <1>3 DEF ImageAt
  <2>2. StepCells(s, i) = im.cells /\ StepSpan(s, i) = im.span /\ Step(s, i) = End(im)
    BY <2>1, OneImage
  <2>3. im.cells \in Nat \ {0} /\ im.span \in Nat \ {0} /\ End(im) \in Nat /\ i < End(im)
        /\ End(im) <= Long(s)
    BY <2>1, SeqIs
  <2>4. ASSUME NEW jm \in ImageCovering(s, End(im)) PROVE jm \in ImageAt(s, End(im))
    <3>1. jm \in s.images /\ jm.start <= End(im) /\ End(im) < End(jm)
      BY DEF ImageCovering, End
    <3>2. jm.start \in Nat /\ End(jm) \in Nat
          /\ (im = jm \/ End(im) <= jm.start \/ End(jm) <= im.start)
      BY <3>1, SeqIs
    <3>3. jm.start = End(im)
      BY <2>1, <2>3, <3>1, <3>2
    <3> QED
      BY <3>1, <3>3 DEF ImageAt
  <2>5. Edge(s, End(im))
    <3>1. End(im) \in 0 .. Long(s)
      BY <1>1, <2>3
    <3> QED
      BY <2>4, <3>1 DEF Edge
  <2>6. ASSUME NEW b \in 0 .. Long(s), Edge(s, b), b > i PROVE End(im) <= b
    <3>1. SUFFICES ASSUME b < End(im) PROVE FALSE
      BY <1>1, <2>3
    <3>2. im \in ImageCovering(s, b)
      BY <1>1, <2>1, <2>6, <3>1 DEF ImageCovering, End
    <3>3. PICK jm \in s.images : jm.start = b
      BY <2>6, <3>2 DEF Edge, ImageAt
    <3>4. jm.start \in Nat /\ End(jm) \in Nat /\ jm.start < End(jm)
          /\ (im = jm \/ End(im) <= jm.start \/ End(jm) <= im.start)
      BY <3>3, SeqIs
    <3> QED
      BY <1>1, <2>1, <2>3, <2>6, <3>1, <3>3, <3>4
  <2> QED
    BY <1>1, <2>2, <2>3, <2>5, <2>6
<1> QED
  BY <1>2, <1>3

\* The first cell is an edge, and so is the end.
LEMMA Ends0 ==
  ASSUME NEW s \in Seqs
  PROVE  Edge(s, 0) /\ Edge(s, Long(s))
<1>1. Long(s) \in Nat
  BY SeqIs
<1>2. ASSUME NEW im \in ImageCovering(s, 0) PROVE im \in ImageAt(s, 0)
  <2>1. im \in s.images /\ im.start <= 0 /\ im.start \in Nat
    BY SeqIs DEF ImageCovering
  <2>2. im.start = 0
    BY <2>1
  <2> QED
    BY <2>1, <2>2 DEF ImageAt
<1>3. ImageCovering(s, Long(s)) = {}
  <2> SUFFICES ASSUME NEW im \in ImageCovering(s, Long(s)) PROVE FALSE
    OBVIOUS
  <2>1. im \in s.images /\ Long(s) < End(im)
    BY DEF ImageCovering, End
  <2>2. End(im) \in Nat /\ End(im) <= Long(s)
    BY <2>1, SeqIs
  <2> QED
    BY <1>1, <2>1, <2>2
<1>4. 0 \in 0 .. Long(s) /\ Long(s) \in 0 .. Long(s)
  BY <1>1
<1> QED
  BY <1>2, <1>3, <1>4 DEF Edge

\* What holds at b and passes from a step's end to its start holds at all
\* edges up to b.
LEMMA EdgesDown ==
  ASSUME NEW s \in Seqs, NEW S, NEW b \in 0 .. Long(s), Edge(s, b), b \in S,
         \A i \in 0 .. b - 1 : Edge(s, i) /\ Step(s, i) \in S => i \in S
  PROVE  \A i \in 0 .. b : Edge(s, i) => i \in S
<1> DEFINE T == {m \in 0 .. b : Edge(s, b - m) /\ b - m \notin S}
<1>1. Long(s) \in Nat /\ b \in Nat
  BY SeqIs
<1>2. SUFFICES ASSUME T # {} PROVE FALSE
  <2> TAKE i \in 0 .. b
  <2> HAVE Edge(s, i)
  <2>1. b - i \in 0 .. b /\ b - (b - i) = i
    BY <1>1
  <2>2. b - i \notin T
    BY <1>2
  <2> QED
    BY <2>1, <2>2
<1>3. PICK m \in T : \A k \in T : m <= k
  <2>1. T \in SUBSET Nat
    BY <1>1
  <2> HIDE DEF T
  <2> QED
    BY <1>2, <2>1, LeastNat
<1> DEFINE i == b - m
           j == Step(s, i)
<1>4. m \in 0 .. b /\ m \in Nat /\ Edge(s, i) /\ i \notin S
  BY <1>1, <1>3
<1>5. m # 0
  <2>1. m = 0 => i = b
    BY <1>1
  <2> QED
    BY <1>4, <2>1
<1>6. i \in 0 .. b - 1 /\ i \in 0 .. Long(s) - 1 /\ b > i
  BY <1>1, <1>4, <1>5
<1>7. j \in i + 1 .. Long(s) /\ Edge(s, j) /\ j <= b
  BY <1>4, <1>6, StepIs
<1>8. j \notin S
  BY <1>4, <1>6
<1> HIDE DEF j
<1>9. b - j \in 0 .. b /\ b - (b - j) = j /\ ~(m <= b - j)
  BY <1>1, <1>4, <1>6, <1>7
<1>10. b - j \in T
  BY <1>7, <1>8, <1>9
<1> QED
  BY <1>3, <1>9, <1>10

\* What holds at the first cell and passes along each step holds at all edges.
LEMMA EdgesUp ==
  ASSUME NEW s \in Seqs, NEW S, 0 \in S,
         \A i \in 0 .. Long(s) - 1 : Edge(s, i) /\ i \in S => Step(s, i) \in S
  PROVE  \A i \in 0 .. Long(s) : Edge(s, i) => i \in S
<1> DEFINE T == {i \in 0 .. Long(s) : Edge(s, i) /\ i \notin S}
<1>1. Long(s) \in Nat
  BY SeqIs
<1>2. SUFFICES ASSUME T # {} PROVE FALSE
  OBVIOUS
<1>3. PICK b \in T : \A k \in T : b <= k
  <2>1. T \in SUBSET Nat
    BY <1>1
  <2> HIDE DEF T
  <2> QED
    BY <1>2, <2>1, LeastNat
<1>4. b \in 0 .. Long(s) /\ b \in Nat /\ Edge(s, b) /\ b \notin S /\ b # 0
  BY <1>1, <1>3
<1> DEFINE L == {i \in 0 .. b - 1 : Edge(s, i)}
<1>5. L \in SUBSET Int /\ L # {} /\ \A x \in L : x <= b
  <2>1. 0 \in L
    BY <1>4, Ends0
  <2> QED
    BY <1>4, <2>1
<1>6. Max(L) \in L /\ \A x \in L : x <= Max(L)
  <2> HIDE DEF L
  <2>1. b \in Int
    BY <1>4
  <2> QED
    BY <1>5, <2>1, MaxPicks
<1> DEFINE i == Max(L)
           j == Step(s, i)
<1>7. i \in 0 .. b - 1 /\ Edge(s, i) /\ i \in 0 .. Long(s) - 1 /\ i \in Nat /\ b > i
  BY <1>1, <1>4, <1>6
<1>8. i \in S
  <2>1. i \notin T
    BY <1>3, <1>4, <1>7
  <2> QED
    BY <1>1, <1>7, <2>1
<1> HIDE DEF i
<1>9. j \in i + 1 .. Long(s) /\ Edge(s, j) /\ j <= b /\ j \in S
  BY <1>4, <1>7, <1>8, StepIs
<1> HIDE DEF j
<1>10. j < b
  BY <1>1, <1>4, <1>7, <1>9
<1>11. j \in L
  BY <1>1, <1>4, <1>7, <1>9, <1>10
<1>12. j <= i
  BY <1>6, <1>11 DEF i
<1> QED
  BY <1>1, <1>7, <1>9, <1>12

-----------------------------------------------------------------------------
(* Positions.                                                               *)

\* The loop of pos_next, from any cell.
LEMMA PosLoop ==
  ASSUME NEW s \in Seqs, NEW n \in Nat
  PROVE  \E g : /\ PosNext(s, n) = g[0]
                /\ \A i \in 0 .. Long(s) :
                     /\ g[i] \in Nat
                     /\ g[i] = IF i < n /\ i < Long(s) THEN StepSpan(s, i) + g[Step(s, i)] ELSE 0
<1> DEFINE L == Long(s)
           goes(i) == i < n /\ i < L
           stop == [i \in 0 .. L |-> ~goes(i)]
           last == [i \in 0 .. L |-> 0]
           to == [i \in 0 .. L |-> Step(s, i)]
           G == [i \in 0 .. L |-> [v \in Nat |-> IF goes(i) THEN StepSpan(s, i) + v ELSE v]]
           Go[i \in 0 .. Long(s)] == IF i < n /\ i < Long(s) THEN StepSpan(s, i) + Go[Step(s, i)] ELSE 0
<1>1. L \in Nat
  BY SeqIs
<1>2. \A i \in 0 .. L : goes(i) => /\ Step(s, i) \in i + 1 .. L
                                   /\ StepSpan(s, i) \in Nat
  <2> TAKE i \in 0 .. L
  <2> HAVE goes(i)
  <2>1. i \in 0 .. Long(s) - 1
    BY <1>1
  <2> QED
    BY <2>1, StepIs
<1>3. PICK f \in [0 .. L -> Nat] : IsJump(f, L, stop, last, to, G)
  <2>1. G \in [0 .. L -> [Nat -> Nat]]
    BY <1>2
  <2>2. \A i \in 0 .. L : IF stop[i] THEN last[i] \in Nat ELSE to[i] \in i + 1 .. L
    BY <1>2
  <2> DEFINE X == Nat
  <2>3. G \in [0 .. L -> [X -> X]] /\ \A i \in 0 .. L : IF stop[i] THEN last[i] \in X ELSE to[i] \in i + 1 .. L
    BY <2>1, <2>2
  <2> HIDE DEF L, stop, last, to, G, X
  <2>4. \E f \in [0 .. L -> X] : IsJump(f, L, stop, last, to, G)
    BY <1>1, <2>3, JumpExists
  <2> QED
    BY <2>4 DEF X
<1>4. ASSUME NEW i \in 0 .. L
      PROVE  f[i] = IF i < n /\ i < Long(s) THEN StepSpan(s, i) + f[Step(s, i)] ELSE 0
  <2>1. f[i] = IF stop[i] THEN last[i] ELSE G[i][f[to[i]]]
    <3> HIDE DEF stop, last, G, to
    <3> QED
      BY <1>3 DEF IsJump
  <2>2. CASE goes(i)
    <3>1. to[i] = Step(s, i) /\ Step(s, i) \in 0 .. L /\ ~stop[i]
      <4>1. Step(s, i) \in i + 1 .. L
        BY <1>2, <2>2
      <4>2. Step(s, i) \in 0 .. L
        <5> DEFINE j == Step(s, i)
        <5>1. j \in i + 1 .. L
          BY <4>1
        <5> HIDE DEF j
        <5>2. j \in 0 .. L
          BY <1>1, <5>1
        <5> QED
          BY <5>2 DEF j
      <4>3. to[i] = Step(s, i)
        OBVIOUS
      <4>4. ~stop[i]
        BY <2>2
      <4> QED
        BY <4>2, <4>3, <4>4
    <3>2. f[Step(s, i)] \in Nat
      BY <1>3, <3>1
    <3>3. G[i][f[Step(s, i)]] = StepSpan(s, i) + f[Step(s, i)]
      BY <2>2, <3>2
    <3> HIDE DEF G, to, stop, last
    <3> QED
      BY <2>1, <2>2, <3>1, <3>3
  <2>3. CASE ~goes(i)
    BY <2>1, <2>3
  <2> QED
    BY <2>2, <2>3
<1>5. f = [i \in 0 .. Long(s) |-> IF i < n /\ i < Long(s) THEN StepSpan(s, i) + f[Step(s, i)] ELSE 0]
  <2> HIDE DEF L
  <2>1. f \in [0 .. L -> Nat]
    BY <1>3
  <2> QED
    BY <1>4, <2>1 DEF L
<1>6. Go = [i \in 0 .. Long(s) |-> IF i < n /\ i < Long(s) THEN StepSpan(s, i) + Go[Step(s, i)] ELSE 0]
  <2>1. \E g : g = [i \in 0 .. Long(s) |-> IF i < n /\ i < Long(s) THEN StepSpan(s, i) + g[Step(s, i)] ELSE 0]
    BY <1>5
  <2> QED
    BY <2>1 DEF Go
<1>7. PosNext(s, n) = Go[0]
  BY DEF PosNext, Go, Step, Long
<1> HIDE DEF Go
<1>8. \A i \in 0 .. L : Go[i] = IF i < n /\ i < Long(s) THEN StepSpan(s, i) + Go[Step(s, i)] ELSE 0
  BY <1>6
<1>9. \A i \in 0 .. L : Go[i] = f[i]
  <2> DEFINE T == {m \in 0 .. L : Go[L - m] # f[L - m]}
  <2>1. T = {}
    <3> SUFFICES ASSUME T # {} PROVE FALSE
      OBVIOUS
    <3>1. PICK m \in T : \A k \in T : m <= k
      <4>1. T \in SUBSET Nat
        BY <1>1
      <4> HIDE DEF T
      <4> QED
        BY <4>1, LeastNat
    <3> DEFINE i == L - m
               j == Step(s, i)
    <3>2. i \in 0 .. L /\ Go[i] # f[i] /\ m \in 0 .. L
      BY <1>1, <3>1
    <3>3. CASE goes(i)
      <4>1. j \in i + 1 .. L
        BY <1>2, <3>2, <3>3
      <4>2. Go[j] # f[j]
        BY <1>4, <1>8, <3>2, <3>3
      <4> HIDE DEF j
      <4>3. L - j \in 0 .. L /\ L - (L - j) = j /\ ~(m <= L - j)
        BY <1>1, <3>2, <4>1, SMTT(30)
      <4>4. L - j \in T
        BY <4>2, <4>3
      <4> QED
        BY <3>1, <4>3, <4>4, SMTT(30)
    <3>4. CASE ~goes(i)
      BY <1>4, <1>8, <3>2, <3>4
    <3> QED
      BY <3>3, <3>4
  <2> TAKE i \in 0 .. L
  <2>2. L - i \in 0 .. L /\ L - (L - i) = i
    BY <1>1
  <2>3. L - i \notin T
    BY <2>1
  <2> QED
    BY <2>2, <2>3
<1>10. \A i \in 0 .. L : f[i] \in Nat
  BY <1>3
<1>11. 0 \in 0 .. L
  BY <1>1
<1> HIDE DEF goes, G, to, stop, last
<1>12. PosNext(s, n) = f[0]
  BY <1>7, <1>9, <1>11
<1> QED
  BY <1>4, <1>10, <1>12

\* A number, and none at the beginning.
LEMMA PosIsNat ==
  ASSUME NEW s \in Seqs, NEW n \in Nat
  PROVE  PosNext(s, n) \in Nat /\ (n = 0 => PosNext(s, n) = 0)
<1>1. PICK g : /\ PosNext(s, n) = g[0]
               /\ \A i \in 0 .. Long(s) :
                    /\ g[i] \in Nat
                    /\ g[i] = IF i < n /\ i < Long(s) THEN StepSpan(s, i) + g[Step(s, i)] ELSE 0
  BY PosLoop
<1>2. 0 \in 0 .. Long(s)
  BY SeqIs
<1> QED
  BY <1>1, <1>2

\* A step takes the positions of its span (pos_next).
LEMMA PosStep ==
  ASSUME NEW s \in Seqs, NEW b \in 0 .. Long(s) - 1, Edge(s, b)
  PROVE  PosNext(s, Step(s, b)) = PosNext(s, b) + StepSpan(s, b)
<1> DEFINE c == Step(s, b)
           w == StepSpan(s, b)
           L == Long(s)
<1>1. L \in Nat /\ b \in Nat /\ b \in 0 .. L /\ 0 \in 0 .. b /\ Edge(s, 0)
  BY SeqIs, Ends0
<1>2. c \in b + 1 .. L /\ c \in Nat /\ w \in Nat /\ Edge(s, c)
  BY <1>1, StepIs
<1> HIDE DEF c, w
<1>3. PICK g : /\ PosNext(s, b) = g[0]
               /\ \A i \in 0 .. L :
                    /\ g[i] \in Nat
                    /\ g[i] = IF i < b /\ i < L THEN StepSpan(s, i) + g[Step(s, i)] ELSE 0
  BY <1>1, PosLoop
<1>4. PICK h : /\ PosNext(s, c) = h[0]
               /\ \A i \in 0 .. L :
                    /\ h[i] \in Nat
                    /\ h[i] = IF i < c /\ i < L THEN StepSpan(s, i) + h[Step(s, i)] ELSE 0
  BY <1>2, PosLoop
<1> DEFINE S == {i \in 0 .. L : h[i] = g[i] + w}
<1>5. b \in S
  <2>1. b < c /\ b < L
    BY <1>1, <1>2
  <2>2. h[b] = w + h[c]
    BY <1>1, <1>4, <2>1 DEF c, w
  <2>3. h[c] = 0
    BY <1>2, <1>4
  <2>4. g[b] = 0
    BY <1>1, <1>3
  <2> QED
    BY <1>1, <1>2, <2>2, <2>3, <2>4
<1>6. ASSUME NEW i \in 0 .. b - 1, Edge(s, i), Step(s, i) \in S PROVE i \in S
  <2> DEFINE j == Step(s, i)
             v == StepSpan(s, i)
  <2>1. i \in 0 .. L - 1 /\ i \in 0 .. L /\ i < b /\ i < L /\ i < c
    BY <1>1, <1>2
  <2>2. v \in Nat
    BY <2>1, StepIs
  <2>3. g[i] = v + g[j] /\ h[i] = v + h[j]
    BY <1>3, <1>4, <2>1
  <2>4. h[j] = g[j] + w /\ j \in 0 .. L /\ g[j] \in Nat
    BY <1>3, <1>6
  <2> HIDE DEF v, j
  <2>5. h[i] = g[i] + w
    BY <1>2, <2>2, <2>3, <2>4
  <2> QED
    BY <2>1, <2>5
<1>7. \A i \in 0 .. b : Edge(s, i) => i \in S
  <2> HIDE DEF S
  <2> QED
    BY <1>1, <1>5, <1>6, EdgesDown
<1>8. h[0] = g[0] + w
  BY <1>1, <1>7
<1> QED
  BY <1>3, <1>4, <1>8 DEF c, w

\* Positions grow along the edges.
LEMMA PosGrows ==
  ASSUME NEW s \in Seqs, NEW i \in 0 .. Long(s) - 1, Edge(s, i),
         NEW b \in 0 .. Long(s), Edge(s, b), b > i
  PROVE  PosNext(s, i) + StepSpan(s, i) <= PosNext(s, b) /\ PosNext(s, i) < PosNext(s, b)
<1> DEFINE L == Long(s)
           c == Step(s, i)
           S == {j \in 0 .. L : j >= c => PosNext(s, c) <= PosNext(s, j)}
<1>1. L \in Nat /\ i \in Nat /\ i \in 0 .. L /\ b \in Nat
  BY SeqIs
<1>2. c \in i + 1 .. L /\ c \in Nat /\ Edge(s, c) /\ StepSpan(s, i) \in Nat \ {0} /\ c <= b
  BY <1>1, StepIs
<1> HIDE DEF c
<1>3. 0 \in S
  BY <1>1, <1>2
<1>4. ASSUME NEW j \in 0 .. L - 1, Edge(s, j), j \in S PROVE Step(s, j) \in S
  <2> DEFINE k == Step(s, j)
  <2>1. k \in j + 1 .. L /\ k \in Nat /\ Edge(s, k) /\ StepSpan(s, j) \in Nat \ {0} /\ j \in Nat
    BY <1>1, <1>4, StepIs
  <2>2. PosNext(s, k) = PosNext(s, j) + StepSpan(s, j)
    BY <1>4, PosStep
  <2>3. PosNext(s, k) \in Nat /\ PosNext(s, j) \in Nat /\ PosNext(s, c) \in Nat
    BY <1>2, <2>1, PosIsNat
  <2>4. ASSUME j < c, k >= c PROVE k = c
    <3>1. j <= i
      <4> SUFFICES ASSUME j > i PROVE FALSE
        BY <1>1, <2>1
      <4>1. j \in 0 .. L
        BY <1>1
      <4>2. c <= j
        BY <1>4, <4>1, StepIs DEF c
      <4> QED
        BY <1>2, <2>1, <2>4, <4>2
    <3>2. CASE j = i
      BY <3>2 DEF c
    <3>3. CASE j < i
      <4>1. k <= i
        BY <1>1, <1>4, <3>3, StepIs
      <4> QED
        BY <1>1, <1>2, <2>1, <2>4, <4>1
    <3> QED
      BY <1>1, <2>1, <3>1, <3>2, <3>3
  <2> HIDE DEF k
  <2>5. k >= c => PosNext(s, c) <= PosNext(s, k)
    <3>1. CASE j >= c
      <4>1. PosNext(s, c) <= PosNext(s, j)
        BY <1>4, <3>1
      <4> QED
        BY <2>1, <2>2, <2>3, <4>1
    <3>2. CASE j < c
      BY <2>3, <2>4, <3>2
    <3> QED
      BY <1>2, <2>1, <3>1, <3>2
  <2>6. k \in 0 .. L
    BY <2>1
  <2>7. k \in S
    BY <2>5, <2>6
  <2> QED
    BY <2>7 DEF k
<1>5. b \in S
  <2> HIDE DEF S
  <2> QED
    BY <1>3, <1>4, EdgesUp
<1>6. PosNext(s, c) <= PosNext(s, b)
  BY <1>2, <1>5
<1>7. PosNext(s, c) = PosNext(s, i) + StepSpan(s, i)
  BY PosStep DEF c
<1>8. PosNext(s, i) \in Nat /\ PosNext(s, b) \in Nat
  BY <1>1, PosIsNat
<1> QED
  BY <1>2, <1>6, <1>7, <1>8

-----------------------------------------------------------------------------
(* Sequences that agree.                                                    *)

\* Up to cell b two sequences are the same, and no image is cut there.
Alike(s, t, b) ==
  /\ Edge(s, b) /\ Edge(t, b)
  /\ \A k \in 1 .. b : s.tokens[k] = t.tokens[k]
  /\ \A im \in ImageType : im.start < b => (im \in s.images <=> im \in t.images)

\* The cells before cell b.
Before(s, b) == UNION {CellsAt(s, i) : i \in 0 .. b - 1}

\* Up to there they have the same images in the same places.
LEMMA AgreeAt ==
  ASSUME NEW s \in Seqs, NEW t \in Seqs, NEW b, Alike(s, t, b), NEW i \in 0 .. b - 1
  PROVE  /\ ImageAt(s, i) = ImageAt(t, i) /\ ImageCovering(s, i) = ImageCovering(t, i)
         /\ StepCells(s, i) = StepCells(t, i) /\ StepSpan(s, i) = StepSpan(t, i)
         /\ Step(s, i) = Step(t, i) /\ (Edge(s, i) <=> Edge(t, i))
         /\ s.tokens[i + 1] = t.tokens[i + 1]
<1>1. /\ b \in 0 .. Long(s) /\ b \in 0 .. Long(t) /\ Long(s) \in Nat /\ Long(t) \in Nat
      /\ b \in Nat /\ i \in Nat /\ i < b
  BY SeqIs DEF Alike, Edge
<1>2. \A im : im \in s.images => im \in ImageType
  BY SeqIs
<1>3. \A im : im \in t.images => im \in ImageType
  BY SeqIs
<1>4. \A im \in ImageType : im.start <= i => (im \in s.images <=> im \in t.images)
  <2> TAKE im \in ImageType
  <2> HAVE im.start <= i
  <2>1. im.start < b
    BY <1>1 DEF ImageType
  <2> QED
    BY <2>1 DEF Alike
<1>5. ImageAt(s, i) = ImageAt(t, i)
  <2>1. \A im : im.start = i => im.start <= i
    BY <1>1
  <2> QED
    BY <1>2, <1>3, <1>4, <2>1 DEF ImageAt
<1>6. ImageCovering(s, i) = ImageCovering(t, i)
  BY <1>2, <1>3, <1>4 DEF ImageCovering
<1>7. StepCells(s, i) = StepCells(t, i) /\ StepSpan(s, i) = StepSpan(t, i)
  BY <1>5 DEF StepCells, StepSpan
<1>8. i + 1 \in 1 .. b
  BY <1>1
<1>9. s.tokens[i + 1] = t.tokens[i + 1]
  BY <1>8 DEF Alike
<1>10. i \in 0 .. Long(s) /\ i \in 0 .. Long(t)
  BY <1>1
<1> QED
  BY <1>5, <1>6, <1>7, <1>9, <1>10 DEF Step, Edge

\* They agree the other way, too.
LEMMA AgreeBack ==
  ASSUME NEW s, NEW t, NEW b, Alike(s, t, b)
  PROVE  Alike(t, s, b)
BY DEF Alike

\* Up to there the positions are the same (pos_next).
LEMMA AgreePos ==
  ASSUME NEW s \in Seqs, NEW t \in Seqs, NEW b, Alike(s, t, b)
  PROVE  \A i \in 0 .. b : Edge(s, i) => Edge(t, i) /\ PosNext(s, i) = PosNext(t, i)
<1> DEFINE S == {i \in 0 .. Long(s) : i <= b => Edge(t, i) /\ PosNext(s, i) = PosNext(t, i)}
<1>1. /\ b \in 0 .. Long(s) /\ b \in 0 .. Long(t) /\ Long(s) \in Nat /\ Long(t) \in Nat
      /\ b \in Nat
  BY SeqIs DEF Alike, Edge
<1>2. 0 \in S
  <2>1. Edge(t, 0) /\ PosNext(s, 0) = 0 /\ PosNext(t, 0) = 0
    BY PosIsNat, Ends0
  <2> QED
    BY <1>1, <2>1
<1>3. ASSUME NEW i \in 0 .. Long(s) - 1, Edge(s, i), i \in S PROVE Step(s, i) \in S
  <2> DEFINE j == Step(s, i)
  <2>1. j \in i + 1 .. Long(s) /\ i \in Nat
    BY <1>1, <1>3, StepIs
  <2>2. ASSUME j <= b PROVE Edge(t, j) /\ PosNext(s, j) = PosNext(t, j)
    <3>1. i \in 0 .. b - 1 /\ i <= b /\ i \in 0 .. Long(t) - 1
      <4> HIDE DEF j
      <4> QED
        BY <1>1, <2>1, <2>2
    <3>2. Edge(t, i) /\ PosNext(s, i) = PosNext(t, i)
      BY <1>3, <3>1
    <3>3. j = Step(t, i) /\ StepSpan(s, i) = StepSpan(t, i)
      BY <3>1, AgreeAt
    <3>4. PosNext(s, j) = PosNext(s, i) + StepSpan(s, i)
      BY <1>3, PosStep
    <3>5. PosNext(t, Step(t, i)) = PosNext(t, i) + StepSpan(t, i) /\ Edge(t, Step(t, i))
      BY <3>1, <3>2, PosStep, StepIs
    <3> HIDE DEF j
    <3> QED
      BY <3>2, <3>3, <3>4, <3>5
  <2> HIDE DEF j
  <2>3. j \in 0 .. Long(s)
    BY <1>1, <2>1
  <2>4. j \in S
    BY <2>2, <2>3
  <2> QED
    BY <2>4 DEF j
<1>4. \A i \in 0 .. Long(s) : Edge(s, i) => i \in S
  <2> HIDE DEF S
  <2> QED
    BY <1>2, <1>3, EdgesUp
<1> TAKE i \in 0 .. b
<1> HAVE Edge(s, i)
<1>5. i \in 0 .. Long(s) /\ i <= b
  BY <1>1
<1> QED
  BY <1>4, <1>5

\* The cells at i have the position there, and where an image is under way
\* there are none.
LEMMA CellsAtIs ==
  ASSUME NEW s \in Seqs, NEW i \in 0 .. Long(s) - 1
  PROVE  /\ \A c \in CellsAt(s, i) : c.pos = PosNext(s, i)
         /\ ~Edge(s, i) => CellsAt(s, i) = {}
<1>1. \A c \in CellsAt(s, i) : c.pos = PosNext(s, i)
  BY DEF CellsAt
<1>2. i \in 0 .. Long(s)
  BY SeqIs
<1>3. ~Edge(s, i) => CellsAt(s, i) = {}
  BY <1>2 DEF CellsAt, Edge
<1> QED
  BY <1>1, <1>3

\* A sequence's cells are those before b and those from b on, and their
\* positions tell them apart.
LEMMA CellsSplit ==
  ASSUME NEW s \in Seqs, NEW b \in 0 .. Long(s), Edge(s, b)
  PROVE  /\ CellsFrom(s, 0) = Before(s, b) \cup CellsFrom(s, b)
         /\ \A c \in Before(s, b) : c.pos \in Nat /\ c.pos < PosNext(s, b)
         /\ \A c \in CellsFrom(s, b) : c.pos \in Nat /\ c.pos >= PosNext(s, b)
         /\ PosNext(s, b) \in Nat
<1>1. Long(s) \in Nat /\ b \in Nat /\ PosNext(s, b) \in Nat
  <2>1. Long(s) \in Nat /\ b \in Nat
    BY SeqIs
  <2> QED
    BY <2>1, PosIsNat
<1>2. CellsFrom(s, 0) = Before(s, b) \cup CellsFrom(s, b)
  <2>1. 0 .. Long(s) - 1 = (0 .. b - 1) \cup (b .. Long(s) - 1)
    BY <1>1
  <2> QED
    BY <2>1 DEF CellsFrom, Before, Long
<1>3. ASSUME NEW c \in Before(s, b) PROVE c.pos \in Nat /\ c.pos < PosNext(s, b)
  <2>1. PICK i \in 0 .. b - 1 : c \in CellsAt(s, i)
    BY DEF Before
  <2>2. i \in 0 .. Long(s) - 1 /\ i < b /\ i \in Nat
    BY <1>1
  <2>3. Edge(s, i) /\ c.pos = PosNext(s, i)
    BY <2>1, <2>2, CellsAtIs
  <2>4. PosNext(s, i) < PosNext(s, b) /\ PosNext(s, i) \in Nat
    BY <2>2, <2>3, PosGrows, PosIsNat
  <2> QED
    BY <2>3, <2>4
<1>4. ASSUME NEW c \in CellsFrom(s, b) PROVE c.pos \in Nat /\ c.pos >= PosNext(s, b)
  <2>1. PICK i \in b .. Long(s) - 1 : c \in CellsAt(s, i)
    BY DEF CellsFrom, Long
  <2>2. i \in 0 .. Long(s) - 1 /\ i \in 0 .. Long(s) /\ i >= b /\ i \in Nat /\ b \in 0 .. Long(s) - 1
    BY <1>1
  <2>3. Edge(s, i) /\ c.pos = PosNext(s, i)
    BY <2>1, <2>2, CellsAtIs
  <2>4. PosNext(s, i) \in Nat
    BY <2>2, PosIsNat
  <2>5. CASE i = b
    BY <1>1, <2>3, <2>4, <2>5
  <2>6. CASE i # b
    <3>1. i > b
      BY <1>1, <2>2, <2>6
    <3>2. PosNext(s, b) < PosNext(s, i)
      BY <2>2, <2>3, <3>1, PosGrows
    <3> QED
      BY <1>1, <2>3, <2>4, <3>2
  <2> QED
    BY <2>5, <2>6
<1> QED
  BY <1>1, <1>2, <1>3, <1>4

\* Up to where they agree two sequences have the same cells.
LEMMA AgreeCells ==
  ASSUME NEW s \in Seqs, NEW t \in Seqs, NEW b, Alike(s, t, b)
  PROVE  Before(s, b) = Before(t, b)
<1>1. /\ b \in 0 .. Long(s) /\ b \in 0 .. Long(t) /\ Long(s) \in Nat /\ Long(t) \in Nat
      /\ b \in Nat
  BY SeqIs DEF Alike, Edge
<1>2. ASSUME NEW i \in 0 .. b - 1 PROVE CellsAt(s, i) = CellsAt(t, i)
  <2>1. /\ ImageAt(s, i) = ImageAt(t, i) /\ ImageCovering(s, i) = ImageCovering(t, i)
        /\ (Edge(s, i) <=> Edge(t, i)) /\ s.tokens[i + 1] = t.tokens[i + 1]
    BY AgreeAt
  <2>2. i \in 0 .. b /\ i \in 0 .. Long(s) - 1 /\ i \in 0 .. Long(t) - 1
    BY <1>1
  <2>3. CASE Edge(s, i)
    <3>1. PosNext(s, i) = PosNext(t, i)
      BY <2>2, <2>3, AgreePos
    <3> QED
      BY <2>1, <3>1 DEF CellsAt
  <2>4. CASE ~Edge(s, i)
    BY <2>1, <2>2, <2>4, CellsAtIs
  <2> QED
    BY <2>3, <2>4
<1> QED
  BY <1>2 DEF Before

Shorter(s, t) == IF Len(s.tokens) < Len(t.tokens) THEN Len(s.tokens) ELSE Len(t.tokens)

\* common_prefix goes on at i.
SameAt(s, t, i) ==
  IF ImageAt(s, i) = {} /\ ImageAt(t, i) = {} THEN s.tokens[i + 1] = t.tokens[i + 1]
  ELSE \E im \in ImageAt(s, i), jm \in ImageAt(t, i) : im.id = jm.id /\ im.cells = jm.cells

\* Nothing comes before the first cell.
LEMMA AgreeAtZero ==
  ASSUME NEW s \in Seqs, NEW t \in Seqs
  PROVE  Alike(s, t, 0)
BY Ends0 DEF Alike, ImageType

\* Sequences that agree agree up to each edge before.
LEMMA AgreeLess ==
  ASSUME NEW s \in Seqs, NEW t \in Seqs, NEW b, Alike(s, t, b), NEW c \in 0 .. b,
         Edge(s, c) \/ Edge(t, c)
  PROVE  Alike(s, t, c)
<1>1. b \in Nat /\ c \in Nat /\ c <= b
  BY SeqIs DEF Alike, Edge
<1>2. Edge(s, c) /\ Edge(t, c)
  BY AgreePos, AgreeBack
<1>3. \A k \in 1 .. c : s.tokens[k] = t.tokens[k]
  BY <1>1 DEF Alike
<1>4. ASSUME NEW im \in ImageType, im.start < c PROVE im \in s.images <=> im \in t.images
  <2>1. im.start < b
    BY <1>1, <1>4 DEF ImageType
  <2> QED
    BY <2>1 DEF Alike
<1> QED
  BY <1>2, <1>3, <1>4 DEF Alike

\* Where common_prefix goes on, the sequences agree up to the next edge.
LEMMA AgreeOn ==
  ASSUME NEW s \in Seqs, NEW t \in Seqs, NEW i, Alike(s, t, i), i < Shorter(s, t), SameAt(s, t, i)
  PROVE  Alike(s, t, Step(s, i))
<1>1. /\ Long(s) \in Nat /\ Long(t) \in Nat /\ i \in Nat /\ i < Long(s) /\ i < Long(t)
      /\ i \in 0 .. Long(s) - 1 /\ i \in 0 .. Long(t) - 1
      /\ i \in 0 .. Long(s) /\ i \in 0 .. Long(t)
  <2>1. Long(s) \in Nat /\ Long(t) \in Nat /\ i \in 0 .. Long(s)
    BY SeqIs DEF Alike, Edge
  <2> QED
    BY <2>1 DEF Shorter, Long
<1>2. Edge(s, i) /\ Edge(t, i)
  BY DEF Alike
<1>3. Edge(s, Step(s, i)) /\ Edge(t, Step(t, i))
  BY <1>1, <1>2, StepIs
<1>4. CASE ImageAt(s, i) = {} /\ ImageAt(t, i) = {}
  <2>1. Step(s, i) = i + 1 /\ Step(t, i) = i + 1
    BY <1>1, <1>4, OneToken
  <2>2. s.tokens[i + 1] = t.tokens[i + 1]
    BY <1>4 DEF SameAt
  <2>3. ASSUME NEW k \in 1 .. i + 1 PROVE s.tokens[k] = t.tokens[k]
    <3>1. k = i + 1 \/ k \in 1 .. i
      BY <1>1
    <3> QED
      BY <2>2, <3>1 DEF Alike
  <2>4. ASSUME NEW im \in ImageType, im.start < i + 1 PROVE im \in s.images <=> im \in t.images
    <3>1. im.start < i \/ im.start = i
      BY <1>1, <2>4 DEF ImageType
    <3>2. CASE im.start < i
      BY <3>2 DEF Alike
    <3>3. CASE im.start = i
      BY <1>4, <3>3 DEF ImageAt
    <3> QED
      BY <3>1, <3>2, <3>3
  <2>5. Edge(s, i + 1) /\ Edge(t, i + 1)
    BY <1>3, <2>1
  <2> QED
    BY <2>1, <2>3, <2>4, <2>5 DEF Alike
<1>5. CASE ~(ImageAt(s, i) = {} /\ ImageAt(t, i) = {})
  <2>1. PICK im \in ImageAt(s, i), jm \in ImageAt(t, i) : im.id = jm.id /\ im.cells = jm.cells
    <3>1. \E im \in ImageAt(s, i), jm \in ImageAt(t, i) : im.id = jm.id /\ im.cells = jm.cells
      BY <1>5 DEF SameAt
    <3> QED
      BY <3>1
  <2>2. im \in s.images /\ im.start = i /\ jm \in t.images /\ jm.start = i
    BY DEF ImageAt
  <2>3. im.span = SpanOf(im.id, im.cells) /\ jm.span = SpanOf(jm.id, jm.cells)
    BY <2>2, SeqIs
  <2>4. im \in ImageType /\ jm \in ImageType
    BY <2>2, SeqIs
  <2>5. im = jm
    <3>1. im.span = jm.span
      BY <2>1, <2>3
    <3> QED
      BY <2>1, <2>2, <2>4, <3>1 DEF ImageType
  <2> DEFINE e == End(im)
  <2>6. Step(s, i) = e /\ Step(t, i) = e
    BY <2>2, <2>5, OneImage
  <2>7. e \in Nat /\ i < e /\ e = i + im.cells /\ im.cells \in Nat
    BY <2>2, SeqIs DEF End
  <2>8. ASSUME NEW k \in 1 .. e PROVE s.tokens[k] = t.tokens[k]
    <3>1. k \in 1 .. i \/ k \in i + 1 .. e
      <4> HIDE DEF e
      <4> QED
        BY <1>1, <2>7
    <3>2. CASE k \in 1 .. i
      BY <3>2 DEF Alike
    <3>3. CASE k \in i + 1 .. e
      <4>1. s.tokens[k] = 0
        BY <2>2, <3>3 DEF Seqs
      <4>2. t.tokens[k] = 0
        BY <2>2, <2>5, <3>3 DEF Seqs
      <4> QED
        BY <4>1, <4>2
    <3> QED
      BY <3>1, <3>2, <3>3
  <2>9. ASSUME NEW x \in ImageType, x.start < e PROVE x \in s.images <=> x \in t.images
    <3>1. x.start \in Nat
      BY DEF ImageType
    <3>2. CASE x.start < i
      BY <3>2 DEF Alike
    <3>3. CASE x.start >= i
      <4>1. x \in s.images => x = im
        <5> HAVE x \in s.images
        <5>1. (im = x \/ End(im) <= x.start \/ End(x) <= im.start) /\ x.start < End(x) /\ End(x) \in Nat
          BY <2>2, SeqIs
        <5> QED
          BY <1>1, <2>2, <2>7, <2>9, <3>1, <3>3, <5>1
      <4>2. x \in t.images => x = im
        <5> HAVE x \in t.images
        <5>1. (im = x \/ End(im) <= x.start \/ End(x) <= im.start) /\ x.start < End(x) /\ End(x) \in Nat
          BY <2>2, <2>5, SeqIs
        <5> QED
          BY <1>1, <2>2, <2>7, <2>9, <3>1, <3>3, <5>1
      <4> QED
        BY <2>2, <2>5, <4>1, <4>2
    <3> QED
      BY <1>1, <3>1, <3>2, <3>3
  <2>10. Edge(s, e) /\ Edge(t, e)
    BY <1>3, <2>6
  <2> HIDE DEF e
  <2> QED
    BY <2>6, <2>8, <2>9, <2>10 DEF Alike
<1> QED
  BY <1>4, <1>5

\* The sequences agree up to their common prefix (common_prefix).
LEMMA CommonAgrees ==
  ASSUME NEW s \in Seqs, NEW t \in Seqs
  PROVE  Alike(s, t, VisionCommon(s, t))
<1> DEFINE L == Long(s)
           goes(i) == i < Shorter(s, t) /\ SameAt(s, t, i)
           stop == [i \in 0 .. L |-> ~goes(i)]
           last == [i \in 0 .. L |-> IF i < Shorter(s, t) THEN i ELSE Shorter(s, t)]
           to == [i \in 0 .. L |-> Step(s, i)]
           G == [i \in 0 .. L |-> [v \in Nat |-> v]]
           Go[i \in 0 .. Long(s)] ==
             IF i < Shorter(s, t) /\ SameAt(s, t, i) THEN Go[Step(s, i)]
             ELSE IF i < Shorter(s, t) THEN i ELSE Shorter(s, t)
<1>1. L \in Nat /\ Shorter(s, t) \in Nat /\ Shorter(s, t) <= L /\ Shorter(s, t) <= Long(t)
  BY SeqIs DEF Shorter, Long
<1>2. \A i \in 0 .. L : goes(i) => Step(s, i) \in i + 1 .. L
  <2> TAKE i \in 0 .. L
  <2> HAVE goes(i)
  <2>1. i \in 0 .. Long(s) - 1
    <3>1. i < Shorter(s, t)
      OBVIOUS
    <3> HIDE DEF goes
    <3> QED
      BY <1>1, <3>1
  <2> QED
    BY <2>1, StepIs
<1>3. PICK f \in [0 .. L -> Nat] : IsJump(f, L, stop, last, to, G)
  <2> DEFINE X == Nat
  <2>1. G \in [0 .. L -> [X -> X]]
    OBVIOUS
  <2>2. ASSUME NEW i \in 0 .. L PROVE IF stop[i] THEN last[i] \in X ELSE to[i] \in i + 1 .. L
    <3>1. last[i] \in Nat
      BY <1>1
    <3>2. CASE goes(i)
      <4>1. ~stop[i] /\ to[i] = Step(s, i)
        BY <3>2
      <4>2. Step(s, i) \in i + 1 .. L
        BY <1>2, <3>2
      <4> QED
        BY <4>1, <4>2
    <3>3. CASE ~goes(i)
      <4>1. stop[i]
        BY <3>3
      <4> QED
        BY <3>1, <4>1
    <3> QED
      BY <3>2, <3>3
  <2> HIDE DEF L, stop, last, to, G, X
  <2>3. \E f \in [0 .. L -> X] : IsJump(f, L, stop, last, to, G)
    BY <1>1, <2>1, <2>2, JumpExists
  <2> QED
    BY <2>3 DEF X
<1>4. ASSUME NEW i \in 0 .. L
      PROVE  f[i] = IF i < Shorter(s, t) /\ SameAt(s, t, i) THEN f[Step(s, i)]
                    ELSE IF i < Shorter(s, t) THEN i ELSE Shorter(s, t)
  <2>1. f[i] = IF stop[i] THEN last[i] ELSE G[i][f[to[i]]]
    <3> HIDE DEF stop, last, G, to
    <3> QED
      BY <1>3 DEF IsJump
  <2>2. CASE goes(i)
    <3>1. Step(s, i) \in 0 .. L
      <4> DEFINE j == Step(s, i)
      <4>1. j \in i + 1 .. L
        BY <1>2, <2>2
      <4> HIDE DEF j
      <4>2. j \in 0 .. L
        BY <1>1, <4>1
      <4> QED
        BY <4>2 DEF j
    <3>2. to[i] = Step(s, i)
      OBVIOUS
    <3>3. ~stop[i]
      BY <2>2
    <3>4. f[Step(s, i)] \in Nat
      BY <1>3, <3>1
    <3>5. G[i][f[Step(s, i)]] = f[Step(s, i)]
      BY <3>4
    <3> HIDE DEF G, to, stop, last
    <3> QED
      BY <2>1, <2>2, <3>2, <3>3, <3>5
  <2>3. CASE ~goes(i)
    BY <2>1, <2>3
  <2> QED
    BY <2>2, <2>3
<1>5. f = [i \in 0 .. Long(s) |-> IF i < Shorter(s, t) /\ SameAt(s, t, i) THEN f[Step(s, i)]
                                  ELSE IF i < Shorter(s, t) THEN i ELSE Shorter(s, t)]
  <2> HIDE DEF L
  <2>1. f \in [0 .. L -> Nat]
    BY <1>3
  <2> QED
    BY <1>4, <2>1 DEF L
<1>6. Go = [i \in 0 .. Long(s) |-> IF i < Shorter(s, t) /\ SameAt(s, t, i) THEN Go[Step(s, i)]
                                   ELSE IF i < Shorter(s, t) THEN i ELSE Shorter(s, t)]
  <2>1. \E g : g = [i \in 0 .. Long(s) |-> IF i < Shorter(s, t) /\ SameAt(s, t, i) THEN g[Step(s, i)]
                                   ELSE IF i < Shorter(s, t) THEN i ELSE Shorter(s, t)]
    BY <1>5
  <2> QED
    BY <2>1 DEF Go
<1>7. VisionCommon(s, t) = Go[0]
  BY DEF VisionCommon, Go, Step, Long, Shorter, SameAt
<1> HIDE DEF Go, stop, last, to, G
<1>8. \A i \in 0 .. L : Go[i] = IF i < Shorter(s, t) /\ SameAt(s, t, i) THEN Go[Step(s, i)]
                                ELSE IF i < Shorter(s, t) THEN i ELSE Shorter(s, t)
  BY <1>6
<1> DEFINE S == {i \in 0 .. L : Alike(s, t, i) => Alike(s, t, Go[i])}
<1>9. ASSUME NEW i \in 0 .. L, Alike(s, t, i), ~goes(i) PROVE Go[i] = i
  <2>1. i \in 0 .. Long(t)
    BY <1>9 DEF Alike, Edge
  <2>2. i <= Shorter(s, t)
    BY <1>1, <1>9, <2>1 DEF Shorter, Long
  <2>3. Go[i] = IF i < Shorter(s, t) THEN i ELSE Shorter(s, t)
    BY <1>8, <1>9
  <2> QED
    BY <1>1, <2>2, <2>3
<1>10. L \in S
  <2>1. L \in 0 .. L /\ ~goes(L)
    BY <1>1
  <2> QED
    BY <1>9, <2>1
<1>11. ASSUME NEW i \in 0 .. L - 1, Edge(s, i), Step(s, i) \in S PROVE i \in S
  <2>1. i \in 0 .. L
    BY <1>1
  <2>2. ASSUME Alike(s, t, i), goes(i) PROVE Alike(s, t, Go[i])
    <3>1. Alike(s, t, Step(s, i))
      BY <2>2, AgreeOn
    <3>2. Go[i] = Go[Step(s, i)]
      BY <1>8, <2>1, <2>2
    <3> QED
      BY <1>11, <3>1, <3>2
  <2>3. Alike(s, t, i) => Alike(s, t, Go[i])
    <3> HIDE DEF goes
    <3> QED
      BY <1>9, <2>1, <2>2
  <2> QED
    BY <2>1, <2>3
<1>12. 0 \in S
  <2> HIDE DEF S
  <2>1. 0 \in 0 .. L /\ L \in 0 .. Long(s) /\ Edge(s, 0) /\ Edge(s, L)
    BY <1>1, Ends0
  <2> QED
    BY <1>10, <1>11, <2>1, EdgesDown
<1> QED
  BY <1>7, <1>12, AgreeAtZero

\* What reuse_for_bind keeps is what the sequences have in common, without a
\* part of an image and without the last cell of the prompt.
LEMMA PromptReuseIs ==
  ASSUME NEW old \in Seqs, NEW prompt \in Seqs, prompt.tokens # <<>>, NEW covered
  PROVE  /\ VisionReuse(old, prompt, covered) \in 0 .. Long(prompt) - 1
         /\ Alike(old, prompt, VisionReuse(old, prompt, covered))
<1> DEFINE n == VisionCommon(old, prompt)
           m == IF n < Len(prompt.tokens) THEN n ELSE Len(prompt.tokens) - 1
           held == ImageCovering(prompt, m)
           whole == IF held = {} THEN m ELSE (CHOOSE im \in held : TRUE).start
<1>1. Alike(old, prompt, n)
  BY CommonAgrees
<1> HIDE DEF n
<1>2. n \in 0 .. Long(prompt) /\ n \in Nat /\ Long(prompt) \in Nat /\ Edge(prompt, n)
  BY <1>1, SeqIs DEF Alike, Edge
<1>3. Long(prompt) > 0
  BY <1>2, SeqIs, EmptySeq DEF Long
<1>4. m \in 0 .. Long(prompt) - 1 /\ m <= n /\ m \in Nat
  BY <1>2, <1>3 DEF Long
<1> HIDE DEF m
<1>5. whole \in 0 .. m /\ Edge(prompt, whole)
  <2>1. CASE held = {}
    <3>1. m \in 0 .. Long(prompt) /\ m \in 0 .. m
      BY <1>2, <1>4
    <3> QED
      BY <2>1, <3>1 DEF Edge
  <2>2. CASE held # {}
    <3>1. PICK im \in held : im = CHOOSE jm \in held : TRUE
      BY <2>2
    <3>2. whole = im.start
      BY <2>2, <3>1
    <3>3. im \in prompt.images /\ im.start <= m /\ im.start \in Nat
      BY SeqIs DEF ImageCovering
    <3>4. Edge(prompt, im.start)
      BY <3>3, OneImage
    <3> QED
      BY <1>4, <3>2, <3>3, <3>4
  <2> QED
    BY <2>1, <2>2
<1>6. VisionReuse(old, prompt, covered) = 0 \/ VisionReuse(old, prompt, covered) = whole
  BY DEF VisionReuse, n, m
<1> HIDE DEF whole
<1>7. whole \in 0 .. n /\ whole \in 0 .. Long(prompt) - 1 /\ 0 \in 0 .. Long(prompt) - 1
  BY <1>2, <1>4, <1>5, <1>3
<1>8. Alike(old, prompt, whole)
  BY <1>1, <1>5, <1>7, AgreeLess
<1> QED
  BY <1>6, <1>7, <1>8, AgreeAtZero

-----------------------------------------------------------------------------
(* To cut, to append, and to read a prompt.                                 *)

\* The sequence with one more token.
OneMore(s, x) == [tokens |-> Append(s.tokens, x), images |-> s.images]

\* The first cells of a sequence.
Part(s, b) == [tokens |-> SubSeq(s.tokens, 1, b), images |-> {im \in s.images : im.start < b}]

\* The first cells up to an edge are a sequence, the same up to there.
LEMMA PartIs ==
  ASSUME NEW s \in Seqs, NEW b \in 0 .. Long(s), Edge(s, b)
  PROVE  Part(s, b) \in Seqs /\ Long(Part(s, b)) = b
<1> DEFINE t == SubSeq(s.tokens, 1, b)
           r == Part(s, b)
<1>1. s.tokens \in Seq(Nat) /\ Len(s.tokens) \in Nat /\ b \in Nat /\ b <= Len(s.tokens)
      /\ s.images \in SUBSET ImageType
  <2>1. s.tokens \in Seq(Nat) /\ Long(s) \in Nat /\ s.images \in SUBSET ImageType
    BY SeqIs
  <2> QED
    BY <2>1 DEF Long
<1>2. t \in Seq(Nat) /\ Len(t) = b /\ \A k \in 1 .. b : t[k] = s.tokens[k]
  <2>1. \A k \in 1 .. b : s.tokens[k] \in Nat
    BY <1>1, ElementOfSeq
  <2> QED
    BY <1>1, <2>1, SubSeqProperties
<1> HIDE DEF t
<1>3. r.tokens = t /\ r.images = {im \in s.images : im.start < b}
      /\ r = [tokens |-> r.tokens, images |-> r.images]
  BY DEF Part, t
<1> HIDE DEF r
<1>4. ASSUME NEW im \in s.images, im.start < b
      PROVE  End(im) <= b /\ im.start \in Nat /\ End(im) \in Nat /\ im.start < End(im)
  <2>1. im.start \in Nat /\ End(im) \in Nat /\ im.start < End(im) /\ End(im) <= Long(s)
        /\ im.start \in Nat /\ Edge(s, im.start) /\ Step(s, im.start) = End(im)
    BY SeqIs, OneImage
  <2>2. im.start \in 0 .. Long(s) - 1
    BY <1>1, <2>1 DEF Long
  <2>3. End(im) <= b
    BY <1>4, <2>1, <2>2, StepIs
  <2> QED
    BY <2>1, <2>3
<1>5. ASSUME NEW im \in r.images
      PROVE  /\ End(im) <= Len(r.tokens) /\ im.span = SpanOf(im.id, im.cells)
             /\ \A k \in im.start + 1 .. End(im) : r.tokens[k] = 0
  <2>1. im \in s.images /\ im.start < b
    BY <1>3
  <2>2. End(im) <= b /\ im.start \in Nat /\ End(im) \in Nat
    BY <1>4, <2>1
  <2>3. im.span = SpanOf(im.id, im.cells) /\ \A k \in im.start + 1 .. End(im) : s.tokens[k] = 0
    BY <2>1 DEF Seqs
  <2>4. \A k \in im.start + 1 .. End(im) : k \in 1 .. b
    BY <1>1, <2>2
  <2> QED
    BY <1>2, <1>3, <2>2, <2>3, <2>4
<1>6. \A im, jm \in r.images : im = jm \/ End(im) <= jm.start \/ End(jm) <= im.start
  BY <1>3, SeqIs
<1>7. r \in [tokens : Seq(Nat), images : SUBSET ImageType]
  <2>1. r.images \in SUBSET ImageType /\ r.tokens \in Seq(Nat)
    BY <1>1, <1>2, <1>3
  <2> QED
    BY <1>3, <2>1
<1>8. r \in Seqs
  BY <1>5, <1>6, <1>7 DEF Seqs
<1> QED
  BY <1>2, <1>3, <1>8 DEF r, Long

\* To cut at the position of an edge is to keep what comes before it
\* (truncate_to_pos).
LEMMA TruncatedIs ==
  ASSUME NEW s \in Seqs, NEW b \in 0 .. Long(s), Edge(s, b)
  PROVE  Truncated(s, PosNext(s, b)) = Part(s, b)
<1> DEFINE L == Long(s)
           pos == PosNext(s, b)
           goes(i) == i < L /\ PosNext(s, i) + StepSpan(s, i) <= pos
           stop == [i \in 0 .. L |-> ~goes(i)]
           last == [i \in 0 .. L |-> i]
           to == [i \in 0 .. L |-> Step(s, i)]
           G == [i \in 0 .. L |-> [v \in Nat |-> v]]
           Go[i \in 0 .. Long(s)] ==
             IF i < Long(s) /\ PosNext(s, i) + StepSpan(s, i) <= PosNext(s, b)
             THEN Go[Step(s, i)] ELSE i
<1>1. L \in Nat /\ b \in Nat /\ b <= L
  BY SeqIs
<1>2. \A i \in 0 .. L : goes(i) => Step(s, i) \in i + 1 .. L
  <2> TAKE i \in 0 .. L
  <2> HAVE goes(i)
  <2>1. i \in 0 .. Long(s) - 1
    <3>1. i < L
      OBVIOUS
    <3> HIDE DEF goes
    <3> QED
      BY <1>1, <3>1
  <2> QED
    BY <2>1, StepIs
<1>3. PICK f \in [0 .. L -> Nat] : IsJump(f, L, stop, last, to, G)
  <2> DEFINE X == Nat
  <2>1. G \in [0 .. L -> [X -> X]]
    OBVIOUS
  <2>2. ASSUME NEW i \in 0 .. L PROVE IF stop[i] THEN last[i] \in X ELSE to[i] \in i + 1 .. L
    <3>1. last[i] \in Nat
      BY <1>1
    <3>2. CASE goes(i)
      <4>1. ~stop[i] /\ to[i] = Step(s, i)
        BY <3>2
      <4>2. Step(s, i) \in i + 1 .. L
        BY <1>2, <3>2
      <4> QED
        BY <4>1, <4>2
    <3>3. CASE ~goes(i)
      <4>1. stop[i]
        BY <3>3
      <4> QED
        BY <3>1, <4>1
    <3> QED
      BY <3>2, <3>3
  <2> HIDE DEF L, stop, last, to, G, X
  <2>3. \E f \in [0 .. L -> X] : IsJump(f, L, stop, last, to, G)
    BY <1>1, <2>1, <2>2, JumpExists
  <2> QED
    BY <2>3 DEF X
<1>4. ASSUME NEW i \in 0 .. L
      PROVE  f[i] = IF i < Long(s) /\ PosNext(s, i) + StepSpan(s, i) <= PosNext(s, b)
                    THEN f[Step(s, i)] ELSE i
  <2>1. f[i] = IF stop[i] THEN last[i] ELSE G[i][f[to[i]]]
    <3> HIDE DEF stop, last, G, to
    <3> QED
      BY <1>3 DEF IsJump
  <2>2. CASE goes(i)
    <3>1. Step(s, i) \in 0 .. L
      <4> DEFINE j == Step(s, i)
      <4>1. j \in i + 1 .. L
        BY <1>2, <2>2
      <4> HIDE DEF j
      <4>2. j \in 0 .. L
        BY <1>1, <4>1
      <4> QED
        BY <4>2 DEF j
    <3>2. to[i] = Step(s, i)
      OBVIOUS
    <3>3. ~stop[i]
      BY <2>2
    <3>4. f[Step(s, i)] \in Nat
      BY <1>3, <3>1
    <3>5. G[i][f[Step(s, i)]] = f[Step(s, i)]
      BY <3>4
    <3> HIDE DEF G, to, stop, last
    <3> QED
      BY <2>1, <2>2, <3>2, <3>3, <3>5
  <2>3. CASE ~goes(i)
    <3>1. stop[i] /\ last[i] = i
      BY <2>3
    <3> HIDE DEF G, to, stop, last
    <3> QED
      BY <2>1, <2>3, <3>1
  <2> QED
    BY <2>2, <2>3
<1>5. f = [i \in 0 .. Long(s) |-> IF i < Long(s) /\ PosNext(s, i) + StepSpan(s, i) <= PosNext(s, b)
                                  THEN f[Step(s, i)] ELSE i]
  <2> HIDE DEF L
  <2>1. f \in [0 .. L -> Nat]
    BY <1>3
  <2> QED
    BY <1>4, <2>1 DEF L
<1>6. Go = [i \in 0 .. Long(s) |-> IF i < Long(s) /\ PosNext(s, i) + StepSpan(s, i) <= PosNext(s, b)
                                   THEN Go[Step(s, i)] ELSE i]
  <2>1. \E g : g = [i \in 0 .. Long(s) |->
                      IF i < Long(s) /\ PosNext(s, i) + StepSpan(s, i) <= PosNext(s, b)
                      THEN g[Step(s, i)] ELSE i]
    BY <1>5
  <2> QED
    BY <2>1 DEF Go
<1>7. Truncated(s, PosNext(s, b)) = Part(s, Go[0])
  BY DEF Truncated, Part, Go, Step, Long
<1> HIDE DEF Go, stop, last, to, G, pos
<1>8. \A i \in 0 .. L : Go[i] = IF i < L /\ PosNext(s, i) + StepSpan(s, i) <= pos
                                THEN Go[Step(s, i)] ELSE i
  BY <1>6 DEF pos
<1> DEFINE S == {i \in 0 .. L : Go[i] = b}
<1>9. b \in S
  <2>1. ASSUME b < L PROVE ~(PosNext(s, b) + StepSpan(s, b) <= pos)
    <3>1. b \in 0 .. Long(s) - 1
      BY <1>1, <2>1
    <3>2. PosNext(s, b) \in Nat /\ StepSpan(s, b) \in Nat \ {0}
      BY <1>1, <3>1, PosIsNat, StepIs
    <3> QED
      BY <3>2 DEF pos
  <2>2. Go[b] = b
    <3>1. b \in 0 .. L
      BY <1>1
    <3> QED
      BY <1>8, <2>1, <3>1
  <2> QED
    BY <1>1, <2>2
<1>10. ASSUME NEW i \in 0 .. b - 1, Edge(s, i), Step(s, i) \in S PROVE i \in S
  <2>1. i \in 0 .. Long(s) - 1 /\ b > i /\ i \in 0 .. L /\ i < L
    BY <1>1
  <2>2. PosNext(s, i) + StepSpan(s, i) <= pos
    BY <1>10, <2>1, PosGrows DEF pos
  <2>3. Go[i] = Go[Step(s, i)]
    BY <1>8, <2>1, <2>2
  <2> QED
    BY <1>10, <2>1, <2>3
<1>11. 0 \in S
  <2> HIDE DEF S
  <2>1. 0 \in 0 .. b /\ Edge(s, 0)
    BY <1>1, Ends0
  <2> QED
    BY <1>9, <1>10, <2>1, EdgesDown
<1> QED
  BY <1>7, <1>11

\* A token more is one cell more, at the next position.
LEMMA OneMoreIs ==
  ASSUME NEW s \in Seqs, NEW x \in Nat
  PROVE  /\ OneMore(s, x) \in Seqs /\ Long(OneMore(s, x)) = Long(s) + 1
         /\ Edge(OneMore(s, x), Long(s)) /\ Part(OneMore(s, x), Long(s)) = s
         /\ PosNext(OneMore(s, x), Long(s)) = PosNext(s, Long(s))
         /\ PosNext(OneMore(s, x), Long(s) + 1) = PosNext(s, Long(s)) + 1
         /\ CellsFrom(OneMore(s, x), 0)
              = CellsFrom(s, 0) \cup {[pos |-> PosNext(s, Long(s)), what |-> <<"token", x>>]}
<1> DEFINE t == Append(s.tokens, x)
           r == OneMore(s, x)
           n == Long(s)
<1>1. s.tokens \in Seq(Nat) /\ Len(s.tokens) = n /\ n \in Nat
      /\ s.images \in SUBSET ImageType /\ s = [tokens |-> s.tokens, images |-> s.images]
  BY SeqIs DEF Long
<1>2. t \in Seq(Nat) /\ Len(t) = n + 1 /\ (\A k \in 1 .. n : t[k] = s.tokens[k]) /\ t[n + 1] = x
  BY <1>1, AppendProperties
<1> HIDE DEF t
<1>3. r.tokens = t /\ r.images = s.images /\ r = [tokens |-> t, images |-> s.images] /\ Long(r) = n + 1
  BY <1>2 DEF OneMore, t, Long
<1> HIDE DEF r, n
<1>4. ASSUME NEW im \in s.images
      PROVE  /\ im.start \in Nat /\ End(im) \in Nat /\ im.start < End(im) /\ End(im) <= n
             /\ End(im) <= Len(t) /\ im.span = SpanOf(im.id, im.cells)
             /\ \A k \in im.start + 1 .. End(im) : t[k] = 0
  <2>1. /\ im.start \in Nat /\ End(im) \in Nat /\ im.start < End(im) /\ End(im) <= n
        /\ im.span = SpanOf(im.id, im.cells)
    BY SeqIs DEF n
  <2>2. \A k \in im.start + 1 .. End(im) : s.tokens[k] = 0
    BY DEF Seqs
  <2>3. \A k \in im.start + 1 .. End(im) : k \in 1 .. n
    BY <1>1, <2>1
  <2>4. \A k \in im.start + 1 .. End(im) : t[k] = 0
    BY <1>2, <2>2, <2>3
  <2>5. End(im) <= Len(t)
    BY <1>1, <1>2, <2>1
  <2> QED
    BY <2>1, <2>4, <2>5
<1>5. r \in Seqs
  <2>1. r \in [tokens : Seq(Nat), images : SUBSET ImageType]
    BY <1>1, <1>2, <1>3
  <2>2. \A im, jm \in s.images : im = jm \/ End(im) <= jm.start \/ End(jm) <= im.start
    BY SeqIs
  <2> QED
    BY <1>3, <1>4, <2>1, <2>2 DEF Seqs
<1>6. ImageCovering(r, n) = {} /\ ImageAt(r, n) = {}
  <2>1. \A im \in s.images : im.start < n /\ ~(n < im.start + im.cells)
    BY <1>1, <1>4 DEF End
  <2> QED
    BY <1>1, <1>3, <1>4, <2>1 DEF ImageCovering, ImageAt
<1>7. Edge(r, n) /\ n \in 0 .. Long(r) - 1 /\ n \in 0 .. Long(r)
  BY <1>1, <1>3, <1>6 DEF Edge
<1>8. Alike(r, s, n)
  <2>1. Edge(s, n)
    BY Ends0 DEF n
  <2> QED
    BY <1>2, <1>3, <1>7, <2>1 DEF Alike
<1>9. PosNext(r, n) = PosNext(s, n)
  <2>1. n \in 0 .. n
    BY <1>1
  <2> QED
    BY <1>5, <1>7, <1>8, <2>1, AgreePos
<1>10. StepSpan(r, n) = 1 /\ Step(r, n) = n + 1
  BY <1>5, <1>6, <1>7, OneToken
<1>11. PosNext(r, n + 1) = PosNext(s, n) + 1
  <2>1. PosNext(r, Step(r, n)) = PosNext(r, n) + StepSpan(r, n)
    BY <1>5, <1>7, PosStep
  <2> QED
    BY <1>9, <1>10, <2>1
<1>12. CellsFrom(r, n) = {[pos |-> PosNext(s, n), what |-> <<"token", x>>]}
  <2>1. n .. Len(r.tokens) - 1 = {n}
    BY <1>1, <1>2, <1>3
  <2>2. CellsFrom(r, n) = CellsAt(r, n)
    BY <2>1 DEF CellsFrom
  <2> QED
    BY <1>2, <1>3, <1>6, <1>9, <2>2 DEF CellsAt
<1>13. CellsFrom(r, 0) = Before(r, n) \cup CellsFrom(r, n)
  BY <1>5, <1>7, CellsSplit
<1>14. Before(r, n) = Before(s, n)
  BY <1>5, <1>8, AgreeCells
<1>15. Before(s, n) = CellsFrom(s, 0)
  BY <1>1 DEF Before, CellsFrom
<1>16. Part(r, n) = s
  <2> DEFINE u == SubSeq(t, 1, n)
  <2>1. \A k \in 1 .. n : t[k] \in Nat
    BY <1>1, <1>2, ElementOfSeq
  <2>2. u \in Seq(Nat) /\ Len(u) = n /\ \A k \in 1 .. n : u[k] = t[k]
    BY <1>1, <2>1, SubSeqProperties
  <2> HIDE DEF u
  <2>3. u = s.tokens
    BY <1>1, <1>2, <2>2, SeqEqual
  <2>4. {im \in s.images : im.start < n} = s.images
    BY <1>1, <1>4
  <2>5. Part(r, n) = [tokens |-> u, images |-> {im \in s.images : im.start < n}]
    BY <1>3 DEF Part, u
  <2> QED
    BY <1>1, <2>3, <2>4, <2>5
<1> QED
  BY <1>3, <1>5, <1>7, <1>9, <1>11, <1>12, <1>13, <1>14, <1>15, <1>16 DEF r, n

\* One chunk more (from_chunks).
AddChunk(s, c) ==
  IF c.id = "" THEN [s EXCEPT !.tokens = @ \o c.text]
  ELSE [tokens |-> s.tokens \o [k \in 1 .. c.cells |-> 0],
        images |-> s.images \cup
          {[start |-> Len(s.tokens), id |-> c.id, cells |-> c.cells, span |-> c.span]}]

\* An image of a prompt takes the positions its id and cells tell.
LEMMA SpanIs ==
  ASSUME NEW p \in VisionPrompts, NEW k \in DOMAIN p
  PROVE  p[k].id # "" => /\ p[k].cells \in Nat \ {0} /\ p[k].span \in Nat \ {0} /\ p[k].id \in STRING
                         /\ p[k].span = SpanOf(p[k].id, p[k].cells)
<1> DEFINE c == p[k]
           Spans == {m \in Nat : \E r \in VisionPrompts : \E j \in DOMAIN r :
                       c.id # "" /\ r[j].id = c.id /\ r[j].cells = c.cells /\ r[j].span = m}
<1>1. c \in [id : STRING, text : Seq(Nat), cells : Nat, span : Nat]
  <2>1. p \in Seq([id : STRING, text : Seq(Nat), cells : Nat, span : Nat])
    BY VisionAssumption
  <2> QED
    BY <2>1, LenProperties, ElementOfSeq
<1>2. c.id # "" => c.cells > 0 /\ c.span > 0
  BY VisionAssumption
<1>3. \A m \in Spans : m = c.span
  BY VisionAssumption
<1>4. c.id # "" => c.span \in Spans
  BY <1>1
<1>5. SpanOf(c.id, c.cells) = CHOOSE m \in Nat : m \in Spans
  BY DEF SpanOf
<1>6. c.id # "" => (CHOOSE m \in Nat : m \in Spans) \in Spans
  <2> HIDE DEF Spans
  <2> QED
    BY <1>1, <1>4
<1>7. c.id # "" => c.span = SpanOf(c.id, c.cells)
  BY <1>3, <1>5, <1>6
<1> HIDE DEF Spans, c
<1>8. c.cells \in Nat /\ c.span \in Nat /\ c.id \in STRING
  BY <1>1
<1>9. (c.cells > 0 => c.cells \in Nat \ {0}) /\ (c.span > 0 => c.span \in Nat \ {0})
  BY <1>8
<1> QED
  BY <1>2, <1>7, <1>8, <1>9 DEF c

\* A chunk is added whole.
LEMMA AddIs ==
  ASSUME NEW s \in Seqs, NEW p \in VisionPrompts, NEW k \in DOMAIN p
  PROVE  AddChunk(s, p[k]) \in Seqs
<1> DEFINE c == p[k]
           r == AddChunk(s, c)
           n == Long(s)
<1>1. c \in [id : STRING, text : Seq(Nat), cells : Nat, span : Nat]
  <2>1. p \in Seq([id : STRING, text : Seq(Nat), cells : Nat, span : Nat])
    BY VisionAssumption
  <2> QED
    BY <2>1, LenProperties, ElementOfSeq
<1>2. s.tokens \in Seq(Nat) /\ Len(s.tokens) = n /\ n \in Nat
      /\ s.images \in SUBSET ImageType /\ s = [tokens |-> s.tokens, images |-> s.images]
  BY SeqIs DEF Long
<1>3. ASSUME NEW more \in Seq(Nat)
      PROVE  /\ s.tokens \o more \in Seq(Nat) /\ Len(s.tokens \o more) = n + Len(more)
             /\ Len(more) \in Nat
             /\ \A i \in 1 .. n : (s.tokens \o more)[i] = s.tokens[i]
             /\ \A i \in n + 1 .. n + Len(more) : (s.tokens \o more)[i] = more[i - n]
  <2>1. Len(more) \in Nat
    BY LenProperties
  <2>2. /\ s.tokens \o more \in Seq(Nat)
        /\ Len(s.tokens \o more) = Len(s.tokens) + Len(more)
        /\ \A i \in 1 .. Len(s.tokens) + Len(more) : (s.tokens \o more)[i] =
             IF i <= Len(s.tokens) THEN s.tokens[i] ELSE more[i - Len(s.tokens)]
    BY <1>2, ConcatProperties
  <2> DEFINE t == s.tokens \o more
  <2> HIDE DEF t
  <2>3. \A i \in 1 .. n + Len(more) : t[i] = IF i <= n THEN s.tokens[i] ELSE more[i - n]
    BY <1>2, <2>2 DEF t
  <2>4. \A i \in 1 .. n : i \in 1 .. n + Len(more) /\ i <= n
    BY <1>2, <2>1
  <2>5. \A i \in n + 1 .. n + Len(more) : i \in 1 .. n + Len(more) /\ ~(i <= n)
    BY <1>2, <2>1
  <2> QED
    BY <1>2, <2>1, <2>2, <2>3, <2>4, <2>5 DEF t
<1>4. \A im \in s.images :
        /\ im.start \in Nat /\ End(im) \in Nat /\ im.start < End(im) /\ End(im) <= n
        /\ im.span = SpanOf(im.id, im.cells)
        /\ \A i \in im.start + 1 .. End(im) : i \in 1 .. n /\ s.tokens[i] = 0
  <2> TAKE im \in s.images
  <2>1. im.start \in Nat /\ End(im) \in Nat /\ im.start < End(im) /\ End(im) <= n
        /\ im.span = SpanOf(im.id, im.cells)
    BY SeqIs DEF n
  <2>2. \A i \in im.start + 1 .. End(im) : s.tokens[i] = 0
    BY DEF Seqs
  <2>3. \A i \in im.start + 1 .. End(im) : i \in 1 .. n
    BY <1>2, <2>1
  <2> QED
    BY <2>1, <2>2, <2>3
<1> HIDE DEF c, n
<1>5. CASE c.id = ""
  <2> DEFINE t == s.tokens \o c.text
  <2>1. c.text \in Seq(Nat)
    BY <1>1
  <2>2. /\ t \in Seq(Nat) /\ Len(t) = n + Len(c.text) /\ Len(c.text) \in Nat
        /\ \A i \in 1 .. n : t[i] = s.tokens[i]
    BY <1>3, <2>1
  <2>3. r = [tokens |-> t, images |-> s.images]
    BY <1>2, <1>5 DEF AddChunk
  <2> HIDE DEF t, r
  <2>4. r \in [tokens : Seq(Nat), images : SUBSET ImageType]
    BY <1>2, <2>2, <2>3
  <2>5. \A im \in s.images :
          /\ End(im) <= Len(t) /\ im.span = SpanOf(im.id, im.cells)
          /\ \A i \in im.start + 1 .. End(im) : t[i] = 0
    <3> TAKE im \in s.images
    <3>1. End(im) <= Len(t)
      BY <1>2, <1>4, <2>2
    <3> QED
      BY <1>4, <2>2, <3>1
  <2>6. \A im, jm \in s.images : im = jm \/ End(im) <= jm.start \/ End(jm) <= im.start
    BY SeqIs
  <2>7. r \in Seqs
    BY <2>3, <2>4, <2>5, <2>6 DEF Seqs
  <2> QED
    BY <2>7 DEF r, c
<1>6. CASE c.id # ""
  <2> DEFINE zeros == [i \in 1 .. c.cells |-> 0]
             t == s.tokens \o zeros
             new == [start |-> n, id |-> c.id, cells |-> c.cells, span |-> c.span]
  <2>1. /\ c.cells \in Nat \ {0} /\ c.span \in Nat \ {0} /\ c.id \in STRING
        /\ c.span = SpanOf(c.id, c.cells)
    BY <1>6, SpanIs DEF c
  <2>2. zeros \in Seq(Nat) /\ Len(zeros) = c.cells /\ \A i \in 1 .. c.cells : zeros[i] = 0
    BY <2>1
  <2> HIDE DEF zeros
  <2>3. /\ t \in Seq(Nat) /\ Len(t) = n + c.cells
        /\ \A i \in 1 .. n : t[i] = s.tokens[i]
        /\ \A i \in n + 1 .. n + c.cells : t[i] = zeros[i - n]
    BY <1>3, <2>2
  <2>4. \A i \in n + 1 .. n + c.cells : t[i] = 0
    <3> HIDE DEF t
    <3>1. \A i \in n + 1 .. n + c.cells : i - n \in 1 .. c.cells
      BY <1>2, <2>1
    <3> QED
      BY <2>2, <2>3, <3>1
  <2>5. r = [tokens |-> t, images |-> s.images \cup {new}]
    BY <1>2, <1>6 DEF AddChunk, zeros
  <2>6. new \in ImageType /\ new.start = n /\ End(new) = n + c.cells /\ End(new) \in Nat
        /\ new.span = SpanOf(new.id, new.cells)
    BY <1>2, <2>1 DEF ImageType, End
  <2> HIDE DEF t, r, new
  <2>7. r \in [tokens : Seq(Nat), images : SUBSET ImageType]
    BY <1>2, <2>3, <2>5, <2>6
  <2>8. \A im \in s.images \cup {new} :
          /\ End(im) <= Len(t) /\ im.span = SpanOf(im.id, im.cells)
          /\ \A i \in im.start + 1 .. End(im) : t[i] = 0
    <3> TAKE im \in s.images \cup {new}
    <3>1. CASE im \in s.images
      <4>1. End(im) <= Len(t)
        BY <1>2, <1>4, <2>1, <2>3, <3>1
      <4> QED
        BY <1>4, <2>3, <3>1, <4>1
    <3>2. CASE im = new
      BY <1>2, <2>1, <2>3, <2>4, <2>6, <3>2
    <3> QED
      BY <3>1, <3>2
  <2>9. \A im, jm \in s.images \cup {new} : im = jm \/ End(im) <= jm.start \/ End(jm) <= im.start
    <3>1. \A im, jm \in s.images : im = jm \/ End(im) <= jm.start \/ End(jm) <= im.start
      BY SeqIs
    <3>2. \A im \in s.images : End(im) <= new.start
      BY <1>4, <2>6
    <3> QED
      BY <3>1, <3>2
  <2>10. r \in Seqs
    BY <2>5, <2>7, <2>8, <2>9 DEF Seqs
  <2> QED
    BY <2>10 DEF r, c
<1> QED
  BY <1>5, <1>6

\* Nothing is a sequence.
LEMMA NoSeqIs == NoSeq \in Seqs /\ Long(NoSeq) = 0
<1>1. <<>> \in Seq(Nat) /\ Len(<<>>) = 0
  BY EmptySeq
<1> QED
  BY <1>1 DEF NoSeq, Seqs, Long

\* The chunks of a prompt make a sequence (from_chunks).
LEMMA FromChunksIs ==
  ASSUME NEW p \in VisionPrompts
  PROVE  FromChunks(p) \in Seqs /\ FromChunks(p).tokens # <<>>
<1> DEFINE D == DOMAIN p
           n == Len(p)
           iter[s \in SUBSET D] ==
             IF s = {} THEN NoSeq ELSE AddChunk(iter[s \ {Max(s)}], p[Max(s)])
           G == [k \in 1 .. n |-> [s \in Seqs |-> AddChunk(s, p[k])]]
<1>1. FromChunks(p) = iter[D]
  BY DEF FromChunks, FoldLeft, MapThenFoldSet, AddChunk
<1>2. D = 1 .. n /\ n \in Nat
  <2>1. p \in Seq([id : STRING, text : Seq(Nat), cells : Nat, span : Nat])
    BY VisionAssumption
  <2> QED
    BY <2>1, LenProperties
<1> HIDE DEF n
<1>3. G \in [1 .. n -> [Seqs -> Seqs]]
  BY <1>2, AddIs
<1>4. PICK f \in [SUBSET (1 .. n) -> Seqs] : IsFold(f, NoSeq, n, G)
  <2> DEFINE X == Seqs
  <2>1. G \in [1 .. n -> [X -> X]] /\ NoSeq \in X
    BY <1>3, NoSeqIs
  <2> HIDE DEF G, X
  <2>2. \E f \in [SUBSET (1 .. n) -> X] : IsFold(f, NoSeq, n, G)
    BY <1>2, <2>1, FoldExists
  <2> QED
    BY <2>2 DEF X
<1>5. \A s \in SUBSET (1 .. n) : s # {} =>
        Max(s) \in 1 .. n /\ s \ {Max(s)} \in SUBSET (1 .. n)
  BY <1>2, MaxUpTo
<1> HIDE DEF D
<1>6. f = [s \in SUBSET D |-> IF s = {} THEN NoSeq ELSE AddChunk(f[s \ {Max(s)}], p[Max(s)])]
  <2>1. ASSUME NEW s \in SUBSET (1 .. n), s # {}
        PROVE  f[s] = AddChunk(f[s \ {Max(s)}], p[Max(s)])
    <3>1. Max(s) \in 1 .. n /\ f[s \ {Max(s)}] \in Seqs
      BY <1>4, <1>5, <2>1
    <3>2. f[s] = G[Max(s)][f[s \ {Max(s)}]]
      <4> HIDE DEF G
      <4> QED
        BY <1>4, <2>1 DEF IsFold
    <3> QED
      BY <3>1, <3>2
  <2>2. f[{}] = NoSeq
    BY <1>4 DEF IsFold
  <2> QED
    BY <1>2, <1>4, <2>1, <2>2
<1>7. iter = [s \in SUBSET D |-> IF s = {} THEN NoSeq ELSE AddChunk(iter[s \ {Max(s)}], p[Max(s)])]
  <2>1. \E g : g = [s \in SUBSET D |-> IF s = {} THEN NoSeq ELSE AddChunk(g[s \ {Max(s)}], p[Max(s)])]
    BY <1>6
  <2> QED
    BY <2>1 DEF iter
<1> HIDE DEF iter, G
<1>8. \A s \in SUBSET (1 .. n) : iter[s] \in Seqs
  <2> DEFINE X == Seqs
  <2>1. iter[{}] \in X
    BY <1>7, NoSeqIs
  <2>2. \A s \in SUBSET (1 .. n) : s # {} /\ iter[s \ {Max(s)}] \in X => iter[s] \in X
    <3> TAKE s \in SUBSET (1 .. n)
    <3> HAVE s # {} /\ iter[s \ {Max(s)}] \in X
    <3>1. Max(s) \in DOMAIN p /\ s \in SUBSET D
      BY <1>2, <1>5 DEF D
    <3>2. iter[s] = AddChunk(iter[s \ {Max(s)}], p[Max(s)])
      BY <1>7, <3>1
    <3> QED
      BY <3>1, <3>2, AddIs
  <2> HIDE DEF X
  <2>3. \A s \in SUBSET (1 .. n) : iter[s] \in X
    BY <1>2, <2>1, <2>2, FoldKeeps
  <2> QED
    BY <2>3 DEF X
<1> QED
  BY <1>1, <1>2, <1>8, VisionAssumption

-----------------------------------------------------------------------------
(* The cells of a slot with images.                                         *)

\* The cells lie at positions, and there are finitely many of them.
HasEnd(S) == \E b \in Nat : \A c \in S : c.pos \in Nat /\ c.pos < b

\* The prompt with what was sampled after it.
Talk(s, answer) == [tokens |-> s.tokens \o answer, images |-> s.images]

\* A running job's cells are those of its prompt and of what was sampled, but
\* for the last token.
JobInv ==
  vjob # NoVJob =>
    /\ vjob \in [seq : Seqs, answer : Seq(Nat), past : Nat] /\ vjob.answer # <<>>
    /\ eval = NoEval /\ ~vkept
    /\ \E g \in Seqs :
         /\ Talk(vjob.seq, vjob.answer) = OneMore(g, Last(vjob.answer))
         /\ vjob.past = PosNext(g, Long(g)) /\ cells = CellsFrom(g, 0)

\* An evaluation under way: before the position it begins at there are the
\* cells of its prompt.
EvalInv ==
  eval # NoEval =>
    /\ vjob = NoVJob
    /\ eval.prompt \in Seqs /\ eval.from \in 0 .. Long(eval.prompt) /\ Edge(eval.prompt, eval.from)
    /\ eval.at = PosNext(eval.prompt, eval.from)
    /\ {c \in cells : c.pos < eval.at} = Before(eval.prompt, eval.from)

VisionInv ==
  /\ vision \in Seqs /\ vkept \in BOOLEAN /\ HasEnd(cells)
  /\ JobInv /\ EvalInv /\ ImagesAreRemembered

\* The cells of a sequence are finitely many.
LEMMA CellsBounded ==
  ASSUME NEW s \in Seqs
  PROVE  HasEnd(CellsFrom(s, 0))
<1>1. /\ CellsFrom(s, 0) = Before(s, Long(s)) \cup CellsFrom(s, Long(s))
      /\ \A c \in Before(s, Long(s)) : c.pos \in Nat /\ c.pos < PosNext(s, Long(s))
      /\ PosNext(s, Long(s)) \in Nat
  <2>1. Long(s) \in 0 .. Long(s) /\ Edge(s, Long(s))
    BY SeqIs, Ends0
  <2> QED
    BY <2>1, CellsSplit
<1>2. CellsFrom(s, Long(s)) = {}
  <2>1. Long(s) .. Len(s.tokens) - 1 = {}
    BY SeqIs DEF Long
  <2> QED
    BY <2>1 DEF CellsFrom
<1> QED
  BY <1>1, <1>2 DEF HasEnd

\* What llama.cpp accepts begins behind all cells (Highest).
LEMMA HighestIs ==
  ASSUME NEW S, HasEnd(S), NEW m \in Nat, Highest(S) <= m
  PROVE  \A c \in S : c.pos < m
<1> DEFINE T == {0} \cup {c.pos + 1 : c \in S}
<1>1. PICK b \in Nat : \A c \in S : c.pos \in Nat /\ c.pos < b
  BY DEF HasEnd
<1>2. T \in SUBSET Int /\ T # {} /\ b + 1 \in Int /\ \A x \in T : x <= b + 1
  BY <1>1
<1>3. Max(T) \in T /\ \A x \in T : x <= Max(T)
  <2> HIDE DEF T
  <2> QED
    BY <1>2, MaxPicks
<1>4. \A c \in S : c.pos + 1 \in T
  OBVIOUS
<1>5. \A c \in S : c.pos + 1 <= Max(T)
  BY <1>3, <1>4
<1> DEFINE P(y) == \A c \in S : c.pos + 1 <= y
<1>6. Highest(S) = CHOOSE y \in T : P(y)
  BY DEF Highest
<1>7. Highest(S) \in T /\ P(Highest(S))
  <2>1. P(Max(T)) /\ Max(T) \in T
    BY <1>3, <1>5
  <2> HIDE DEF P, T
  <2> QED
    BY <1>6, <2>1
<1>8. Highest(S) \in Nat
  BY <1>1, <1>7
<1> HIDE DEF T
<1> QED
  BY <1>1, <1>7, <1>8

\* A job's text grows by what is sampled.
LEMMA TalkIs ==
  ASSUME NEW s \in Seqs, NEW answer \in Seq(Nat), NEW x \in Nat
  PROVE  /\ [s EXCEPT !.tokens = @ \o answer] = Talk(s, answer)
         /\ Talk(s, <<x>>) = OneMore(s, x) /\ Last(<<x>>) = x
         /\ Talk(s, Append(answer, x)) = OneMore(Talk(s, answer), x)
         /\ Last(Append(answer, x)) = x /\ Append(answer, x) \in Seq(Nat) /\ Append(answer, x) # <<>>
         /\ answer # <<>> => Last(answer) \in Nat
<1>1. s.tokens \in Seq(Nat) /\ s = [tokens |-> s.tokens, images |-> s.images]
  BY SeqIs
<1>2. [s EXCEPT !.tokens = @ \o answer] = Talk(s, answer)
  <2> DEFINE u == s.tokens \o answer
             r == [s EXCEPT !.tokens = u]
  <2>1. s \in [tokens : Seq(Nat), images : SUBSET ImageType]
    BY DEF Seqs
  <2> HIDE DEF u
  <2>2. r = [tokens |-> u, images |-> s.images]
    BY <2>1
  <2> QED
    BY <2>2 DEF Talk, u
<1>3. Append(s.tokens, x) = s.tokens \o <<x>>
  BY <1>1, AppendIsConcat
<1>4. s.tokens \o Append(answer, x) = Append(s.tokens \o answer, x)
  <2>1. Append(answer, x) = answer \o <<x>> /\ <<x>> \in Seq(Nat)
    BY AppendIsConcat
  <2>2. s.tokens \o (answer \o <<x>>) = (s.tokens \o answer) \o <<x>>
    BY <1>1, <2>1, ConcatAssociative
  <2>3. s.tokens \o answer \in Seq(Nat)
    BY <1>1, ConcatProperties
  <2>4. Append(s.tokens \o answer, x) = (s.tokens \o answer) \o <<x>>
    BY <2>3, AppendIsConcat
  <2> QED
    BY <2>1, <2>2, <2>4
<1>5. Last(<<x>>) = x
  BY DEF Last
<1>6. Len(answer) \in Nat /\ (answer # <<>> => Len(answer) \in 1 .. Len(answer))
  BY LenProperties, EmptySeq
<1>7. /\ Last(Append(answer, x)) = x /\ Append(answer, x) \in Seq(Nat)
      /\ Append(answer, x) # <<>>
  BY <1>6, AppendProperties DEF Last
<1>8. answer # <<>> => Last(answer) \in Nat
  BY <1>6, ElementOfSeq DEF Last
<1>9. Talk(s, <<x>>) = OneMore(s, x)
  BY <1>3 DEF OneMore, Talk
<1>10. Talk(s, Append(answer, x)) = OneMore(Talk(s, answer), x)
  BY <1>4 DEF OneMore, Talk
<1> QED
  BY <1>2, <1>5, <1>7, <1>8, <1>9, <1>10

\* What a job is cut to at its position is what its cells hold.
LEMMA CutIs ==
  ASSUME NEW g \in Seqs, NEW x \in Nat
  PROVE  Truncated(OneMore(g, x), PosNext(g, Long(g))) = g
<1>1. /\ OneMore(g, x) \in Seqs /\ Long(OneMore(g, x)) = Long(g) + 1
      /\ Edge(OneMore(g, x), Long(g)) /\ Part(OneMore(g, x), Long(g)) = g
      /\ PosNext(OneMore(g, x), Long(g)) = PosNext(g, Long(g))
  BY OneMoreIs
<1>2. Long(g) \in 0 .. Long(OneMore(g, x))
  BY <1>1, SeqIs
<1> QED
  BY <1>1, <1>2, TruncatedIs

\* An evaluation that is accepted adds what the prompt lacks.
LEMMA EvalCells ==
  ASSUME VisionInv, eval # NoEval, Accepts
  PROVE  cells \cup CellsFrom(eval.prompt, eval.from) = CellsFrom(eval.prompt, 0)
<1>1. /\ eval.prompt \in Seqs /\ eval.from \in 0 .. Long(eval.prompt) /\ Edge(eval.prompt, eval.from)
      /\ eval.at = PosNext(eval.prompt, eval.from)
      /\ {c \in cells : c.pos < eval.at} = Before(eval.prompt, eval.from)
      /\ HasEnd(cells)
  BY DEF VisionInv, EvalInv
<1>2. /\ CellsFrom(eval.prompt, 0) = Before(eval.prompt, eval.from) \cup CellsFrom(eval.prompt, eval.from)
      /\ PosNext(eval.prompt, eval.from) \in Nat
  BY <1>1, CellsSplit
<1>3. \A c \in cells : c.pos < eval.at
  BY <1>1, <1>2, HighestIs DEF Accepts
<1> QED
  BY <1>1, <1>2, <1>3

\* bind_vision_slot, before the evaluation.
LEMMA BindKeeps ==
  ASSUME VisionInv, NEW p \in VisionPrompts, BindVision(p)
  PROVE  VisionInv'
<1> DEFINE prompt == FromChunks(p)
           hint == IF Highest(cells) < HighestAnchor THEN HighestAnchor ELSE Highest(cells)
           n == VisionReuse(vision, prompt, hint)
<1>1. prompt \in Seqs /\ prompt.tokens # <<>> /\ vision \in Seqs
  BY FromChunksIs DEF VisionInv
<1> HIDE DEF prompt, hint
<1>2. n \in 0 .. Long(prompt) - 1 /\ Alike(vision, prompt, n)
  BY <1>1, PromptReuseIs
<1>3. /\ vjob = NoVJob /\ eval = NoEval
      /\ eval' = [prompt |-> prompt, from |-> n, at |-> PosNext(prompt, n)]
      /\ cells' = (IF n = 0 THEN {} ELSE cells)
      /\ vision' = (IF n = 0 THEN NoSeq ELSE vision)
      /\ vjob' = vjob /\ vkept' = vkept
  BY DEF BindVision, prompt, hint
<1> HIDE DEF n
<1>4. Long(prompt) \in Nat /\ n \in Nat /\ n \in 0 .. Long(prompt) /\ Edge(prompt, n) /\ Edge(vision, n)
      /\ n \in 0 .. Long(vision)
  BY <1>1, <1>2, SeqIs DEF Alike, Edge
<1>5. vision' \in Seqs /\ vkept' \in BOOLEAN
  BY <1>1, <1>3, NoSeqIs DEF VisionInv
<1>6. HasEnd(cells')
  <2>1. HasEnd({}) /\ HasEnd(cells)
    BY DEF HasEnd, VisionInv
  <2> QED
    BY <1>3, <2>1
<1>7. JobInv'
  BY <1>3 DEF JobInv
<1>8. ImagesAreRemembered'
  <2>1. eval' # NoEval
    <3>1. eval'.prompt = prompt
      BY <1>3
    <3>2. NoEval.prompt.tokens = <<>>
      BY DEF NoEval, NoSeq
    <3> QED
      BY <1>1, <3>1, <3>2
  <2> QED
    BY <2>1 DEF ImagesAreRemembered
<1>9. {c \in cells' : c.pos < PosNext(prompt, n)} = Before(prompt, n)
  <2>1. CASE n = 0
    <3>1. 0 .. n - 1 = {}
      BY <2>1
    <3>2. Before(prompt, n) = {} /\ cells' = {}
      BY <1>3, <2>1, <3>1 DEF Before
    <3> QED
      BY <3>2
  <2>2. CASE n # 0
    <3>1. vision # NoSeq
      BY <1>4, <2>2, NoSeqIs
    <3>2. cells' = CellsFrom(vision, 0)
      BY <1>3, <2>2, <3>1 DEF VisionInv, ImagesAreRemembered
    <3>3. /\ CellsFrom(vision, 0) = Before(vision, n) \cup CellsFrom(vision, n)
          /\ \A c \in Before(vision, n) : c.pos \in Nat /\ c.pos < PosNext(vision, n)
          /\ \A c \in CellsFrom(vision, n) : c.pos \in Nat /\ c.pos >= PosNext(vision, n)
          /\ PosNext(vision, n) \in Nat
      BY <1>1, <1>4, CellsSplit
    <3>4. PosNext(vision, n) = PosNext(prompt, n) /\ Before(vision, n) = Before(prompt, n)
      <4>1. n \in 0 .. n
        BY <1>4
      <4> QED
        BY <1>1, <1>2, <1>4, <4>1, AgreePos, AgreeCells
    <3>5. \A c \in CellsFrom(vision, n) : ~(c.pos < PosNext(vision, n))
      BY <3>3
    <3> QED
      BY <3>2, <3>3, <3>4, <3>5
  <2> QED
    BY <2>1, <2>2
<1>10. EvalInv'
  BY <1>1, <1>3, <1>4, <1>9 DEF EvalInv
<1> QED
  BY <1>5, <1>6, <1>7, <1>8, <1>10 DEF VisionInv

\* The evaluation, whether it and the first sample succeed or not.
LEMMA EvalKeeps ==
  ASSUME VisionInv, EvalSucceeds \/ SampleFails \/ EvalFails
  PROVE  VisionInv'
<1> DEFINE prompt == eval.prompt
           past == PosNext(prompt, Len(prompt.tokens))
<1>1. CASE EvalSucceeds
  <2>1. prompt \in Seqs
    BY <1>1 DEF EvalSucceeds, VisionInv, EvalInv
  <2>2. cells' = CellsFrom(prompt, 0)
    BY <1>1, EvalCells DEF EvalSucceeds
  <2>3. PICK t \in Sampled : vjob' = [seq |-> prompt, answer |-> <<t>>, past |-> past]
    BY <1>1 DEF EvalSucceeds
  <2>4. vision' = prompt /\ eval' = NoEval /\ vkept' = FALSE
    BY <1>1 DEF EvalSucceeds
  <2>5. t \in Nat /\ <<t>> \in Seq(Nat) /\ <<t>> # <<>>
    <3>1. t \in Nat
      BY VisionAssumption
    <3> QED
      BY <3>1
  <2>6. past = PosNext(prompt, Long(prompt)) /\ past \in Nat
    BY <2>1, SeqIs, PosIsNat DEF Long
  <2> HIDE DEF past, prompt
  <2>7. Talk(prompt, <<t>>) = OneMore(prompt, t) /\ Last(<<t>>) = t
    BY <2>1, <2>3, <2>5, TalkIs
  <2>8. JobInv'
    <3>1. vjob' \in [seq : Seqs, answer : Seq(Nat), past : Nat] /\ vjob'.answer = <<t>> /\ vjob'.past = past
      BY <2>1, <2>3, <2>5, <2>6
    <3>2. Talk(vjob.seq, vjob.answer)' = OneMore(prompt, Last(vjob'.answer))
      BY <2>3, <2>7 DEF Talk
    <3> QED
      BY <2>1, <2>2, <2>4, <2>5, <2>6, <3>1, <3>2 DEF JobInv
  <2>9. vjob' # NoVJob
    <3>1. vjob'.answer = <<t>> /\ NoVJob.answer = <<>>
      BY <2>3 DEF NoVJob
    <3> QED
      BY <2>5, <3>1
  <2>10. HasEnd(cells') /\ vision' \in Seqs /\ vkept' \in BOOLEAN
    BY <2>1, <2>2, <2>4, CellsBounded
  <2>11. EvalInv'
    BY <2>4 DEF EvalInv
  <2> QED
    BY <2>8, <2>9, <2>10, <2>11 DEF VisionInv, ImagesAreRemembered
<1>2. CASE SampleFails
  <2>1. prompt \in Seqs /\ vjob = NoVJob
    BY <1>2 DEF SampleFails, VisionInv, EvalInv
  <2>2. cells' = CellsFrom(prompt, 0)
    BY <1>2, EvalCells DEF SampleFails
  <2>3. vision' = prompt /\ eval' = NoEval /\ vkept' = FALSE /\ vjob' = vjob
    BY <1>2 DEF SampleFails
  <2> HIDE DEF prompt, past
  <2>4. HasEnd(cells') /\ vision' \in Seqs /\ vkept' \in BOOLEAN
    BY <2>1, <2>2, <2>3, CellsBounded
  <2>5. JobInv' /\ EvalInv' /\ ImagesAreRemembered'
    BY <2>1, <2>2, <2>3 DEF JobInv, EvalInv, ImagesAreRemembered
  <2> QED
    BY <2>4, <2>5 DEF VisionInv
<1>3. CASE EvalFails
  <2>1. vjob = NoVJob /\ vkept \in BOOLEAN
    BY <1>3 DEF EvalFails, VisionInv, EvalInv
  <2>2. vision' = NoSeq /\ cells' = {} /\ eval' = NoEval /\ vjob' = vjob /\ vkept' = vkept
    BY <1>3 DEF EvalFails, Emptied
  <2>3. HasEnd(cells') /\ vision' \in Seqs
    BY <2>2, NoSeqIs DEF HasEnd
  <2>4. JobInv' /\ EvalInv' /\ ImagesAreRemembered'
    BY <2>1, <2>2 DEF JobInv, EvalInv, ImagesAreRemembered
  <2> QED
    BY <2>1, <2>2, <2>3, <2>4 DEF VisionInv
<1> QED
  BY <1>1, <1>2, <1>3

\* What a running job's sequence is.
LEMMA JobIs ==
  ASSUME VisionInv, vjob # NoVJob
  PROVE  /\ vjob.seq \in Seqs /\ vjob.answer \in Seq(Nat) /\ vjob.answer # <<>> /\ vjob.past \in Nat
         /\ vjob = [seq |-> vjob.seq, answer |-> vjob.answer, past |-> vjob.past]
         /\ Last(vjob.answer) \in Nat /\ eval = NoEval /\ ~vkept
         /\ \E g \in Seqs :
              /\ Talk(vjob.seq, vjob.answer) = OneMore(g, Last(vjob.answer))
              /\ vjob.past = PosNext(g, Long(g)) /\ cells = CellsFrom(g, 0)
              /\ Truncated(Talk(vjob.seq, vjob.answer), vjob.past) = g
<1>1. /\ vjob \in [seq : Seqs, answer : Seq(Nat), past : Nat] /\ vjob.answer # <<>>
      /\ eval = NoEval /\ ~vkept
  BY DEF VisionInv, JobInv
<1>2. PICK g \in Seqs :
        /\ Talk(vjob.seq, vjob.answer) = OneMore(g, Last(vjob.answer))
        /\ vjob.past = PosNext(g, Long(g)) /\ cells = CellsFrom(g, 0)
  BY DEF VisionInv, JobInv
<1>3. vjob.seq \in Seqs /\ vjob.answer \in Seq(Nat) /\ vjob.past \in Nat
      /\ vjob = [seq |-> vjob.seq, answer |-> vjob.answer, past |-> vjob.past]
  BY <1>1
<1>4. Last(vjob.answer) \in Nat
  <2>1. 0 \in Nat
    OBVIOUS
  <2> QED
    BY <1>1, <1>3, <2>1, TalkIs
<1>5. Truncated(Talk(vjob.seq, vjob.answer), vjob.past) = g
  BY <1>2, <1>4, CutIs
<1> QED
  BY <1>1, <1>2, <1>3, <1>4, <1>5

\* Decoding, and the end of a job.
LEMMA JobKeeps ==
  ASSUME VisionInv, (\E t \in Sampled : VisionDecode(t)) \/ VisionFinish \/ VisionJobFails
  PROVE  VisionInv'
<1>1. vjob # NoVJob
  BY DEF VisionDecode, VisionFinish, VisionJobFails
<1>2. PICK g \in Seqs :
        /\ Talk(vjob.seq, vjob.answer) = OneMore(g, Last(vjob.answer))
        /\ vjob.past = PosNext(g, Long(g)) /\ cells = CellsFrom(g, 0)
        /\ Truncated(Talk(vjob.seq, vjob.answer), vjob.past) = g
  BY <1>1, JobIs
<1>3. /\ vjob.seq \in Seqs /\ vjob.answer \in Seq(Nat) /\ vjob.answer # <<>> /\ vjob.past \in Nat
      /\ vjob = [seq |-> vjob.seq, answer |-> vjob.answer, past |-> vjob.past]
      /\ Last(vjob.answer) \in Nat /\ eval = NoEval /\ ~vkept
  BY <1>1, JobIs
<1>4. vision \in Seqs /\ HasEnd(cells) /\ vkept \in BOOLEAN
  BY DEF VisionInv
<1>5. ASSUME NEW t \in Sampled, VisionDecode(t) PROVE VisionInv'
  <2> DEFINE x == Last(vjob.answer)
             h == OneMore(g, x)
             more == Append(vjob.answer, t)
  <2>1. cells' = cells \cup {[pos |-> vjob.past, what |-> <<"token", x>>]}
        /\ vision' = vision /\ vkept' = vkept /\ eval' = eval
    BY <1>5 DEF VisionDecode
  <2>2. vjob' = [seq |-> vjob.seq, answer |-> more, past |-> vjob.past + 1]
    BY <1>3, <1>5 DEF VisionDecode
  <2>3. h \in Seqs /\ PosNext(h, Long(h)) = vjob.past + 1
        /\ CellsFrom(h, 0) = CellsFrom(g, 0) \cup {[pos |-> PosNext(g, Long(g)), what |-> <<"token", x>>]}
    BY <1>2, <1>3, OneMoreIs
  <2>4. cells' = CellsFrom(h, 0)
    BY <1>2, <2>1, <2>3
  <2>5. t \in Nat
    BY VisionAssumption
  <2>6. /\ Talk(vjob.seq, more) = OneMore(Talk(vjob.seq, vjob.answer), t)
        /\ Last(more) = t /\ more \in Seq(Nat) /\ more # <<>>
    BY <1>3, <2>5, TalkIs, ZenonT(60)
  <2> HIDE DEF h, more, x
  <2>7. vjob'.seq = vjob.seq /\ vjob'.answer = more
    BY <2>2
  <2>8. Talk(vjob.seq, vjob.answer)' = OneMore(h, t)
    BY <1>2, <2>6, <2>7 DEF h, x, Talk
  <2>9. vjob' \in [seq : Seqs, answer : Seq(Nat), past : Nat] /\ vjob'.answer = more /\ vjob'.past = vjob.past + 1
    BY <1>3, <2>2, <2>6
  <2>10. JobInv'
    BY <1>3, <2>1, <2>3, <2>4, <2>6, <2>8, <2>9 DEF JobInv
  <2>11. HasEnd(cells')
    BY <2>3, <2>4, CellsBounded
  <2>12. vjob' # NoVJob
    BY <2>6, <2>9 DEF NoVJob
  <2>13. EvalInv' /\ ImagesAreRemembered'
    BY <1>3, <2>1, <2>12 DEF EvalInv, ImagesAreRemembered
  <2> QED
    BY <1>4, <2>1, <2>10, <2>11, <2>13 DEF VisionInv
<1>6. CASE VisionFinish
  <2>1. vision' = g /\ vjob' = NoVJob /\ vkept' = TRUE /\ cells' = cells /\ eval' = eval
    BY <1>2, <1>3, <1>6, TalkIs DEF VisionFinish
  <2> QED
    BY <1>2, <1>3, <1>4, <2>1 DEF VisionInv, JobInv, EvalInv, ImagesAreRemembered
<1>7. CASE VisionJobFails
  <2>1. vision' = NoSeq /\ vjob' = NoVJob /\ vkept' = FALSE /\ cells' = {} /\ eval' = eval
    BY <1>7 DEF VisionJobFails, Emptied
  <2>2. HasEnd(cells')
    BY <2>1 DEF HasEnd
  <2> QED
    BY <1>3, <2>1, <2>2, NoSeqIs DEF VisionInv, JobInv, EvalInv, ImagesAreRemembered
<1> QED
  BY <1>5, <1>6, <1>7

\* A release under pressure, and a request without images.
LEMMA RestKeeps ==
  ASSUME VisionInv, VisionRelease \/ \E p \in TextPrompts : TextRequest(p)
  PROVE  VisionInv'
<1>1. CASE VisionRelease
  <2>1. vkept /\ eval = NoEval /\ vision' = NoSeq /\ cells' = {} /\ vkept' = FALSE
        /\ vjob' = vjob /\ eval' = eval
    BY <1>1 DEF VisionRelease
  <2>2. vjob = NoVJob
    BY <2>1 DEF VisionInv, JobInv
  <2>3. HasEnd(cells')
    BY <2>1 DEF HasEnd
  <2> QED
    BY <2>1, <2>2, <2>3, NoSeqIs DEF VisionInv, JobInv, EvalInv, ImagesAreRemembered
<1>2. ASSUME NEW p \in TextPrompts, TextRequest(p) PROVE VisionInv'
  <2>1. vjob = NoVJob /\ eval = NoEval /\ vision' = NoSeq /\ vkept' = TRUE
        /\ vjob' = vjob /\ eval' = eval
        /\ cells' = {[pos |-> i - 1, what |-> <<"token", p[i]>>] : i \in DOMAIN p}
    BY <1>2 DEF TextRequest
  <2>2. DOMAIN p = 1 .. Len(p) /\ Len(p) \in Nat
    <3>1. p \in Seq(Nat)
      BY VisionAssumption
    <3> QED
      BY <3>1, LenProperties
  <2>3. \A c \in cells' : c.pos \in Nat /\ c.pos < Len(p)
    <3> TAKE c \in cells'
    <3>1. PICK i \in 1 .. Len(p) : c.pos = i - 1
      BY <2>1, <2>2
    <3> QED
      BY <2>2, <3>1
  <2>4. HasEnd(cells')
    BY <2>2, <2>3 DEF HasEnd
  <2> QED
    BY <2>1, <2>4, NoSeqIs DEF VisionInv, JobInv, EvalInv, ImagesAreRemembered
<1> QED
  BY <1>1, <1>2

\* The invariant is inductive.
LEMMA VisionKeeps ==
  /\ VisionInit => VisionInv
  /\ VisionInv /\ [VisionNext]_visionVars => VisionInv'
<1>1. VisionInit => VisionInv
  BY NoSeqIs DEF VisionInit, VisionInv, JobInv, EvalInv, ImagesAreRemembered, HasEnd
<1>2. VisionInv /\ VisionNext => VisionInv'
  BY BindKeeps, EvalKeeps, JobKeeps, RestKeeps DEF VisionNext
<1>3. VisionInv /\ UNCHANGED visionVars => VisionInv'
  BY DEF visionVars, VisionInv, JobInv, EvalInv, ImagesAreRemembered
<1> QED
  BY <1>1, <1>2, <1>3

\* The cells are those of this prompt, images and all: a running job's cells
\* are those of its prompt and answer, and an idle slot remembers what its
\* cells hold, whatever images were swapped, resized or added in between and
\* whatever failed (common_prefix, reuse_for_bind, truncate_to_pos).
THEOREM ImagesAreKeptAlways ==
  VisionInit /\ [][VisionNext]_visionVars => []ImagesAreKept
<1>1. VisionInv => ImagesAreKept
  <2> SUFFICES ASSUME VisionInv PROVE ImagesAreKept
    OBVIOUS
  <2>1. ImagesAreRemembered
    BY DEF VisionInv
  <2>2. vjob # NoVJob => cells = CellsFrom(Truncated(Talk(vjob.seq, vjob.answer), vjob.past), 0)
    BY JobIs
  <2>3. vjob # NoVJob => [vjob.seq EXCEPT !.tokens = @ \o vjob.answer] = Talk(vjob.seq, vjob.answer)
    <3>1. 0 \in Nat
      OBVIOUS
    <3> QED
      BY <3>1, JobIs, TalkIs
  <2> QED
    BY <2>1, <2>2, <2>3 DEF ImagesAreKept, ImagesAreTrue
<1> QED
  BY <1>1, VisionKeeps, PTL
=============================================================================
