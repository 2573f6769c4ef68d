------------------------------ MODULE SseProofs ------------------------------
(***************************************************************************)
(* What a client of one completion receives, for any number of events, any *)
(* capacity of the channels and any rhythm of the flushes: the chunks in   *)
(* their order, the text in the order of the tokens, nothing lost.         *)
(***************************************************************************)
EXTENDS Sse, FiniteSetTheorems, FunctionTheorems, SequenceTheorems, TLAPS

-----------------------------------------------------------------------------
(* Sequences by their members.                                              *)

\* The places of a sequence.
LEMMA Places ==
  ASSUME NEW S, NEW q \in Seq(S)
  PROVE  /\ Len(q) \in Nat /\ DOMAIN q = 1 .. Len(q)
         /\ \A i \in 1 .. Len(q) : q[i] \in S
         /\ Members(q) \subseteq S
         /\ q = <<>> <=> Members(q) = {}
<1>1. Len(q) \in Nat /\ DOMAIN q = 1 .. Len(q) /\ \A i \in 1 .. Len(q) : q[i] \in S
  BY LenProperties, ElementOfSeq
<1>2. q = <<>> <=> Len(q) = 0
  BY EmptySeq, <1>1
<1>3. Members(q) = {} <=> Len(q) = 0
  <2>1. Len(q) # 0 => 1 \in 1 .. Len(q)
    BY <1>1
  <2> QED
    BY <1>1, <2>1 DEF Members
<1> QED
  BY <1>1, <1>2, <1>3 DEF Members

\* Short sequences.
LEMMA ShortMembers ==
  /\ Members(<<>>) = {}
  /\ \A a : Members(<<a>>) = {a} /\ <<a>>[1] = a /\ DOMAIN <<a>> = {1}
  /\ \A a, b : /\ Members(<<a, b>>) = {a, b} /\ <<a, b>>[1] = a /\ <<a, b>>[2] = b
               /\ DOMAIN <<a, b>> = {1, 2}
<1>1. \A a : DOMAIN <<a>> = {1} /\ <<a>>[1] = a
  OBVIOUS
<1>2. \A a, b : DOMAIN <<a, b>> = {1, 2} /\ <<a, b>>[1] = a /\ <<a, b>>[2] = b
  OBVIOUS
<1> QED
  BY <1>1, <1>2 DEF Members

\* What is in a sequence after Append.
LEMMA MembersAppend ==
  ASSUME NEW S, NEW q \in Seq(S), NEW x \in S
  PROVE  Members(Append(q, x)) = Members(q) \cup {x}
<1>1. /\ Append(q, x) \in Seq(S) /\ Len(Append(q, x)) = Len(q) + 1
      /\ \A i \in 1 .. Len(q) : Append(q, x)[i] = q[i]
      /\ Append(q, x)[Len(q) + 1] = x
  BY AppendProperties
<1>2. /\ Len(q) \in Nat /\ DOMAIN q = 1 .. Len(q)
      /\ DOMAIN Append(q, x) = 1 .. (Len(q) + 1)
  BY <1>1, LenProperties
<1>3. 1 .. (Len(q) + 1) = 1 .. Len(q) \cup {Len(q) + 1}
  BY <1>2
<1> QED
  BY <1>1, <1>2, <1>3 DEF Members

\* What is in a sequence after its head is taken.
LEMMA MembersTail ==
  ASSUME NEW S, NEW q \in Seq(S), q # <<>>
  PROVE  Members(q) = Members(Tail(q)) \cup {Head(q)} /\ Tail(q) \in Seq(S) /\ Head(q) \in S
<1>1. /\ Tail(q) \in Seq(S) /\ Len(Tail(q)) = Len(q) - 1
      /\ \A i \in 1 .. Len(Tail(q)) : Tail(q)[i] = q[i + 1]
      /\ Len(q) \in Nat \ {0} /\ Head(q) = q[1] /\ Head(q) \in S
  BY HeadTailProperties, EmptySeq
<1>2. DOMAIN q = 1 .. Len(q) /\ DOMAIN Tail(q) = 1 .. (Len(q) - 1)
  BY <1>1, LenProperties
<1>3. /\ 1 \in 1 .. Len(q)
      /\ \A i \in 1 .. (Len(q) - 1) : i + 1 \in 1 .. Len(q)
      /\ \A i \in 1 .. Len(q) : i # 1 => i - 1 \in 1 .. (Len(q) - 1) /\ (i - 1) + 1 = i
  BY <1>1
<1>4. Members(q) \subseteq Members(Tail(q)) \cup {Head(q)}
  <2> SUFFICES ASSUME NEW i \in 1 .. Len(q), i # 1 PROVE q[i] \in Members(Tail(q))
    BY <1>1, <1>2 DEF Members
  <2>1. i - 1 \in 1 .. (Len(q) - 1) /\ Tail(q)[i - 1] = q[i]
    BY <1>1, <1>3
  <2> QED
    BY <1>2, <2>1 DEF Members
<1>5. Members(Tail(q)) \cup {Head(q)} \subseteq Members(q)
  BY <1>1, <1>2, <1>3 DEF Members
<1> QED
  BY <1>1, <1>4, <1>5

\* What is in two sequences put together.
LEMMA MembersConcat ==
  ASSUME NEW S, NEW p \in Seq(S), NEW q \in Seq(S)
  PROVE  Members(p \o q) = Members(p) \cup Members(q) /\ p \o q \in Seq(S)
<1>1. /\ p \o q \in Seq(S) /\ Len(p \o q) = Len(p) + Len(q)
      /\ \A i \in 1 .. Len(p) + Len(q) : (p \o q)[i] =
           IF i <= Len(p) THEN p[i] ELSE q[i - Len(p)]
  BY ConcatProperties
<1>2. /\ Len(p) \in Nat /\ Len(q) \in Nat
      /\ DOMAIN p = 1 .. Len(p) /\ DOMAIN q = 1 .. Len(q)
      /\ DOMAIN (p \o q) = 1 .. (Len(p) + Len(q))
  BY <1>1, LenProperties
<1>3. ASSUME NEW i \in 1 .. Len(q)
      PROVE  Len(p) + i \in 1 .. (Len(p) + Len(q)) /\ (p \o q)[Len(p) + i] = q[i]
  BY <1>1, <1>2
<1>4. ASSUME NEW i \in 1 .. Len(p) PROVE (p \o q)[i] = p[i] /\ i \in 1 .. (Len(p) + Len(q))
  BY <1>1, <1>2
<1>5. ASSUME NEW i \in 1 .. (Len(p) + Len(q)), ~(i <= Len(p))
      PROVE  i - Len(p) \in 1 .. Len(q) /\ (p \o q)[i] = q[i - Len(p)]
  BY <1>1, <1>2, <1>5
<1>6. ASSUME NEW i \in 1 .. (Len(p) + Len(q)), i <= Len(p)
      PROVE  i \in 1 .. Len(p) /\ (p \o q)[i] = p[i]
  BY <1>1, <1>2, <1>6
<1>7. Members(p \o q) \subseteq Members(p) \cup Members(q)
  BY <1>2, <1>5, <1>6 DEF Members
<1>8. Members(p) \cup Members(q) \subseteq Members(p \o q)
  BY <1>2, <1>3, <1>4 DEF Members
<1> QED
  BY <1>1, <1>7, <1>8

-----------------------------------------------------------------------------
(* Growing sequences of tokens.                                             *)

Increasing(q) == \A i, j \in DOMAIN q : i < j => q[i] < q[j]

\* Every token of P is earlier than every token of Q.
Earlier(P, Q) == \A x \in P, y \in Q : x < y

\* A newer token at the end.
LEMMA IncreasingAppend ==
  ASSUME NEW q \in Seq(Nat), NEW x \in Nat, Increasing(q), Earlier(Members(q), {x})
  PROVE  Increasing(Append(q, x))
<1>1. /\ Append(q, x) \in Seq(Nat) /\ Len(Append(q, x)) = Len(q) + 1
      /\ \A i \in 1 .. Len(q) : Append(q, x)[i] = q[i]
      /\ Append(q, x)[Len(q) + 1] = x
  BY AppendProperties
<1>2. /\ Len(q) \in Nat /\ DOMAIN q = 1 .. Len(q)
      /\ DOMAIN Append(q, x) = 1 .. (Len(q) + 1)
  BY <1>1, LenProperties
<1>3. \A i \in 1 .. Len(q) : q[i] < x
  BY <1>2 DEF Members, Earlier
<1> QED
  BY <1>1, <1>2, <1>3 DEF Increasing

\* Earlier tokens, then later ones.
LEMMA IncreasingConcat ==
  ASSUME NEW p \in Seq(Nat), NEW q \in Seq(Nat), Increasing(p), Increasing(q),
         Earlier(Members(p), Members(q))
  PROVE  Increasing(p \o q)
<1>1. /\ p \o q \in Seq(Nat) /\ Len(p \o q) = Len(p) + Len(q)
      /\ \A i \in 1 .. Len(p) + Len(q) : (p \o q)[i] =
           IF i <= Len(p) THEN p[i] ELSE q[i - Len(p)]
  BY ConcatProperties
<1>2. /\ Len(p) \in Nat /\ Len(q) \in Nat
      /\ DOMAIN p = 1 .. Len(p) /\ DOMAIN q = 1 .. Len(q)
      /\ DOMAIN (p \o q) = 1 .. (Len(p) + Len(q))
  BY <1>1, LenProperties
<1> SUFFICES ASSUME NEW i \in 1 .. (Len(p) + Len(q)), NEW j \in 1 .. (Len(p) + Len(q)), i < j
             PROVE  (p \o q)[i] < (p \o q)[j]
  BY <1>2 DEF Increasing
<1>3. CASE j <= Len(p)
  <2>1. i \in DOMAIN p /\ j \in DOMAIN p /\ i <= Len(p)
    BY <1>2, <1>3
  <2>2. p[i] < p[j]
    BY <2>1 DEF Increasing
  <2> QED
    BY <1>1, <1>3, <2>1, <2>2
<1>4. CASE i <= Len(p) /\ ~(j <= Len(p))
  <2>1. i \in DOMAIN p /\ j - Len(p) \in DOMAIN q
    BY <1>2, <1>4
  <2>2. p[i] < q[j - Len(p)]
    BY <2>1 DEF Earlier, Members
  <2> QED
    BY <1>1, <1>4, <2>2
<1>5. CASE ~(i <= Len(p))
  <2>1. /\ i - Len(p) \in DOMAIN q /\ j - Len(p) \in DOMAIN q
        /\ i - Len(p) < j - Len(p) /\ ~(j <= Len(p))
    BY <1>2, <1>5
  <2> QED
    BY <1>1, <1>5, <2>1 DEF Increasing
<1> QED
  BY <1>2, <1>3, <1>4, <1>5

\* A stretch of a sequence.
LEMMA Stretch ==
  ASSUME NEW q \in Seq(Nat), NEW i \in 0 .. Len(q), NEW j \in i .. Len(q)
  PROVE  LET part == SubSeq(q, i + 1, j)
         IN  /\ part \in Seq(Nat)
             /\ Members(part) = {q[k] : k \in (i + 1) .. j}
             /\ Increasing(q) => Increasing(part)
<1> DEFINE part == SubSeq(q, i + 1, j)
<1>1. /\ Len(q) \in Nat /\ DOMAIN q = 1 .. Len(q) /\ i \in Nat /\ j \in Nat
      /\ i <= j /\ j <= Len(q) /\ \A k \in 1 .. Len(q) : q[k] \in Nat
  BY Places
<1>2. \A k \in (i + 1) .. j : q[k] \in Nat /\ k \in 1 .. Len(q)
  BY <1>1
<1>3. /\ part \in Seq(Nat)
      /\ Len(part) = IF i + 1 <= j THEN j - (i + 1) + 1 ELSE 0
      /\ \A k \in 1 .. j - (i + 1) + 1 : part[k] = q[i + 1 + k - 1]
  <2> DEFINE m == i + 1
  <2>1. m \in Int /\ j \in Int /\ \A k \in m .. j : q[k] \in Nat
    BY <1>1, <1>2
  <2> HIDE DEF m
  <2>2. /\ SubSeq(q, m, j) \in Seq(Nat)
        /\ Len(SubSeq(q, m, j)) = IF m <= j THEN j - m + 1 ELSE 0
        /\ \A k \in 1 .. j - m + 1 : SubSeq(q, m, j)[k] = q[m + k - 1]
    BY <2>1, SubSeqProperties
  <2> QED
    BY <2>2 DEF m
<1>4. Len(part) = j - i /\ DOMAIN part = 1 .. (j - i)
  <2>1. \A a, b \in Nat : a <= b => (IF a + 1 <= b THEN b - (a + 1) + 1 ELSE 0) = b - a
    OBVIOUS
  <2>2. Len(part) = j - i
    BY <1>1, <1>3, <2>1
  <2> QED
    BY <1>3, <2>2, LenProperties
<1>5. ASSUME NEW k \in 1 .. (j - i)
      PROVE  i + k \in (i + 1) .. j /\ part[k] = q[i + k] /\ i + k \in 1 .. Len(q)
  <2>1. i + k \in (i + 1) .. j /\ i + 1 + k - 1 = i + k /\ k \in 1 .. j - (i + 1) + 1
        /\ i + k \in 1 .. Len(q)
    BY <1>1, <1>5
  <2> QED
    BY <1>3, <2>1
<1>6. ASSUME NEW k \in (i + 1) .. j PROVE k - i \in 1 .. (j - i) /\ i + (k - i) = k
  BY <1>1, <1>6
<1> HIDE DEF part
<1>7. Members(part) \subseteq {q[k] : k \in (i + 1) .. j}
  BY <1>4, <1>5 DEF Members
<1>8. ASSUME NEW k \in (i + 1) .. j PROVE q[k] \in Members(part)
  <2>1. k - i \in 1 .. (j - i) /\ part[k - i] = q[k]
    BY <1>5, <1>6
  <2> QED
    BY <1>4, <2>1 DEF Members
<1>9. ASSUME Increasing(q), NEW k \in 1 .. (j - i), NEW l \in 1 .. (j - i), k < l
      PROVE  part[k] < part[l]
  <2>1. i + k < i + l
    <3>1. k \in Int /\ l \in Int
      OBVIOUS
    <3> QED
      BY <1>1, <1>9, <3>1
  <2>2. q[i + k] < q[i + l]
    BY <1>1, <1>5, <1>9, <2>1 DEF Increasing
  <2> QED
    BY <1>5, <2>2
<1> QED
  BY <1>3, <1>4, <1>7, <1>8, <1>9 DEF part, Increasing

\* What is chosen of a sequence is in its order.
LEMMA ChosenParts ==
  ASSUME NEW q \in Seq(Nat), Increasing(q), NEW n \in 0 .. Len(q), NEW f \in Choices(n)
  PROVE  /\ Chosen(q, f) \in Seq(Nat) /\ Increasing(Chosen(q, f))
         /\ Members(f) \subseteq 1 .. n
         /\ Members(Chosen(q, f)) = {q[i] : i \in Members(f)}
<1>1. /\ Len(q) \in Nat /\ DOMAIN q = 1 .. Len(q) /\ \A i \in 1 .. Len(q) : q[i] \in Nat
  BY Places
<1>2. PICK k \in 0 .. n : /\ f \in [1 .. k -> 1 .. n]
                          /\ \A i, j \in 1 .. k : i < j => f[i] < f[j]
  BY DEF Choices
<1>3. 1 .. n \subseteq 1 .. Len(q) /\ k \in Nat
  BY <1>1
<1> DEFINE c == [i \in 1 .. k |-> q[f[i]]]
<1>4. DOMAIN f = 1 .. k /\ Chosen(q, f) = c
  BY <1>2 DEF Chosen
<1>5. \A i \in 1 .. k : f[i] \in 1 .. n /\ f[i] \in 1 .. Len(q) /\ q[f[i]] \in Nat /\ c[i] = q[f[i]]
  BY <1>1, <1>2, <1>3
<1>6. DOMAIN c = 1 .. k
  OBVIOUS
<1>7. c \in Seq(Nat)
  BY <1>3, <1>5, IsASeq
<1> HIDE DEF c
<1>8. ASSUME NEW i \in 1 .. k, NEW j \in 1 .. k, i < j PROVE c[i] < c[j]
  <2>1. f[i] < f[j]
    BY <1>2, <1>8
  <2> QED
    BY <1>1, <1>5, <2>1 DEF Increasing
<1>9. Members(f) = {f[i] : i \in 1 .. k} /\ Members(c) = {c[i] : i \in 1 .. k}
  BY <1>4, <1>6 DEF Members
<1>10. Members(c) = {q[i] : i \in Members(f)}
  <2>1. \A y \in Members(c) : \E i \in Members(f) : y = q[i]
    BY <1>5, <1>9
  <2>2. \A i \in Members(f) : q[i] \in Members(c)
    BY <1>5, <1>9
  <2> QED
    BY <2>1, <2>2
<1> QED
  BY <1>4, <1>5, <1>6, <1>7, <1>8, <1>9, <1>10 DEF Increasing

\* However what the parsers hold is parted, no token is reordered, and those
\* that are neither told nor held are known to be swallowed.
LEMMA PartingParts ==
  ASSUME NEW buf \in Seq(Nat), Increasing(buf), NEW cut \in 0 .. Len(buf),
         NEW f \in Choices(cut), NEW g \in Choices(cut)
  PROVE  LET part == Parting(buf, cut, f, g)
         IN  /\ part.text \in Seq(Nat) /\ part.calls \in Seq(Nat) /\ part.rest \in Seq(Nat)
             /\ Members(buf) = Members(part.text) \cup Members(part.calls)
                                 \cup part.swallowed \cup Members(part.rest)
             /\ Increasing(part.text) /\ Increasing(part.rest)
             /\ Earlier(Members(part.text), Members(part.rest))
             /\ Members(part.rest) = {buf[i] : i \in (cut + 1) .. Len(buf)}
<1> DEFINE part == Parting(buf, cut, f, g)
           n == Len(buf)
           at(I) == {buf[i] : i \in I}
           F == Members(f)
           G == Members(g)
           R == (cut + 1) .. n
<1>1. /\ n \in Nat /\ DOMAIN buf = 1 .. n /\ \A i \in 1 .. n : buf[i] \in Nat
      /\ cut \in Nat /\ cut <= n
  BY Places
<1>2. /\ part.text = Chosen(buf, f) /\ part.calls = Chosen(buf, g)
      /\ part.swallowed = at((1 .. cut) \ (F \cup G)) /\ part.rest = SubSeq(buf, cut + 1, n)
  BY DEF Parting
<1> HIDE DEF part
<1>3. /\ part.text \in Seq(Nat) /\ Increasing(part.text) /\ F \subseteq 1 .. cut
      /\ Members(part.text) = at(F)
  BY <1>2, ChosenParts
<1>4. part.calls \in Seq(Nat) /\ G \subseteq 1 .. cut /\ Members(part.calls) = at(G)
  BY <1>2, ChosenParts
<1>5. part.rest \in Seq(Nat) /\ Members(part.rest) = at(R) /\ Increasing(part.rest)
  <2>1. cut \in 0 .. n /\ n \in cut .. n
    BY <1>1
  <2> QED
    BY <1>2, <2>1, Stretch
<1> HIDE DEF F, G
<1>6. Members(buf) = at(F) \cup at(G) \cup at((1 .. cut) \ (F \cup G)) \cup at(R)
  <2>1. 1 .. n = 1 .. cut \cup R
    BY <1>1
  <2>2. 1 .. n = F \cup G \cup ((1 .. cut) \ (F \cup G)) \cup R
    BY <1>3, <1>4, <2>1
  <2> HIDE DEF R
  <2> QED
    BY <1>1, <2>2 DEF Members
<1>7. Earlier(at(F), at(R))
  <2>1. ASSUME NEW i \in F, NEW j \in R PROVE buf[i] < buf[j]
    <3>1. i \in 1 .. n /\ j \in 1 .. n /\ i < j
      BY <1>1, <1>3
    <3> QED
      BY <1>1, <3>1 DEF Increasing
  <2> QED
    BY <2>1 DEF Earlier
<1> QED
  BY <1>2, <1>3, <1>4, <1>5, <1>6, <1>7 DEF part

\* While the answer goes on.
LEMMA TokenParts ==
  ASSUME NEW buf \in Seq(Nat), Increasing(buf), NEW part \in PartingsOfToken(buf)
  PROVE  /\ part.text \in Seq(Nat) /\ part.rest \in Seq(Nat)
         /\ Members(buf) = Members(part.text) \cup part.swallowed \cup Members(part.rest)
         /\ Increasing(part.text) /\ Increasing(part.rest)
         /\ Earlier(Members(part.text), Members(part.rest))
<1>0. PICK cut \in 0 .. Len(buf) : \E f \in Choices(cut) : part = Parting(buf, cut, f, <<>>)
  BY DEF PartingsOfToken
<1>1. PICK f \in Choices(cut) : part = Parting(buf, cut, f, <<>>)
  BY <1>0
<1>2. <<>> \in Choices(cut)
  <2>1. 0 \in 0 .. cut
    BY Places
  <2>2. <<>> \in [1 .. 0 -> 1 .. cut] /\ \A i, j \in 1 .. 0 : i < j => <<>>[i] < <<>>[j]
    <3>1. 1 .. 0 = {}
      OBVIOUS
    <3>2. DOMAIN <<>> = {}
      <4>1. <<>> \in Seq(Nat) /\ Len(<<>>) = 0
        BY EmptySeq
      <4> QED
        BY <4>1, LenProperties
    <3>3. <<>> \in [{} -> 1 .. cut]
      <4>1. <<>> = [i \in {} |-> i]
        BY <3>2
      <4> QED
        BY <4>1
    <3> QED
      BY <3>1, <3>3
  <2> QED
    BY <2>1, <2>2 DEF Choices
<1>3. part.calls = <<>>
  <2>1. part.calls = Chosen(buf, <<>>)
    BY <1>1 DEF Parting
  <2>2. Members(Chosen(buf, <<>>)) = {buf[i] : i \in Members(<<>>)} /\ Chosen(buf, <<>>) \in Seq(Nat)
    BY <1>2, ChosenParts
  <2>3. Members(Chosen(buf, <<>>)) = {}
    BY <2>2, ShortMembers
  <2> QED
    BY <2>1, <2>2, <2>3, Places
<1>4. /\ part.text \in Seq(Nat) /\ part.rest \in Seq(Nat)
      /\ Members(buf) = Members(part.text) \cup Members(part.calls)
                          \cup part.swallowed \cup Members(part.rest)
      /\ Increasing(part.text) /\ Increasing(part.rest)
      /\ Earlier(Members(part.text), Members(part.rest))
  BY <1>1, <1>2, PartingParts
<1>5. Members(part.calls) = {}
  BY <1>3, ShortMembers
<1> QED
  BY <1>4, <1>5

\* And at its end.
LEMMA EndParts ==
  ASSUME NEW buf \in Seq(Nat), Increasing(buf), NEW part \in PartingsAtEnd(buf)
  PROVE  /\ part.text \in Seq(Nat) /\ part.calls \in Seq(Nat) /\ Increasing(part.text)
         /\ Members(buf) = Members(part.text) \cup Members(part.calls) \cup part.swallowed
<1> DEFINE n == Len(buf)
<1>1. PICK f \in Choices(n), g \in Choices(n) : part = Parting(buf, n, f, g)
  <2>1. PICK p \in {q \in Choices(n) \X Choices(n) : Members(q[1]) \cap Members(q[2]) = {}} :
          part = Parting(buf, n, p[1], p[2])
    BY DEF PartingsAtEnd
  <2>2. p[1] \in Choices(n) /\ p[2] \in Choices(n)
    OBVIOUS
  <2> QED
    BY <2>1, <2>2
<1>2. n \in 0 .. Len(buf) /\ (n + 1) .. n = {} /\ n = Len(buf)
  BY Places
<1> HIDE DEF n
<1>3. /\ part.text \in Seq(Nat) /\ part.calls \in Seq(Nat) /\ Increasing(part.text)
      /\ Members(buf) = Members(part.text) \cup Members(part.calls)
                          \cup part.swallowed \cup Members(part.rest)
      /\ Members(part.rest) = {buf[i] : i \in (n + 1) .. Len(buf)}
  BY <1>1, <1>2, PartingParts
<1> QED
  BY <1>2, <1>3

-----------------------------------------------------------------------------
(* Chunks in their order.                                                   *)

Whats == Heartbeats \cup Texts \cup Ends \cup Dones \cup {"role", "calls"}

ChunkRec == [what : Whats, ids : Seq(Nat)]

\* d may come after c.
MayFollow(c, d) ==
  /\ c.what \in Ends => d.what \in Dones \cup Heartbeats
  /\ c.what \in Dones => d.what \in Heartbeats
  /\ d.what = "role" => c.what \in Heartbeats
  /\ c.what \in Texts /\ d.what \in Texts => Earlier(Members(c.ids), Members(d.ids))

Ordered(q) == \A i, j \in DOMAIN q : i < j => MayFollow(q[i], q[j])

Ahead(C, D) == \A c \in C, d \in D : MayFollow(c, d)

IdsOf(C, W) == UNION {Members(c.ids) : c \in {d \in C : d.what \in W}}

\* A chunk at the end of an ordered sequence.
LEMMA OrderedAppend ==
  ASSUME NEW S, NEW q \in Seq(S), NEW c \in S, Ordered(q), Ahead(Members(q), {c})
  PROVE  Ordered(Append(q, c))
<1>1. /\ Append(q, c) \in Seq(S) /\ Len(Append(q, c)) = Len(q) + 1
      /\ \A i \in 1 .. Len(q) : Append(q, c)[i] = q[i]
      /\ Append(q, c)[Len(q) + 1] = c
  BY AppendProperties
<1>2. /\ Len(q) \in Nat /\ DOMAIN q = 1 .. Len(q)
      /\ DOMAIN Append(q, c) = 1 .. (Len(q) + 1)
  BY <1>1, LenProperties
<1>3. \A i \in 1 .. Len(q) : MayFollow(q[i], c)
  BY <1>2 DEF Members, Ahead
<1> SUFFICES ASSUME NEW i \in 1 .. (Len(q) + 1), NEW j \in 1 .. (Len(q) + 1), i < j
             PROVE  MayFollow(Append(q, c)[i], Append(q, c)[j])
  BY <1>2 DEF Ordered
<1>4. i \in 1 .. Len(q) /\ (j \in 1 .. Len(q) \/ j = Len(q) + 1)
  BY <1>2
<1> QED
  BY <1>1, <1>2, <1>3, <1>4 DEF Ordered

\* The head of an ordered sequence is ahead of its tail, which is ordered.
LEMMA OrderedTail ==
  ASSUME NEW S, NEW q \in Seq(S), q # <<>>, Ordered(q)
  PROVE  Ordered(Tail(q)) /\ Ahead({Head(q)}, Members(Tail(q)))
<1>1. /\ Tail(q) \in Seq(S) /\ Len(Tail(q)) = Len(q) - 1
      /\ \A i \in 1 .. Len(Tail(q)) : Tail(q)[i] = q[i + 1]
      /\ Len(q) \in Nat \ {0} /\ Head(q) = q[1]
  BY HeadTailProperties, EmptySeq
<1>2. DOMAIN q = 1 .. Len(q) /\ DOMAIN Tail(q) = 1 .. (Len(q) - 1)
  BY <1>1, LenProperties
<1>3. ASSUME NEW i \in DOMAIN Tail(q)
      PROVE  /\ i \in Int /\ 1 \in DOMAIN q /\ i + 1 \in DOMAIN q /\ 1 < i + 1
             /\ Tail(q)[i] = q[i + 1]
  BY <1>1, <1>2
<1>4. ASSUME NEW i \in DOMAIN Tail(q), NEW j \in DOMAIN Tail(q), i < j
      PROVE  MayFollow(Tail(q)[i], Tail(q)[j])
  <2>1. i + 1 < j + 1
    BY <1>3, <1>4
  <2> QED
    BY <1>3, <2>1 DEF Ordered
<1>5. ASSUME NEW i \in DOMAIN Tail(q) PROVE MayFollow(Head(q), Tail(q)[i])
  BY <1>1, <1>3 DEF Ordered
<1> QED
  BY <1>4, <1>5 DEF Ordered, Ahead, Members

\* Ordered chunks, then others they may be followed by.
LEMMA OrderedConcat ==
  ASSUME NEW S, NEW p \in Seq(S), NEW q \in Seq(S), Ordered(p), Ordered(q),
         Ahead(Members(p), Members(q))
  PROVE  Ordered(p \o q)
<1>1. /\ p \o q \in Seq(S) /\ Len(p \o q) = Len(p) + Len(q)
      /\ \A i \in 1 .. Len(p) + Len(q) : (p \o q)[i] =
           IF i <= Len(p) THEN p[i] ELSE q[i - Len(p)]
  BY ConcatProperties
<1>2. /\ Len(p) \in Nat /\ Len(q) \in Nat
      /\ DOMAIN p = 1 .. Len(p) /\ DOMAIN q = 1 .. Len(q)
      /\ DOMAIN (p \o q) = 1 .. (Len(p) + Len(q))
  BY <1>1, LenProperties
<1> SUFFICES ASSUME NEW i \in 1 .. (Len(p) + Len(q)), NEW j \in 1 .. (Len(p) + Len(q)), i < j
             PROVE  MayFollow((p \o q)[i], (p \o q)[j])
  BY <1>2 DEF Ordered
<1>3. CASE j <= Len(p)
  <2>1. i \in DOMAIN p /\ j \in DOMAIN p /\ i <= Len(p)
    BY <1>2, <1>3
  <2>2. MayFollow(p[i], p[j])
    BY <2>1 DEF Ordered
  <2> QED
    BY <1>1, <1>3, <2>1, <2>2
<1>4. CASE i <= Len(p) /\ ~(j <= Len(p))
  <2>1. i \in DOMAIN p /\ j - Len(p) \in DOMAIN q
    BY <1>2, <1>4
  <2>2. MayFollow(p[i], q[j - Len(p)])
    BY <2>1 DEF Ahead, Members
  <2> QED
    BY <1>1, <1>4, <2>2
<1>5. CASE ~(i <= Len(p))
  <2>1. /\ i - Len(p) \in DOMAIN q /\ j - Len(p) \in DOMAIN q
        /\ i - Len(p) < j - Len(p) /\ ~(j <= Len(p))
    BY <1>2, <1>5
  <2>2. MayFollow(q[i - Len(p)], q[j - Len(p)])
    BY <2>1 DEF Ordered
  <2> QED
    BY <1>1, <1>5, <2>1, <2>2
<1> QED
  BY <1>2, <1>3, <1>4, <1>5

\* No chunk, one and two are ordered.
LEMMA OrderedShort ==
  /\ Ordered(<<>>)
  /\ \A c : Ordered(<<c>>)
  /\ \A c, d : MayFollow(c, d) => Ordered(<<c, d>>)
<1>1. Ordered(<<>>)
  BY DEF Ordered
<1>2. ASSUME NEW c PROVE Ordered(<<c>>)
  BY ShortMembers DEF Ordered
<1>3. ASSUME NEW c, NEW d, MayFollow(c, d) PROVE Ordered(<<c, d>>)
  BY <1>3, ShortMembers DEF Ordered
<1> QED
  BY <1>1, <1>2, <1>3

\* A chunk that is sent only when there is something in it.
LEMMA ChunkIfMembers ==
  ASSUME NEW what \in Whats, NEW ids \in Seq(Nat)
  PROVE  /\ ChunkIf(what, ids) \in Seq(ChunkRec) /\ Ordered(ChunkIf(what, ids))
         /\ Members(ChunkIf(what, ids)) = IF ids = <<>> THEN {} ELSE {Chunk(what, ids)}
         /\ Chunk(what, ids) \in ChunkRec /\ Mark(what) \in ChunkRec
<1>1. Chunk(what, ids) \in ChunkRec /\ Mark(what) \in ChunkRec
  <2>1. <<>> \in Seq(Nat)
    BY EmptySeq
  <2> QED
    BY <2>1 DEF Chunk, Mark, ChunkRec
<1>2. <<>> \in Seq(ChunkRec) /\ <<Chunk(what, ids)>> \in Seq(ChunkRec)
  BY <1>1, EmptySeq
<1> QED
  BY <1>1, <1>2, ShortMembers, OrderedShort DEF ChunkIf

-----------------------------------------------------------------------------
(* Tokens on their way.                                                     *)

\* How many of the events of a channel are tokens.
Waiting(q) == Cardinality({i \in DOMAIN q : q[i] = "token"})

\* An event more is a token more, or none.
LEMMA WaitingAppend ==
  ASSUME NEW S, NEW q \in Seq(S), NEW x \in S
  PROVE  /\ Waiting(q) \in Nat
         /\ Waiting(Append(q, x)) = IF x = "token" THEN Waiting(q) + 1 ELSE Waiting(q)
<1>1. /\ Append(q, x) \in Seq(S) /\ Len(Append(q, x)) = Len(q) + 1
      /\ \A i \in 1 .. Len(q) : Append(q, x)[i] = q[i]
      /\ Append(q, x)[Len(q) + 1] = x
  BY AppendProperties
<1>2. /\ Len(q) \in Nat /\ DOMAIN q = 1 .. Len(q)
      /\ DOMAIN Append(q, x) = 1 .. (Len(q) + 1)
  BY <1>1, LenProperties
<1> DEFINE at == {i \in DOMAIN q : q[i] = "token"}
<1>3. IsFiniteSet(at) /\ Len(q) + 1 \notin at
  <2>1. IsFiniteSet(1 .. Len(q)) /\ at \in SUBSET (1 .. Len(q))
    BY <1>2, FS_Interval
  <2> QED
    BY <1>2, <2>1, FS_Subset
<1>4. {i \in DOMAIN Append(q, x) : Append(q, x)[i] = "token"} =
        IF x = "token" THEN at \cup {Len(q) + 1} ELSE at
  <2>1. 1 .. (Len(q) + 1) = 1 .. Len(q) \cup {Len(q) + 1}
    BY <1>2
  <2> QED
    BY <1>1, <1>2, <2>1
<1>5. Cardinality(at) \in Nat /\ Cardinality(at \cup {Len(q) + 1}) = Cardinality(at) + 1
  BY <1>3, FS_CardinalityType, FS_AddElement
<1> QED
  BY <1>4, <1>5 DEF Waiting

\* An event that is taken is a token less, or none.
LEMMA WaitingTail ==
  ASSUME NEW S, NEW q \in Seq(S), q # <<>>
  PROVE  /\ Waiting(Tail(q)) \in Nat
         /\ Waiting(q) = IF Head(q) = "token" THEN Waiting(Tail(q)) + 1 ELSE Waiting(Tail(q))
<1>1. /\ Tail(q) \in Seq(S) /\ Len(Tail(q)) = Len(q) - 1
      /\ \A i \in 1 .. Len(Tail(q)) : Tail(q)[i] = q[i + 1]
      /\ Len(q) \in Nat \ {0} /\ Head(q) = q[1]
  BY HeadTailProperties, EmptySeq
<1>2. DOMAIN q = 1 .. Len(q) /\ DOMAIN Tail(q) = 1 .. (Len(q) - 1)
  BY <1>1, LenProperties
<1> DEFINE at   == {i \in DOMAIN q : q[i] = "token"}
           then == {i \in DOMAIN Tail(q) : Tail(q)[i] = "token"}
           f    == [i \in then |-> i + 1]
<1>3. IsFiniteSet(then) /\ IsFiniteSet(at \ {1}) /\ Cardinality(then) \in Nat
  <2>1. /\ IsFiniteSet(1 .. Len(q)) /\ IsFiniteSet(1 .. (Len(q) - 1))
        /\ at \ {1} \in SUBSET (1 .. Len(q)) /\ then \in SUBSET (1 .. (Len(q) - 1))
    <3>1. 1 \in Int /\ Len(q) \in Int /\ Len(q) - 1 \in Int
      BY <1>1
    <3> QED
      BY <1>2, <3>1, FS_Interval
  <2> QED
    BY <2>1, FS_Subset, FS_CardinalityType
<1>4. ASSUME NEW i \in then PROVE i + 1 \in at \ {1} /\ i \in Int
  <2>1. i \in 1 .. (Len(q) - 1) /\ q[i + 1] = "token"
    BY <1>1, <1>2
  <2> QED
    BY <1>1, <1>2, <2>1
<1>5. ASSUME NEW i \in at \ {1} PROVE i - 1 \in then /\ (i - 1) + 1 = i
  <2>1. i \in 1 .. Len(q) /\ i # 1 /\ i - 1 \in 1 .. (Len(q) - 1) /\ (i - 1) + 1 = i
    BY <1>1, <1>2
  <2> QED
    BY <1>1, <1>2, <2>1
<1> HIDE DEF at, then
<1>6. f \in Bijection(then, at \ {1})
  <2>1. f \in [then -> at \ {1}]
    BY <1>4
  <2>2. \A i, j \in then : f[i] = f[j] => i = j
    BY <1>4
  <2>3. \A k \in at \ {1} : \E i \in then : f[i] = k
    BY <1>5
  <2> QED
    BY <2>1, <2>2, <2>3, Fun_IsBij
<1> HIDE DEF f
<1>7. Cardinality(at \ {1}) = Cardinality(then)
  <2>1. ExistsBijection(then, at \ {1})
    BY <1>6, Fun_ExistsBij
  <2> QED
    BY <1>3, <2>1, FS_Bijection
<1>8. at = IF Head(q) = "token" THEN (at \ {1}) \cup {1} ELSE at \ {1}
  <2>1. 1 \in at <=> Head(q) = "token"
    BY <1>1, <1>2 DEF at
  <2> QED
    BY <2>1
<1>9. Cardinality((at \ {1}) \cup {1}) = Cardinality(at \ {1}) + 1
  BY <1>3, FS_AddElement
<1>10. CASE Head(q) = "token"
  <2>1. Cardinality(at) = Cardinality(then) + 1
    BY <1>7, <1>8, <1>9, <1>10
  <2> QED
    BY <1>3, <1>10, <2>1 DEF Waiting, at, then
<1>11. CASE Head(q) # "token"
  <2>1. Cardinality(at) = Cardinality(then)
    BY <1>7, <1>8, <1>11
  <2> QED
    BY <1>3, <1>11, <2>1 DEF Waiting, at, then
<1> QED
  BY <1>10, <1>11

\* No event, no token.
LEMMA WaitingNone == Waiting(<<>>) = 0
<1>1. DOMAIN <<>> = {}
  <2>1. <<>> \in Seq(Nat) /\ Len(<<>>) = 0
    BY EmptySeq
  <2> QED
    BY <2>1, LenProperties
<1>2. {i \in DOMAIN <<>> : <<>>[i] = "token"} = {}
  BY <1>1
<1> QED
  BY <1>2, FS_EmptySet DEF Waiting

-----------------------------------------------------------------------------
(* The inductive invariant.                                                 *)

EventTypes == {"token", "empty", "progress", "finished", "failed"}

PendingRec == [text : Seq(Nat), n : Nat]

SseTypeOK ==
  /\ kind \in {"stream", "json"}
  /\ worker \in {"queued", "running", "failing", "gone"}
  /\ sent \in Nat /\ made \in Nat /\ taken \in Nat
  /\ events \in Seq(EventTypes)
  /\ todo \in Seq(ChunkRec) /\ sse \in Seq(ChunkRec) /\ got \in Seq(ChunkRec)
  /\ held \in Seq(Nat) /\ pending \in PendingRec
  /\ {cancelled, sentRole, over, left} \subseteq BOOLEAN

\* Every chunk between the task and the client's last read, that one's included.
Line == Members(got) \cup Members(sse) \cup Members(todo)

\* Tokens that are not in a chunk yet.
Kept == Members(pending.text) \cup Members(held)

\* The task has begun to tell an error, and returns when it is told.
InError == \E c \in Members(todo) : c.what = "last"

\* Nothing can come from the job any more.
Drained == worker = "gone" /\ events = <<>> /\ pending = NothingPending

\* What the task holds is in the order of the tokens, and nothing is held
\* before the role was sent.
HeldInv ==
  /\ Increasing(pending.text) /\ Increasing(held)
  /\ Earlier(Members(pending.text), Members(held))
  /\ Kept \cup swallowed \subseteq 1 .. taken
  /\ kind = "stream" /\ ~sentRole => pending = NothingPending /\ held = <<>>

\* Finished is the last event of a job, and the tokens that were made are
\* those taken and those on their way.
EventsInv ==
  /\ \A i \in DOMAIN events : events[i] = "finished" => worker = "gone" /\ i = Len(events)
  /\ ~over => made = taken + Waiting(events)

\* The handler of a JSON request answers when it returns.
JsonInv == kind = "json" => todo = <<>> /\ sse = <<>> /\ (left => over) /\ (~over => got = <<>>)

\* The client's heartbeats are left out.
NoBeats == \A c \in Members(got) : c.what \notin Heartbeats

InOrder ==
  /\ Ordered(got) /\ Ordered(sse) /\ Ordered(todo)
  /\ Ahead(Members(got), Members(sse)) /\ Ahead(Members(got), Members(todo))
  /\ Ahead(Members(sse), Members(todo))

IdsInv ==
  \A c \in Line :
    /\ Members(c.ids) \subseteq 1 .. taken
    /\ c.what \notin Texts \cup {"calls"} => c.ids = <<>>
    /\ c.what \in Texts => Increasing(c.ids) /\ (over \/ Earlier(Members(c.ids), Kept))

RoleInv ==
  kind = "stream" =>
    /\ sentRole => \E c \in Line : c.what = "role"
    /\ ~sentRole => \A c \in Line : c.what \in Heartbeats \cup Ends \cup Dones

\* After an end nothing is sent: the task is over, about to be, or drained.
EndInv == (\E c \in Line : c.what \in Ends \cup Dones) => over \/ InError \/ Drained

\* Once the finish is told, what the parsers let go is on the line, and nothing
\* more is parsed.
FinishInv ==
  (\E c \in Line : c.what = "finish") =>
    /\ worker = "gone" /\ events = <<>>
    /\ swallowed \cup IdsOf(Line, Texts \cup {"calls"}) = 1 .. made

\* A token is on the line, with the task or swallowed by the parsers.
Cover == ~over => 1 .. taken \subseteq IdsOf(Line, Texts \cup {"calls"}) \cup Kept \cup swallowed

\* What is on the line to a client that is still there.
LineInv == ~left => InOrder /\ IdsInv /\ RoleInv /\ EndInv /\ FinishInv /\ Cover

SseInv == SseTypeOK /\ HeldInv /\ EventsInv /\ JsonInv /\ NoBeats /\ LineInv

\* What the client has: the two properties, and what keeps them once it left.
GotInv ==
  ChunkOrder /\ TextInOrder /\ (GotOf({"finish"}) # {} => worker = "gone" /\ events = <<>>)

-----------------------------------------------------------------------------
(* The operators of the steps.                                              *)

\* Nothing is pending, nothing is held, nothing is sent.
LEMMA Nothing ==
  /\ <<>> \in Seq(Nat) /\ <<>> \in Seq(ChunkRec) /\ <<>> \in Seq(EventTypes)
  /\ NothingPending \in PendingRec /\ Members(NothingPending.text) = {}
  /\ Increasing(<<>>) /\ Increasing(NothingPending.text)
  /\ DOMAIN <<>> = {} /\ Members(<<>>) = {}
<1>1. DOMAIN <<>> = {}
  <2>1. <<>> \in Seq(Nat) /\ Len(<<>>) = 0
    BY EmptySeq
  <2> QED
    BY <2>1, LenProperties
<1>2. Increasing(<<>>) /\ Members(<<>>) = {}
  BY <1>1 DEF Increasing, Members
<1>3. NothingPending.text = <<>> /\ NothingPending.n = 0
  BY DEF NothingPending
<1>4. <<>> \in Seq(Nat) /\ <<>> \in Seq(ChunkRec) /\ <<>> \in Seq(EventTypes)
  BY EmptySeq
<1>5. NothingPending \in PendingRec
  BY <1>4 DEF NothingPending, PendingRec
<1> QED
  BY <1>1, <1>2, <1>3, <1>4, <1>5

\* What the parsers let go of joins what is pending; the rest is still held.
LEMMA Parsed ==
  ASSUME SseTypeOK, HeldInv, NEW buf \in Seq(Nat), Increasing(buf),
         Earlier(Members(pending.text), Members(buf)), NEW part \in PartingsOfToken(buf)
  PROVE  LET p == Gather(part.text)
         IN  /\ part.text \in Seq(Nat) /\ part.rest \in Seq(Nat)
             /\ p \in PendingRec
             /\ Increasing(part.text) /\ Increasing(p.text) /\ Increasing(part.rest)
             /\ Earlier(Members(p.text), Members(part.rest))
             /\ Members(p.text) = Members(pending.text) \cup Members(part.text)
             /\ Members(buf) = Members(part.text) \cup part.swallowed \cup Members(part.rest)
<1> DEFINE p == Gather(part.text)
<1>1. /\ part.text \in Seq(Nat) /\ part.rest \in Seq(Nat)
      /\ Members(buf) = Members(part.text) \cup part.swallowed \cup Members(part.rest)
      /\ Increasing(part.text) /\ Increasing(part.rest)
      /\ Earlier(Members(part.text), Members(part.rest))
  BY TokenParts
<1>2. /\ pending \in PendingRec /\ pending.text \in Seq(Nat) /\ pending.n \in Nat
      /\ Increasing(pending.text)
  BY DEF SseTypeOK, HeldInv, PendingRec
<1>3. /\ p \in PendingRec /\ Increasing(p.text)
      /\ Members(p.text) = Members(pending.text) \cup Members(part.text)
  <2>1. CASE part.text = <<>>
    BY <1>2, <2>1, Nothing DEF Gather
  <2>2. CASE part.text # <<>>
    <3>1. p = [text |-> pending.text \o part.text, n |-> pending.n + 1]
      BY <2>2 DEF Gather
    <3>2. /\ pending.text \o part.text \in Seq(Nat)
          /\ Members(pending.text \o part.text) = Members(pending.text) \cup Members(part.text)
      BY <1>1, <1>2, MembersConcat
    <3>3. Earlier(Members(pending.text), Members(part.text))
      BY <1>1 DEF Earlier
    <3>4. Increasing(pending.text \o part.text)
      BY <1>1, <1>2, <3>3, IncreasingConcat
    <3> HIDE DEF p
    <3> QED
      BY <1>2, <3>1, <3>2, <3>4 DEF PendingRec
  <2> QED
    BY <2>1, <2>2
<1>4. Earlier(Members(p.text), Members(part.rest))
  BY <1>1, <1>3 DEF Earlier
<1> QED
  BY <1>1, <1>3, <1>4

\* A token joins what the parsers hold.
LEMMA TokenJoins ==
  ASSUME SseTypeOK, HeldInv
  PROVE  /\ Append(held, taken + 1) \in Seq(Nat) /\ Increasing(Append(held, taken + 1))
         /\ Members(Append(held, taken + 1)) = Members(held) \cup {taken + 1}
         /\ Earlier(Members(pending.text), Members(Append(held, taken + 1)))
         /\ Earlier(1 .. taken, {taken + 1}) /\ 1 .. (taken + 1) = 1 .. taken \cup {taken + 1}
<1>1. taken \in Nat /\ taken + 1 \in Nat /\ held \in Seq(Nat)
  BY DEF SseTypeOK
<1>2. Earlier(1 .. taken, {taken + 1}) /\ 1 .. (taken + 1) = 1 .. taken \cup {taken + 1}
  BY <1>1 DEF Earlier
<1>3. Members(Append(held, taken + 1)) = Members(held) \cup {taken + 1}
  BY <1>1, MembersAppend
<1>4. /\ Members(pending.text) \subseteq 1 .. taken /\ Members(held) \subseteq 1 .. taken
      /\ Increasing(held) /\ Earlier(Members(pending.text), Members(held))
  BY DEF HeldInv, Kept
<1>5. Increasing(Append(held, taken + 1))
  <2>1. Earlier(Members(held), {taken + 1})
    BY <1>2, <1>4 DEF Earlier
  <2> QED
    BY <1>1, <1>4, <2>1, IncreasingAppend
<1>6. Earlier(Members(pending.text), Members(held) \cup {taken + 1})
  BY <1>2, <1>4 DEF Earlier
<1> QED
  BY <1>1, <1>2, <1>3, <1>5, <1>6, AppendProperties

\* An event is taken.
LEMMA EventTaken ==
  ASSUME SseTypeOK, EventsInv, NEW type \in EventTypes, Take(type)
  PROVE  /\ ~over /\ todo = <<>> /\ events # <<>> /\ events' \in Seq(EventTypes)
         /\ Waiting(events') \in Nat
         /\ made = taken + Waiting(events') + (IF type = "token" THEN 1 ELSE 0)
         /\ worker' = worker =>
              \A i \in DOMAIN events' : events'[i] = "finished" => worker' = "gone" /\ i = Len(events')
         /\ type = "finished" => worker = "gone" /\ events' = <<>> /\ made = taken
<1>1. /\ ~over /\ todo = <<>> /\ events # <<>> /\ Head(events) = type /\ events' = Tail(events)
      /\ events \in Seq(EventTypes) /\ taken \in Nat
  BY DEF Take, Ready, SseTypeOK
<1>2. /\ events' \in Seq(EventTypes) /\ Len(events') = Len(events) - 1
      /\ \A i \in 1 .. Len(events') : events'[i] = events[i + 1]
      /\ Len(events) \in Nat \ {0} /\ events[1] = type
      /\ DOMAIN events = 1 .. Len(events) /\ DOMAIN events' = 1 .. Len(events')
  BY <1>1, HeadTailProperties, LenProperties, EmptySeq
<1>3. /\ Waiting(events') \in Nat
      /\ Waiting(events) = IF type = "token" THEN Waiting(events') + 1 ELSE Waiting(events')
  BY <1>1, WaitingTail
<1>4. made = taken + Waiting(events)
  BY <1>1 DEF EventsInv
<1>5. made = taken + Waiting(events') + (IF type = "token" THEN 1 ELSE 0)
  BY <1>1, <1>3, <1>4
<1>6. ASSUME worker' = worker, NEW i \in DOMAIN events', events'[i] = "finished"
      PROVE  worker' = "gone" /\ i = Len(events')
  <2>1. i + 1 \in DOMAIN events /\ events[i + 1] = "finished" /\ i \in Int
    BY <1>2, <1>6
  <2>2. worker = "gone" /\ i + 1 = Len(events)
    BY <2>1 DEF EventsInv
  <2> QED
    BY <1>2, <1>6, <2>1, <2>2
<1>7. ASSUME type = "finished" PROVE worker = "gone" /\ events' = <<>> /\ made = taken
  <2>1. 1 \in DOMAIN events
    BY <1>2
  <2>2. worker = "gone" /\ 1 = Len(events)
    BY <1>2, <1>7, <2>1 DEF EventsInv
  <2>3. events' = <<>>
    <3>1. Len(events') = Len(events) - 1 /\ events' \in Seq(EventTypes)
      BY <1>2
    <3>2. Len(events) - 1 = 0
      BY <2>2
    <3>3. Len(events') = 0
      BY <3>1, <3>2
    <3> QED
      BY <3>1, <3>3, EmptySeq
  <2>4. Waiting(events') = 0
    BY <2>3, WaitingNone
  <2>5. made = taken + Waiting(events')
    <3>1. type # "token"
      BY <1>7
    <3>2. (IF type = "token" THEN 1 ELSE 0) = 0
      BY <3>1
    <3> QED
      BY <1>1, <1>3, <1>5, <3>2
  <2> QED
    BY <1>1, <2>2, <2>3, <2>4, <2>5
<1> QED
  BY <1>1, <1>2, <1>3, <1>5, <1>6, <1>7

-----------------------------------------------------------------------------
(* What the task is about to send joins the line.                           *)

\* The chunks of the line are chunks, and what they hold is known.
LEMMA OnTheLine ==
  ASSUME SseTypeOK
  PROVE  /\ \A c \in Line : c \in ChunkRec
         /\ \A c \in ChunkRec : c.ids \in Seq(Nat) /\ c.what \in Whats
         /\ (todo = <<>> => Line = Members(got) \cup Members(sse))
<1>1. /\ Members(got) \subseteq ChunkRec /\ Members(sse) \subseteq ChunkRec
      /\ Members(todo) \subseteq ChunkRec
  BY Places DEF SseTypeOK
<1>2. \A c \in ChunkRec : c.ids \in Seq(Nat) /\ c.what \in Whats
  BY DEF ChunkRec
<1>3. todo = <<>> => Members(todo) = {}
  BY Nothing
<1> QED
  BY <1>1, <1>2, <1>3 DEF Line

\* New chunks after all others.
LEMMA JoinsTheLine ==
  ASSUME SseTypeOK, InOrder, todo = <<>>, sse' = sse, got' = got,
         todo' \in Seq(ChunkRec), Ordered(todo'), Ahead(Line, Members(todo'))
  PROVE  InOrder' /\ Line' = Line \cup Members(todo')
<1>1. Line = Members(got) \cup Members(sse)
  BY OnTheLine
<1>2. Line' = Line \cup Members(todo')
  BY <1>1 DEF Line
<1>3. /\ Ordered(got') /\ Ordered(sse') /\ Ahead(Members(got'), Members(sse'))
  BY DEF InOrder
<1>4. Ahead(Members(got'), Members(todo')) /\ Ahead(Members(sse'), Members(todo'))
  BY <1>1 DEF Ahead
<1> QED
  BY <1>2, <1>3, <1>4 DEF InOrder

\* While the task may still take something, no end is on the line.
LEMMA NoEndYet ==
  ASSUME EndInv, ~over, todo = <<>>, ~Drained
  PROVE  \A c \in Line : c.what \notin Ends \cup Dones
<1>1. ~InError
  BY Nothing DEF InError
<1> QED
  BY <1>1 DEF EndInv

\* Heartbeats may come at any time.
LEMMA BeatsFollow ==
  ASSUME NEW C, NEW d, d.what \in Heartbeats
  PROVE  Ahead(C, {d})
BY DEF Ahead, MayFollow, Heartbeats, Texts

\* Text may follow what is not an end and holds earlier tokens only.
LEMMA TextFollows ==
  ASSUME NEW C, NEW d, d.what \in Texts,
         \A c \in C : /\ c.what \notin Ends \cup Dones
                      /\ c.what \in Texts => Earlier(Members(c.ids), Members(d.ids))
  PROVE  Ahead(C, {d})
BY DEF Ahead, MayFollow, Texts

\* Tool calls and ends may follow what is not an end.
LEMMA OtherFollows ==
  ASSUME NEW C, NEW d, d.what \in {"calls", "finish", "error"},
         \A c \in C : c.what \notin Ends \cup Dones
  PROVE  Ahead(C, {d})
BY DEF Ahead, MayFollow, Texts

\* [DONE] may follow what is not one.
LEMMA DoneFollows ==
  ASSUME NEW C, NEW d, d.what \in Dones, \A c \in C : c.what \notin Dones
  PROVE  Ahead(C, {d})
BY DEF Ahead, MayFollow, Texts, Dones

\* The role may follow heartbeats only.
LEMMA RoleFollows ==
  ASSUME NEW C, NEW d, d.what = "role", \A c \in C : c.what \in Heartbeats
  PROVE  Ahead(C, {d})
BY DEF Ahead, MayFollow, Texts, Dones, Ends, Heartbeats

\* Sets of chunks put together.
LEMMA AheadUnion ==
  ASSUME NEW C, NEW D, NEW E
  PROVE  /\ Ahead(C, D) /\ Ahead(C, E) => Ahead(C, D \cup E)
         /\ Ahead(C, E) /\ Ahead(D, E) => Ahead(C \cup D, E)
         /\ Ahead(C, {}) /\ Ahead({}, C)
BY DEF Ahead

\* The tokens in sets of chunks put together.
LEMMA IdsUnion ==
  ASSUME NEW C, NEW D, NEW W
  PROVE  /\ IdsOf(C \cup D, W) = IdsOf(C, W) \cup IdsOf(D, W)
         /\ IdsOf({}, W) = {}
         /\ \A d : IdsOf({d}, W) = IF d.what \in W THEN Members(d.ids) ELSE {}
<1>1. IdsOf(C \cup D, W) = IdsOf(C, W) \cup IdsOf(D, W)
  BY DEF IdsOf
<1>2. IdsOf({}, W) = {}
  BY DEF IdsOf
<1>3. ASSUME NEW d PROVE IdsOf({d}, W) = IF d.what \in W THEN Members(d.ids) ELSE {}
  BY DEF IdsOf
<1> QED
  BY <1>1, <1>2, <1>3

-----------------------------------------------------------------------------
(* The steps.                                                               *)

\* The connection begins with two heartbeats.
LEMMA InitInv == SseInit => SseInv
<1> SUFFICES ASSUME SseInit PROVE SseInv
  OBVIOUS
<1> USE SseAssumption
<1> DEFINE c == Mark("queued")
           d == Mark("empty")
<1>1. /\ c \in ChunkRec /\ d \in ChunkRec /\ c.what = "queued" /\ d.what = "empty"
      /\ c.ids = <<>> /\ d.ids = <<>> /\ MayFollow(c, d)
  <2>1. c.what = "queued" /\ d.what = "empty" /\ c.ids = <<>> /\ d.ids = <<>>
    BY DEF Mark, Chunk
  <2>2. c \in ChunkRec /\ d \in ChunkRec
    BY Nothing DEF Mark, Chunk, ChunkRec, Whats, Heartbeats
  <2> QED
    BY <2>1, <2>2 DEF MayFollow, Ends, Dones, Texts
<1> HIDE DEF c, d
<1>2. /\ todo \in Seq(ChunkRec) /\ Ordered(todo) /\ \A e \in Members(todo) : e = c \/ e = d
      /\ kind = "json" => todo = <<>>
  <2>1. CASE kind = "stream"
    <3>1. todo = <<c, d>> /\ kind # "json"
      BY <2>1 DEF SseInit, c, d
    <3> QED
      BY <1>1, <3>1, ShortMembers, OrderedShort
  <2>2. CASE kind # "stream"
    <3>1. todo = <<>>
      BY <2>2 DEF SseInit
    <3> QED
      BY <3>1, Nothing, OrderedShort
  <2> QED
    BY <2>1, <2>2
<1>3. SseTypeOK
  BY <1>2, Nothing DEF SseTypeOK, SseInit
<1>4. HeldInv
  <2>1. /\ pending = NothingPending /\ held = <<>> /\ swallowed = {}
        /\ Increasing(pending.text) /\ Increasing(held)
        /\ Members(pending.text) = {} /\ Members(held) = {}
    BY Nothing DEF SseInit
  <2> QED
    BY <2>1 DEF HeldInv, Kept, Earlier
<1>5. EventsInv
  BY Nothing, WaitingNone DEF SseInit, EventsInv
<1>6. JsonInv /\ NoBeats
  BY <1>2, Nothing DEF SseInit, JsonInv, NoBeats
<1>7. Line = Members(todo) /\ \A e \in Line : e.what \in Heartbeats /\ e.ids = <<>>
  <2>1. Line = Members(todo)
    BY Nothing DEF Line, SseInit
  <2> QED
    BY <1>1, <1>2, <2>1 DEF Heartbeats
<1>8. LineInv
  <2>1. InOrder
    <3>1. Ordered(got) /\ Ordered(sse) /\ Members(got) = {} /\ Members(sse) = {}
      BY Nothing, OrderedShort DEF SseInit
    <3> QED
      BY <1>2, <3>1 DEF InOrder, Ahead
  <2>2. IdsInv
    <3>1. ASSUME NEW e \in Line PROVE e.ids = <<>> /\ Members(e.ids) = {} /\ e.what \notin Texts
      <4>1. e.ids = <<>> /\ e.what \notin Texts
        BY <1>7 DEF Heartbeats, Texts
      <4> QED
        BY <4>1, Nothing
    <3> QED
      BY <3>1 DEF IdsInv
  <2>3. RoleInv /\ EndInv /\ FinishInv
    BY <1>7 DEF RoleInv, EndInv, FinishInv, Heartbeats, Ends, Dones, SseInit
  <2>4. Cover
    BY DEF Cover, SseInit
  <2> QED
    BY <2>1, <2>2, <2>3, <2>4 DEF LineInv
<1> QED
  BY <1>3, <1>4, <1>5, <1>6, <1>8 DEF SseInv

\* A chunk goes from the task to the channel.
LEMMA SendInv == SseInv /\ Send => SseInv'
<1> SUFFICES ASSUME SseInv, Send PROVE SseInv'
  OBVIOUS
<1> DEFINE h == Head(todo)
<1>1. /\ SseTypeOK /\ HeldInv /\ EventsInv /\ JsonInv /\ NoBeats /\ LineInv
      /\ ~over /\ todo # <<>> /\ todo \in Seq(ChunkRec) /\ sse \in Seq(ChunkRec)
      /\ UNCHANGED <<kind, workerVars, events, parseVars, clientVars>>
  BY DEF SseInv, SseTypeOK, Send
<1>2. /\ Tail(todo) \in Seq(ChunkRec) /\ h \in ChunkRec
      /\ Members(todo) = Members(Tail(todo)) \cup {h}
  BY <1>1, MembersTail
<1>3. kind = "stream"
  BY <1>1 DEF JsonInv, SseTypeOK
<1>4. HeldInv' /\ NoBeats' /\ JsonInv' /\ (EventsInv')
  BY <1>1, <1>3 DEF HeldInv, NoBeats, JsonInv, EventsInv, Kept, workerVars, parseVars, clientVars
<1>5. /\ kind' = kind /\ worker' = worker /\ made' = made /\ events' = events /\ sent' = sent
      /\ sentRole' = sentRole /\ taken' = taken /\ held' = held /\ pending' = pending
      /\ swallowed' = swallowed /\ got' = got /\ left' = left /\ left \in BOOLEAN
  BY <1>1 DEF workerVars, parseVars, clientVars, SseTypeOK
<1> HIDE DEF h
<1>6. CASE left
  <2>1. /\ todo' \in Seq(ChunkRec) /\ sse' = sse /\ over' \in BOOLEAN /\ cancelled' \in BOOLEAN
    BY <1>1, <1>2, <1>6, Nothing DEF Send, SseTypeOK
  <2>2. SseTypeOK'
    BY <1>1, <1>5, <2>1 DEF SseTypeOK
  <2> QED
    BY <1>4, <1>5, <1>6, <2>2 DEF SseInv, LineInv
<1>7. CASE ~left
  <2>1. /\ sse' = Append(sse, h) /\ todo' = Tail(todo) /\ over' = (h.what = "last")
        /\ cancelled' = cancelled
    BY <1>7 DEF Send, h
  <2>2. sse' \in Seq(ChunkRec) /\ Members(sse') = Members(sse) \cup {h}
    BY <1>1, <1>2, <2>1, MembersAppend, AppendProperties
  <2>3. SseTypeOK'
    BY <1>1, <1>2, <1>5, <2>1, <2>2 DEF SseTypeOK
  <2>4. Line' = Line
    BY <1>2, <1>5, <2>1, <2>2 DEF Line
  <2>5. InOrder /\ IdsInv /\ RoleInv /\ EndInv /\ FinishInv /\ Cover
    BY <1>1, <1>7 DEF LineInv
  <2>6. InOrder'
    <3>1. /\ Ordered(got) /\ Ordered(sse) /\ Ordered(todo) /\ Ahead(Members(got), Members(sse))
          /\ Ahead(Members(got), Members(todo)) /\ Ahead(Members(sse), Members(todo))
      BY <2>5 DEF InOrder
    <3>2. Ordered(todo') /\ Ahead({h}, Members(todo'))
      BY <1>1, <2>1, <3>1, OrderedTail DEF h
    <3>3. Ahead(Members(sse), {h}) /\ Ahead(Members(got), {h})
      BY <1>2, <3>1 DEF Ahead
    <3>4. Ordered(sse')
      BY <1>1, <1>2, <2>1, <3>1, <3>3, OrderedAppend
    <3>5. /\ Ahead(Members(got'), Members(sse')) /\ Ahead(Members(got'), Members(todo'))
          /\ Ahead(Members(sse'), Members(todo'))
      BY <1>2, <1>5, <2>1, <2>2, <3>1, <3>2, <3>3 DEF Ahead
    <3> QED
      BY <1>5, <3>1, <3>2, <3>4, <3>5 DEF InOrder
  <2>7. IdsInv' /\ RoleInv' /\ FinishInv' /\ Cover'
    BY <1>1, <1>5, <2>4, <2>5 DEF IdsInv, RoleInv, FinishInv, Cover, Kept
  <2>8. EndInv'
    <3>1. InError => over' \/ InError'
      BY <1>2, <2>1 DEF InError
    <3>2. Drained => Drained'
      BY <1>5 DEF Drained
    <3> QED
      BY <1>1, <2>4, <2>5, <3>1, <3>2 DEF EndInv
  <2> QED
    BY <1>4, <2>3, <2>6, <2>7, <2>8 DEF SseInv, LineInv
<1> QED
  BY <1>5, <1>6, <1>7

\* What a step keeps when it sends no chunk and takes no event.
LEMMA QuietLine ==
  ASSUME SseInv, UNCHANGED <<kind, worker, made, events, todo, sse, got, left, parseVars>>, ~left,
         over' \in BOOLEAN, over => over'
  PROVE  LineInv' /\ HeldInv'
<1>1. /\ kind' = kind /\ worker' = worker /\ made' = made /\ events' = events
      /\ sentRole' = sentRole /\ taken' = taken /\ held' = held /\ pending' = pending
      /\ swallowed' = swallowed /\ got' = got /\ todo' = todo /\ sse' = sse /\ left' = left
  BY DEF parseVars
<1>2. HeldInv /\ InOrder /\ IdsInv /\ RoleInv /\ EndInv /\ FinishInv /\ Cover
  BY DEF SseInv, LineInv
<1>3. Line' = Line /\ Kept' = Kept
  BY <1>1 DEF Line, Kept
<1>4. HeldInv' /\ InOrder'
  BY <1>1, <1>2, <1>3 DEF HeldInv, InOrder
<1>5. IdsInv' /\ RoleInv' /\ FinishInv' /\ Cover'
  BY <1>1, <1>2, <1>3 DEF IdsInv, RoleInv, FinishInv, Cover
<1>6. (InError => InError') /\ (Drained => Drained')
  BY <1>1 DEF InError, Drained
<1>7. EndInv'
  BY <1>2, <1>3, <1>6 DEF EndInv
<1> QED
  BY <1>4, <1>5, <1>7 DEF LineInv

\* The task returns when the channel of events has closed.
LEMMA OnClosedInv == SseInv /\ OnClosed => SseInv'
<1> SUFFICES ASSUME SseInv, OnClosed PROVE SseInv'
  OBVIOUS
<1>1. /\ kind = "stream" /\ over' = TRUE
      /\ UNCHANGED <<kind, worker, made, events, todo, sse, got, left, parseVars>>
      /\ UNCHANGED <<cancelled, sent>>
      /\ SseTypeOK /\ HeldInv /\ EventsInv /\ JsonInv /\ NoBeats
  BY DEF OnClosed, SseInv, workerVars, clientVars
<1>2. SseTypeOK' /\ EventsInv' /\ NoBeats' /\ JsonInv' /\ HeldInv'
  BY <1>1 DEF SseTypeOK, EventsInv, NoBeats, JsonInv, HeldInv, Kept, parseVars
<1>3. LineInv'
  <2>1. CASE left
    BY <1>1, <2>1 DEF LineInv
  <2>2. CASE ~left
    BY <1>1, <2>2, QuietLine
  <2> QED
    BY <2>1, <2>2
<1> QED
  BY <1>2, <1>3 DEF SseInv

\* An event that says nothing to the client.
LEMMA EventDropped ==
  ASSUME SseInv, NEW type \in EventTypes \ {"token"}, Take(type),
         UNCHANGED <<kind, workerVars, cancelled, todo, sse, parseVars, over, clientVars>>
  PROVE  SseInv'
<1>1. /\ kind' = kind /\ worker' = worker /\ made' = made /\ sent' = sent
      /\ sentRole' = sentRole /\ taken' = taken /\ held' = held /\ pending' = pending
      /\ swallowed' = swallowed /\ got' = got /\ left' = left /\ cancelled' = cancelled
      /\ todo' = todo /\ sse' = sse /\ over' = over
  BY DEF workerVars, parseVars, clientVars
<1>2. SseTypeOK /\ HeldInv /\ EventsInv /\ JsonInv /\ NoBeats /\ LineInv
  BY DEF SseInv
<1>3. /\ ~over /\ todo = <<>> /\ events # <<>> /\ events' \in Seq(EventTypes)
      /\ Waiting(events') \in Nat /\ made = taken + Waiting(events')
      /\ \A i \in DOMAIN events' : events'[i] = "finished" => worker' = "gone" /\ i = Len(events')
  <2>1. /\ ~over /\ todo = <<>> /\ events # <<>> /\ events' \in Seq(EventTypes)
        /\ Waiting(events') \in Nat
        /\ made = taken + Waiting(events') + (IF type = "token" THEN 1 ELSE 0)
        /\ \A i \in DOMAIN events' : events'[i] = "finished" => worker' = "gone" /\ i = Len(events')
    BY <1>1, <1>2, EventTaken
  <2>2. (IF type = "token" THEN 1 ELSE 0) = 0 /\ taken \in Nat
    BY <1>2 DEF SseTypeOK
  <2> QED
    BY <2>1, <2>2
<1>4. SseTypeOK' /\ HeldInv' /\ EventsInv' /\ JsonInv' /\ NoBeats'
  BY <1>1, <1>2, <1>3 DEF SseTypeOK, HeldInv, EventsInv, JsonInv, NoBeats, Kept
<1>5. ASSUME ~left PROVE LineInv'
  <2>1. InOrder /\ IdsInv /\ RoleInv /\ EndInv /\ FinishInv /\ Cover
    BY <1>2, <1>5 DEF LineInv
  <2>2. Line' = Line /\ Kept' = Kept /\ ~Drained
    BY <1>1, <1>3 DEF Line, Kept, Drained
  <2>3. \A c \in Line : c.what \notin Ends \cup Dones
    BY <1>3, <2>1, <2>2, NoEndYet
  <2>4. EndInv' /\ FinishInv'
    BY <2>2, <2>3 DEF EndInv, FinishInv, Ends
  <2>5. InOrder' /\ IdsInv' /\ RoleInv'
    BY <1>1, <2>1, <2>2 DEF InOrder, IdsInv, RoleInv
  <2>6. Cover'
    BY <1>1, <2>1, <2>2 DEF Cover
  <2> QED
    BY <2>4, <2>5, <2>6 DEF LineInv
<1>6. left' => LineInv'
  BY DEF LineInv
<1> QED
  BY <1>1, <1>4, <1>5, <1>6 DEF SseInv

\* An event after the others, or nowhere once the task is gone.
LEMMA EmitInv ==
  ASSUME SseInv, NEW type \in EventTypes, Emit(type), worker # "gone",
         worker' \in {"queued", "running", "failing", "gone"}, sent' \in Nat,
         made' = (IF type = "token" THEN made + 1 ELSE made),
         type = "finished" => worker' = "gone", WorkerRest
  PROVE  SseInv'
<1>1. /\ kind' = kind /\ cancelled' = cancelled
      /\ sentRole' = sentRole /\ taken' = taken /\ held' = held /\ pending' = pending
      /\ swallowed' = swallowed /\ got' = got /\ left' = left
      /\ todo' = todo /\ sse' = sse /\ over' = over
  BY DEF WorkerRest, parseVars, clientVars
<1>2. SseTypeOK /\ HeldInv /\ EventsInv /\ JsonInv /\ NoBeats /\ LineInv
  BY DEF SseInv
<1>3. made \in Nat /\ taken \in Nat /\ events \in Seq(EventTypes) /\ made' \in Nat
  BY <1>2 DEF SseTypeOK
<1>4. ASSUME NEW i \in DOMAIN events PROVE events[i] # "finished"
  BY <1>2 DEF EventsInv
<1>5. events' \in Seq(EventTypes) /\ EventsInv'
  <2>1. CASE over
    <3>1. events' = events
      BY <2>1 DEF Emit
    <3> QED
      BY <1>1, <1>3, <1>4, <2>1, <3>1 DEF EventsInv
  <2>2. CASE ~over
    <3>1. events' = Append(events, type)
      BY <2>2 DEF Emit
    <3>2. /\ events' \in Seq(EventTypes) /\ Len(events') = Len(events) + 1
          /\ \A i \in 1 .. Len(events) : events'[i] = events[i]
          /\ events'[Len(events) + 1] = type
      BY <1>3, <3>1, AppendProperties
    <3>3. /\ Len(events) \in Nat /\ DOMAIN events = 1 .. Len(events)
          /\ DOMAIN events' = 1 .. (Len(events) + 1)
      BY <1>3, <3>2, LenProperties
    <3>4. ASSUME NEW i \in DOMAIN events', events'[i] = "finished"
          PROVE  worker' = "gone" /\ i = Len(events')
      <4>1. i \in DOMAIN events \/ i = Len(events) + 1
        BY <3>3
      <4> QED
        BY <1>4, <3>2, <3>3, <3>4, <4>1
    <3>5. /\ Waiting(events) \in Nat
          /\ Waiting(events') = IF type = "token" THEN Waiting(events) + 1 ELSE Waiting(events)
      BY <1>3, <3>1, WaitingAppend
    <3>6. made' = taken' + Waiting(events')
      <4>1. made = taken + Waiting(events)
        BY <1>2, <2>2 DEF EventsInv
      <4> QED
        BY <1>1, <1>3, <3>5, <4>1
    <3> QED
      BY <3>2, <3>4, <3>6 DEF EventsInv
  <2> QED
    BY <1>2, <2>1, <2>2 DEF SseTypeOK
<1>6. SseTypeOK' /\ HeldInv' /\ JsonInv' /\ NoBeats'
  BY <1>1, <1>2, <1>3, <1>5 DEF SseTypeOK, HeldInv, JsonInv, NoBeats, Kept
<1>7. ASSUME ~left PROVE LineInv'
  <2>1. InOrder /\ IdsInv /\ RoleInv /\ EndInv /\ FinishInv /\ Cover
    BY <1>2, <1>7 DEF LineInv
  <2>2. /\ Line' = Line /\ Kept' = Kept /\ ~Drained /\ (InError => InError')
        /\ \A c \in Line : c.what # "finish"
    BY <1>1, <2>1 DEF Line, Kept, Drained, InError, FinishInv
  <2>3. InOrder' /\ IdsInv' /\ RoleInv' /\ FinishInv' /\ Cover'
    BY <1>1, <2>1, <2>2 DEF InOrder, IdsInv, RoleInv, FinishInv, Cover
  <2>4. EndInv'
    BY <1>1, <2>1, <2>2 DEF EndInv
  <2> QED
    BY <2>3, <2>4 DEF LineInv
<1>8. left' => LineInv'
  BY DEF LineInv
<1> QED
  BY <1>1, <1>5, <1>6, <1>7, <1>8 DEF SseInv

\* The job sends its events and ends, whatever it sent before.
LEMMA WorkerInv == SseInv /\ Worker => SseInv'
<1> SUFFICES ASSUME SseInv, Worker PROVE SseInv'
  OBVIOUS
<1>1. /\ sent \in Nat /\ made \in Nat /\ sent + 1 \in Nat
      /\ worker \in {"queued", "running", "failing", "gone"}
  BY DEF SseInv, SseTypeOK
<1>2. CASE WorkerSends
  <2>1. sent' \in Nat /\ WorkerRest /\ worker # "gone"
    BY <1>1, <1>2 DEF WorkerSends
  <2>2. \/ worker = "queued" /\ Emit("progress") /\ UNCHANGED <<worker, made>>
        \/ Emit("empty") /\ worker' = "running" /\ UNCHANGED made
        \/ Emit("token") /\ worker' = "running" /\ made' = made + 1
    BY <1>2 DEF WorkerSends
  <2>3. CASE worker = "queued" /\ Emit("progress") /\ UNCHANGED <<worker, made>>
    <3>1. "progress" \in EventTypes
      BY DEF EventTypes
    <3> QED
      BY <2>1, <2>3, <3>1, EmitInv
  <2>4. CASE Emit("empty") /\ worker' = "running" /\ UNCHANGED made
    <3>1. "empty" \in EventTypes
      BY DEF EventTypes
    <3> QED
      BY <2>1, <2>4, <3>1, EmitInv
  <2>5. CASE Emit("token") /\ worker' = "running" /\ made' = made + 1
    <3>1. "token" \in EventTypes
      BY DEF EventTypes
    <3> QED
      BY <2>1, <2>5, <3>1, EmitInv
  <2> QED
    BY <2>2, <2>3, <2>4, <2>5
<1>3. CASE WorkerFailsToken
  <2>1. /\ "failed" \in EventTypes /\ Emit("failed") /\ WorkerRest /\ worker # "gone"
        /\ worker' = "failing" /\ sent' \in Nat /\ made' = made
    BY <1>1, <1>3 DEF EventTypes, WorkerFailsToken
  <2> QED
    BY <2>1, EmitInv
<1>4. CASE WorkerEnds
  <2>1. worker' = "gone" /\ sent' \in Nat /\ sent' = sent /\ made' = made /\ WorkerRest /\ worker # "gone"
    BY <1>1, <1>4 DEF WorkerEnds
  <2>2. "finished" \in EventTypes /\ "failed" \in EventTypes
    BY DEF EventTypes
  <2>3. CASE Emit("finished")
    BY <2>1, <2>2, <2>3, EmitInv
  <2>4. CASE Emit("failed")
    BY <2>1, <2>2, <2>4, EmitInv
  <2>5. CASE UNCHANGED events
    <3>1. /\ kind' = kind /\ cancelled' = cancelled
          /\ sentRole' = sentRole /\ taken' = taken /\ held' = held /\ pending' = pending
          /\ swallowed' = swallowed /\ got' = got /\ left' = left
          /\ todo' = todo /\ sse' = sse /\ over' = over
      BY <2>1 DEF WorkerRest, parseVars, clientVars
    <3>2. SseTypeOK /\ HeldInv /\ EventsInv /\ JsonInv /\ NoBeats /\ LineInv
      BY DEF SseInv
    <3>3. SseTypeOK' /\ HeldInv' /\ EventsInv' /\ JsonInv' /\ NoBeats'
      BY <2>1, <2>5, <3>1, <3>2 DEF SseTypeOK, HeldInv, EventsInv, JsonInv, NoBeats, Kept
    <3>4. LineInv'
      <4>1. Line' = Line /\ Kept' = Kept /\ (InError => InError') /\ (Drained => Drained')
        BY <2>1, <2>5, <3>1 DEF Line, Kept, InError, Drained
      <4> QED
        BY <2>1, <3>1, <3>2, <4>1
        DEF LineInv, InOrder, IdsInv, RoleInv, EndInv, FinishInv, Cover
    <3> QED
      BY <3>3, <3>4 DEF SseInv
  <2> QED
    BY <1>4, <2>3, <2>4, <2>5 DEF WorkerEnds
<1> QED
  BY <1>2, <1>3, <1>4 DEF Worker

\* The client reads a chunk, and leaves heartbeats out.
LEMMA ClientReadsInv == SseInv /\ ClientReads => SseInv'
<1> SUFFICES ASSUME SseInv, ClientReads PROVE SseInv'
  OBVIOUS
<1> DEFINE h == Head(sse)
<1>1. /\ SseTypeOK /\ HeldInv /\ EventsInv /\ JsonInv /\ NoBeats
      /\ InOrder /\ IdsInv /\ RoleInv /\ EndInv /\ FinishInv /\ Cover
      /\ ~left /\ sse # <<>> /\ sse' = Tail(sse) /\ got \in Seq(ChunkRec) /\ sse \in Seq(ChunkRec)
      /\ got' = IF h.what \in Heartbeats THEN got ELSE Append(got, h)
  BY DEF SseInv, SseTypeOK, LineInv, ClientReads
<1>2. /\ kind' = kind /\ worker' = worker /\ made' = made /\ events' = events /\ sent' = sent
      /\ sentRole' = sentRole /\ taken' = taken /\ held' = held /\ pending' = pending
      /\ swallowed' = swallowed /\ todo' = todo /\ left' = left /\ over' = over /\ cancelled' = cancelled
  BY DEF ClientReads, workerVars, parseVars
<1>3. /\ Tail(sse) \in Seq(ChunkRec) /\ h \in ChunkRec
      /\ Members(sse) = Members(sse') \cup {h}
  BY <1>1, MembersTail
<1>4. /\ Ordered(got) /\ Ordered(sse) /\ Ordered(todo) /\ Ahead(Members(got), Members(sse))
      /\ Ahead(Members(got), Members(todo)) /\ Ahead(Members(sse), Members(todo))
  BY <1>1 DEF InOrder
<1>5. Ordered(sse') /\ Ahead({h}, Members(sse')) /\ Ahead(Members(got), {h}) /\ Ahead({h}, Members(todo))
  <2>1. Ordered(sse') /\ Ahead({h}, Members(sse'))
    BY <1>1, <1>4, OrderedTail
  <2> QED
    BY <1>3, <1>4, <2>1 DEF Ahead
<1> HIDE DEF h
<1>6. /\ got' \in Seq(ChunkRec) /\ Ordered(got') /\ NoBeats'
      /\ Members(got') = IF h.what \in Heartbeats THEN Members(got) ELSE Members(got) \cup {h}
  <2>1. CASE h.what \in Heartbeats
    BY <1>1, <1>4, <2>1 DEF NoBeats
  <2>2. CASE h.what \notin Heartbeats
    <3>1. got' = Append(got, h)
      BY <1>1, <2>2
    <3>2. /\ got' \in Seq(ChunkRec) /\ Members(got') = Members(got) \cup {h}
      BY <1>1, <1>3, <3>1, MembersAppend, AppendProperties
    <3>3. Ordered(got')
      BY <1>1, <1>3, <1>4, <1>5, <3>1, OrderedAppend
    <3>4. NoBeats'
      BY <1>1, <2>2, <3>2 DEF NoBeats
    <3> QED
      BY <2>2, <3>2, <3>3, <3>4
  <2> QED
    BY <2>1, <2>2
<1>7. SseTypeOK'
  BY <1>1, <1>2, <1>3, <1>6 DEF SseTypeOK
<1>8. HeldInv' /\ EventsInv'
  BY <1>1, <1>2 DEF HeldInv, EventsInv, Kept
<1>9. JsonInv'
  BY <1>1, <1>2 DEF JsonInv
<1>10. InOrder'
  BY <1>2, <1>3, <1>4, <1>5, <1>6 DEF InOrder, Ahead
<1>11. /\ Line' \subseteq Line /\ Kept' = Kept
       /\ \A c \in Line : c.what \notin Heartbeats => c \in Line'
  BY <1>2, <1>3, <1>6 DEF Line, Kept
<1>12. \A W : W \cap Heartbeats = {} => IdsOf(Line', W) = IdsOf(Line, W)
  BY <1>11 DEF IdsOf
<1>13. Texts \cap Heartbeats = {} /\ (Texts \cup {"calls"}) \cap Heartbeats = {}
  BY DEF Texts, Heartbeats
<1>14. IdsInv' /\ RoleInv'
  BY <1>1, <1>2, <1>11 DEF IdsInv, RoleInv, Heartbeats
<1>15. FinishInv' /\ Cover'
  BY <1>1, <1>2, <1>11, <1>12, <1>13 DEF FinishInv, Cover
<1>16. EndInv'
  BY <1>1, <1>2, <1>11 DEF EndInv, InError, Drained
<1> QED
  BY <1>6, <1>7, <1>8, <1>9, <1>10, <1>14, <1>15, <1>16 DEF SseInv, LineInv

\* The client goes away.
LEMMA ClientLeavesInv == SseInv /\ ClientLeaves => SseInv'
<1> SUFFICES ASSUME SseInv, ClientLeaves PROVE SseInv'
  OBVIOUS
<1>1. /\ SseTypeOK /\ HeldInv /\ EventsInv /\ JsonInv /\ NoBeats
      /\ left' = TRUE /\ sse' = <<>>
      /\ IF kind = "json" THEN cancelled' = TRUE /\ over' = TRUE
                          ELSE cancelled' = cancelled /\ over' = over
  BY DEF SseInv, ClientLeaves
<1>2. /\ kind' = kind /\ worker' = worker /\ made' = made /\ events' = events /\ sent' = sent
      /\ sentRole' = sentRole /\ taken' = taken /\ held' = held /\ pending' = pending
      /\ swallowed' = swallowed /\ todo' = todo /\ got' = got
  BY DEF ClientLeaves, workerVars, parseVars
<1>3. over' \in BOOLEAN /\ cancelled' \in BOOLEAN /\ (over => over')
  BY <1>1 DEF SseTypeOK
<1>4. SseTypeOK'
  BY <1>1, <1>2, <1>3, Nothing DEF SseTypeOK
<1>5. HeldInv' /\ EventsInv' /\ NoBeats' /\ JsonInv'
  BY <1>1, <1>2, <1>3 DEF HeldInv, EventsInv, NoBeats, JsonInv, Kept
<1> QED
  BY <1>1, <1>4, <1>5 DEF SseInv, LineInv

\* The task sends chunks of its own, without an event: heartbeats.
LEMMA BeatInv ==
  ASSUME SseInv, Ready, NEW what \in Heartbeats, todo' = <<Mark(what)>>, kind = "stream",
         UNCHANGED <<kind, workerVars, cancelled, sse, parseVars, over, clientVars>>,
         events' \in Seq(EventTypes), EventsInv', ~Drained \/ events' = events
  PROVE  SseInv'
<1> DEFINE d == Mark(what)
<1>1. /\ kind' = kind /\ worker' = worker /\ made' = made /\ sent' = sent
      /\ sentRole' = sentRole /\ taken' = taken /\ held' = held /\ pending' = pending
      /\ swallowed' = swallowed /\ got' = got /\ left' = left /\ cancelled' = cancelled
      /\ sse' = sse /\ over' = over
  BY DEF workerVars, parseVars, clientVars
<1>2. SseTypeOK /\ HeldInv /\ EventsInv /\ JsonInv /\ NoBeats /\ LineInv /\ ~over /\ todo = <<>>
  BY DEF SseInv, Ready
<1>3. /\ d.what = what /\ d.ids = <<>> /\ d \in ChunkRec /\ what \in Whats
      /\ todo' \in Seq(ChunkRec) /\ Members(todo') = {d} /\ Ordered(todo')
  <2>1. d.what = what /\ d.ids = <<>>
    BY DEF Mark, Chunk
  <2>2. what \in Whats /\ d \in ChunkRec
    BY Nothing DEF Whats, Mark, Chunk, ChunkRec
  <2>3. todo' = <<d>>
    OBVIOUS
  <2> HIDE DEF d
  <2> QED
    BY <2>1, <2>2, <2>3, ShortMembers, OrderedShort
<1> HIDE DEF d
<1>4. SseTypeOK' /\ HeldInv' /\ JsonInv' /\ NoBeats'
  BY <1>1, <1>2, <1>3 DEF SseTypeOK, HeldInv, JsonInv, NoBeats, Kept
<1>5. ASSUME ~left PROVE LineInv'
  <2>1. InOrder /\ IdsInv /\ RoleInv /\ EndInv /\ FinishInv /\ Cover
    BY <1>2, <1>5 DEF LineInv
  <2>2. Ahead(Line, Members(todo'))
    BY <1>3, BeatsFollow
  <2>3. InOrder' /\ Line' = Line \cup {d}
    BY <1>1, <1>2, <1>3, <2>1, <2>2, JoinsTheLine
  <2>4. what \notin Texts \cup Ends \cup Dones \cup {"calls", "role", "finish"} /\ Kept' = Kept
    BY <1>1 DEF Heartbeats, Texts, Ends, Dones, Kept
  <2>5. IdsInv'
    <3>1. Members(d.ids) = {}
      BY <1>3, Nothing
    <3> QED
      BY <1>1, <1>3, <2>1, <2>3, <2>4, <3>1 DEF IdsInv
  <2>6. RoleInv'
    BY <1>1, <1>3, <2>1, <2>3 DEF RoleInv
  <2>7. /\ IdsOf(Line', Texts) = IdsOf(Line, Texts)
        /\ IdsOf(Line', Texts \cup {"calls"}) = IdsOf(Line, Texts \cup {"calls"})
    BY <1>3, <2>3, <2>4 DEF IdsOf
  <2>8. FinishInv' /\ Cover'
    <3>1. d.what # "finish"
      BY <1>3, <2>4
    <3>2. FinishInv'
      <4>1. CASE events' = events
        BY <1>1, <2>1, <2>3, <2>7, <3>1, <4>1 DEF FinishInv
      <4>2. CASE ~Drained
        <5>1. \A c \in Line : c.what \notin Ends \cup Dones
          BY <1>2, <2>1, <4>2, NoEndYet
        <5>2. \A c \in Line' : c.what # "finish"
          BY <2>3, <3>1, <5>1 DEF Ends
        <5> QED
          BY <5>2 DEF FinishInv
      <4> QED
        BY <4>1, <4>2
    <3>3. Cover'
      <4>1. 1 .. taken \subseteq IdsOf(Line, Texts \cup {"calls"}) \cup Kept \cup swallowed
        BY <1>2, <2>1 DEF Cover
      <4> QED
        BY <1>1, <2>4, <2>7, <4>1 DEF Cover
    <3> QED
      BY <3>2, <3>3
  <2>9. EndInv'
    <3>1. (Drained => Drained') /\ ~InError
      BY <1>1, <1>2, Nothing DEF Drained, InError
    <3> QED
      BY <1>1, <1>2, <1>3, <2>1, <2>3, <2>4, <3>1 DEF EndInv
  <2> QED
    BY <2>3, <2>5, <2>6, <2>8, <2>9 DEF LineInv
<1>6. left' => LineInv'
  BY DEF LineInv
<1> QED
  BY <1>1, <1>4, <1>5, <1>6 DEF SseInv

\* What an event that is not a token leaves of the events.
LEMMA TakenInv ==
  ASSUME SseTypeOK, EventsInv, NEW type \in EventTypes \ {"token"}, Take(type),
         UNCHANGED <<worker, made, taken>>
  PROVE  /\ EventsInv' /\ events' \in Seq(EventTypes) /\ Ready /\ ~over /\ todo = <<>> /\ ~Drained
         /\ type = "finished" => worker = "gone" /\ events' = <<>> /\ made = taken
<1>1. /\ ~over /\ todo = <<>> /\ events # <<>> /\ events' \in Seq(EventTypes)
      /\ Waiting(events') \in Nat
      /\ made = taken + Waiting(events') + (IF type = "token" THEN 1 ELSE 0)
      /\ \A i \in DOMAIN events' : events'[i] = "finished" => worker' = "gone" /\ i = Len(events')
      /\ type = "finished" => worker = "gone" /\ events' = <<>> /\ made = taken
  BY EventTaken
<1>2. (IF type = "token" THEN 1 ELSE 0) = 0 /\ taken \in Nat
  BY DEF SseTypeOK
<1>3. made = taken + Waiting(events')
  BY <1>1, <1>2
<1> QED
  BY <1>1, <1>3 DEF EventsInv, Ready, Drained

\* Two chunks that end what is sent.
LEMMA TwoMarks ==
  ASSUME NEW a \in Whats, NEW b \in Whats
  PROVE  /\ Mark(a) \in ChunkRec /\ Mark(b) \in ChunkRec
         /\ Mark(a).what = a /\ Mark(b).what = b /\ Mark(a).ids = <<>> /\ Mark(b).ids = <<>>
         /\ <<Mark(a), Mark(b)>> \in Seq(ChunkRec)
         /\ Members(<<Mark(a), Mark(b)>>) = {Mark(a), Mark(b)}
         /\ MayFollow(Mark(a), Mark(b)) => Ordered(<<Mark(a), Mark(b)>>)
<1>1. Mark(a).what = a /\ Mark(b).what = b /\ Mark(a).ids = <<>> /\ Mark(b).ids = <<>>
  BY DEF Mark, Chunk
<1>2. Mark(a) \in ChunkRec /\ Mark(b) \in ChunkRec
  BY Nothing DEF Mark, Chunk, ChunkRec
<1> QED
  BY <1>1, <1>2, ShortMembers, OrderedShort

\* The client is told of a prompt's progress, and that the job is alive.
LEMMA ProgressInv == SseInv /\ (OnProgress \/ Ping) => SseInv'
<1> SUFFICES ASSUME SseInv, OnProgress \/ Ping PROVE SseInv'
  OBVIOUS
<1>1. SseTypeOK /\ EventsInv /\ "ping" \in Heartbeats
      /\ "progress" \in EventTypes \ {"token"}
  BY DEF SseInv, Heartbeats, EventTypes
<1>2. CASE OnProgress /\ kind = "stream"
  <2>1. /\ Take("progress") /\ todo' = <<Mark("ping")>>
        /\ UNCHANGED <<kind, workerVars, cancelled, sse, parseVars, over, clientVars>>
        /\ UNCHANGED <<worker, made, taken>>
    BY <1>2 DEF OnProgress, workerVars, parseVars
  <2>2. EventsInv' /\ events' \in Seq(EventTypes) /\ Ready /\ ~Drained
    BY <1>1, <2>1, TakenInv
  <2> QED
    BY <1>1, <1>2, <2>1, <2>2, BeatInv
<1>3. CASE OnProgress /\ kind # "stream"
  <2>1. /\ Take("progress") /\ todo' = <<>>
        /\ UNCHANGED <<kind, workerVars, cancelled, sse, parseVars, over, clientVars>>
    BY <1>3 DEF OnProgress
  <2>2. todo' = todo
    BY <2>1 DEF Take, Ready
  <2> QED
    BY <1>1, <2>1, <2>2, EventDropped
<1>4. CASE Ping
  <2>1. /\ Ready /\ kind = "stream" /\ todo' = <<Mark("ping")>> /\ events' = events
        /\ UNCHANGED <<kind, workerVars, cancelled, sse, parseVars, over, clientVars>>
    BY <1>4 DEF Ping
  <2>2. events' \in Seq(EventTypes) /\ EventsInv'
    BY <1>1, <2>1 DEF EventsInv, SseTypeOK, workerVars, parseVars
  <2> QED
    BY <1>1, <2>1, <2>2, BeatInv
<1> QED
  BY <1>2, <1>3, <1>4

\* The job failed: the error, then the last [DONE].
LEMMA OnFailedInv == SseInv /\ OnFailed => SseInv'
<1> SUFFICES ASSUME SseInv, OnFailed PROVE SseInv'
  OBVIOUS
<1> DEFINE e == Mark("error")
           f == Mark("last")
<1>1. /\ kind' = kind /\ worker' = worker /\ made' = made /\ sent' = sent
      /\ sentRole' = sentRole /\ taken' = taken /\ held' = held /\ pending' = pending
      /\ swallowed' = swallowed /\ got' = got /\ left' = left /\ cancelled' = cancelled
      /\ sse' = sse /\ over' = over /\ kind = "stream" /\ todo' = <<e, f>> /\ Take("failed")
  BY DEF OnFailed, ErrorChunks, workerVars, parseVars, clientVars
<1>2. SseTypeOK /\ HeldInv /\ EventsInv /\ JsonInv /\ NoBeats /\ LineInv
  BY DEF SseInv
<1>3. EventsInv' /\ events' \in Seq(EventTypes) /\ ~over /\ todo = <<>> /\ ~Drained
  <2>1. "failed" \in EventTypes \ {"token"}
    BY DEF EventTypes
  <2> QED
    BY <1>1, <1>2, <2>1, TakenInv
<1>4. /\ e.what = "error" /\ f.what = "last" /\ e.ids = <<>> /\ f.ids = <<>>
      /\ todo' \in Seq(ChunkRec) /\ Members(todo') = {e, f} /\ Ordered(todo')
  <2>1. "error" \in Whats /\ "last" \in Whats
    BY DEF Whats, Ends, Dones
  <2>2. e.what = "error" /\ f.what = "last" /\ e.ids = <<>> /\ f.ids = <<>>
    BY <2>1, TwoMarks
  <2>3. MayFollow(e, f)
    BY <2>2 DEF MayFollow, Ends, Dones, Texts
  <2> QED
    BY <1>1, <2>1, <2>2, <2>3, TwoMarks
<1> HIDE DEF e, f
<1>5. SseTypeOK' /\ HeldInv' /\ JsonInv' /\ NoBeats'
  BY <1>1, <1>2, <1>3, <1>4 DEF SseTypeOK, HeldInv, JsonInv, NoBeats, Kept
<1>6. ASSUME ~left PROVE LineInv'
  <2>1. InOrder /\ IdsInv /\ RoleInv /\ EndInv /\ FinishInv /\ Cover
    BY <1>2, <1>6 DEF LineInv
  <2>2. \A c \in Line : c.what \notin Ends \cup Dones
    BY <1>3, <2>1, NoEndYet
  <2>3. Ahead(Line, Members(todo'))
    <3>1. Ahead(Line, {e})
      BY <1>4, <2>2, OtherFollows
    <3>2. Ahead(Line, {f})
      BY <1>4, <2>2, DoneFollows DEF Dones
    <3> QED
      BY <1>4, <3>1, <3>2 DEF Ahead
  <2>4. InOrder' /\ Line' = Line \cup {e, f}
    BY <1>1, <1>2, <1>3, <1>4, <2>1, <2>3, JoinsTheLine
  <2>5. IdsInv'
    <3>1. Members(e.ids) = {} /\ Members(f.ids) = {} /\ Kept' = Kept
      BY <1>1, <1>4, Nothing DEF Kept
    <3>2. e.what \notin Texts /\ f.what \notin Texts
      BY <1>4 DEF Texts
    <3> QED
      BY <1>1, <1>4, <2>1, <2>4, <3>1, <3>2 DEF IdsInv
  <2>6. RoleInv'
    BY <1>1, <1>4, <2>1, <2>4 DEF RoleInv, Ends, Dones
  <2>7. FinishInv'
    BY <1>4, <2>2, <2>4 DEF FinishInv, Ends
  <2>8. Cover'
    BY <1>1, <2>1, <2>4 DEF Cover, Kept, IdsOf
  <2>9. EndInv'
    BY <1>4 DEF EndInv, InError
  <2> QED
    BY <2>4, <2>5, <2>6, <2>7, <2>8, <2>9 DEF LineInv
<1>7. left' => LineInv'
  BY DEF LineInv
<1> QED
  BY <1>1, <1>3, <1>5, <1>6, <1>7 DEF SseInv

\* Text that is sent, after the role and after all earlier text.
LEMMA TextStep ==
  ASSUME SseTypeOK, InOrder, IdsInv, RoleInv, ~over, todo = <<>>, kind = "stream",
         \A c \in Line : c.what \notin Ends \cup Dones,
         got' = got, sse' = sse, kind' = kind, over' = over, sentRole' = TRUE,
         NEW ids \in Seq(Nat), Increasing(ids), Members(ids) \subseteq 1 .. taken',
         1 .. taken \subseteq 1 .. taken',
         \A c \in Line : c.what \in Texts => Earlier(Members(c.ids), Members(ids) \cup Kept'),
         Earlier(Members(ids), Kept'),
         1 .. taken' \subseteq IdsOf(Line, Texts \cup {"calls"}) \cup Members(ids) \cup Kept' \cup swallowed',
         todo' \in Seq(ChunkRec), Ordered(todo'),
         Members(todo') = (IF sentRole THEN {} ELSE {Mark("role")})
                            \cup (IF ids = <<>> THEN {} ELSE {Chunk("text", ids)})
  PROVE  LineInv'
<1> DEFINE r == Mark("role")
           t == Chunk("text", ids)
           R == IF sentRole THEN {} ELSE {r}
           T == IF ids = <<>> THEN {} ELSE {t}
<1>1. r.what = "role" /\ t.what = "text" /\ r.ids = <<>> /\ t.ids = ids
  BY DEF Mark, Chunk
<1> HIDE DEF r, t
<1>2. Ahead(Line, R)
  <2>1. CASE sentRole
    BY <2>1 DEF Ahead
  <2>2. CASE ~sentRole
    <3>1. \A c \in Line : c.what \in Heartbeats
      BY <2>2 DEF RoleInv
    <3> QED
      BY <1>1, <2>2, <3>1, RoleFollows
  <2> QED
    BY <2>1, <2>2
<1>3. Ahead(Line, T)
  <2>1. Ahead(Line, {t})
    <3>1. t.what \in Texts /\ \A c \in Line : c.what \in Texts => Earlier(Members(c.ids), Members(t.ids))
      BY <1>1 DEF Texts, Earlier
    <3> QED
      BY <3>1, TextFollows
  <2> QED
    BY <2>1 DEF Ahead
<1>4. Members(todo') = R \cup T
  BY DEF r, t
<1>5. InOrder' /\ Line' = Line \cup R \cup T
  <2>1. Ahead(Line, Members(todo'))
    BY <1>2, <1>3, <1>4 DEF Ahead
  <2>2. InOrder' /\ Line' = Line \cup Members(todo')
    BY <2>1, JoinsTheLine
  <2> QED
    BY <1>4, <2>2
<1>6. \A c \in Line' : c \in Line \/ (c = r /\ ~sentRole) \/ (c = t /\ ids # <<>>)
  BY <1>5
<1>7. IdsInv'
  <2>1. ASSUME NEW c \in Line PROVE
          /\ Members(c.ids) \subseteq 1 .. taken'
          /\ c.what \notin Texts \cup {"calls"} => c.ids = <<>>
          /\ c.what \in Texts => Increasing(c.ids) /\ Earlier(Members(c.ids), Kept')
    BY DEF IdsInv, Earlier
  <2>2. Members(r.ids) = {} /\ r.what \notin Texts /\ t.what \in Texts
    BY <1>1, Nothing DEF Texts
  <2> QED
    BY <1>1, <1>6, <2>1, <2>2 DEF IdsInv
<1>8. RoleInv'
  <2>1. CASE sentRole
    BY <1>5, <2>1 DEF RoleInv
  <2>2. CASE ~sentRole
    BY <1>1, <1>5, <2>2 DEF RoleInv
  <2> QED
    BY <2>1, <2>2
<1>9. EndInv' /\ FinishInv'
  <2>1. \A c \in Line' : c.what \notin Ends \cup Dones
    BY <1>1, <1>6 DEF Ends, Dones
  <2> QED
    BY <2>1 DEF EndInv, FinishInv, Ends
<1>10. Cover'
  <2>1. IdsOf(Line, Texts \cup {"calls"}) \subseteq IdsOf(Line', Texts \cup {"calls"})
    BY <1>5 DEF IdsOf
  <2>2. Members(ids) \subseteq IdsOf(Line', Texts \cup {"calls"})
    <3>1. CASE ids = <<>>
      BY <3>1, Nothing
    <3>2. CASE ids # <<>>
      BY <1>1, <1>5, <3>2 DEF IdsOf, Texts
    <3> QED
      BY <3>1, <3>2
  <2> QED
    BY <2>1, <2>2 DEF Cover
<1> QED
  BY <1>5, <1>7, <1>8, <1>9, <1>10 DEF LineInv

\* The role, if it was not sent, then text.
LEMMA RoleThenText ==
  ASSUME SseTypeOK, NEW ids \in Seq(Nat)
  PROVE  /\ RoleChunk \o ChunkIf("text", ids) \in Seq(ChunkRec)
         /\ Ordered(RoleChunk \o ChunkIf("text", ids))
         /\ Members(RoleChunk \o ChunkIf("text", ids)) =
              (IF sentRole THEN {} ELSE {Mark("role")})
                \cup (IF ids = <<>> THEN {} ELSE {Chunk("text", ids)})
<1> DEFINE t == ChunkIf("text", ids)
<1>1. "text" \in Whats /\ "role" \in Whats
  BY DEF Whats, Texts
<1>2. /\ t \in Seq(ChunkRec) /\ Ordered(t)
      /\ Members(t) = IF ids = <<>> THEN {} ELSE {Chunk("text", ids)}
  BY <1>1, ChunkIfMembers
<1>3. /\ RoleChunk \in Seq(ChunkRec) /\ Ordered(RoleChunk)
      /\ Members(RoleChunk) = IF sentRole THEN {} ELSE {Mark("role")}
  <2>1. CASE sentRole
    BY <2>1, Nothing, OrderedShort DEF RoleChunk
  <2>2. CASE ~sentRole
    <3>1. RoleChunk = <<Mark("role")>> /\ Mark("role") \in ChunkRec
      BY <1>1, <2>2, TwoMarks DEF RoleChunk
    <3> QED
      BY <2>2, <3>1, ShortMembers, OrderedShort
  <2> QED
    BY <2>1, <2>2
<1>4. Ahead(Members(RoleChunk), Members(t))
  <2>1. Mark("role").what = "role" /\ Chunk("text", ids).what = "text"
    BY DEF Mark, Chunk
  <2>2. MayFollow(Mark("role"), Chunk("text", ids))
    BY <2>1 DEF MayFollow, Ends, Dones, Texts
  <2> QED
    BY <1>2, <1>3, <2>2 DEF Ahead
<1> HIDE DEF t
<1>5. RoleChunk \o t \in Seq(ChunkRec) /\ Members(RoleChunk \o t) = Members(RoleChunk) \cup Members(t)
  BY <1>2, <1>3, MembersConcat
<1>6. Ordered(RoleChunk \o t)
  BY <1>2, <1>3, <1>4, OrderedConcat
<1> QED
  BY <1>2, <1>3, <1>5, <1>6 DEF t

\* What is pending is flushed when no event came for a while.
LEMMA FlushTimerInv == SseInv /\ FlushTimer => SseInv'
<1> SUFFICES ASSUME SseInv, FlushTimer PROVE SseInv'
  OBVIOUS
<1>1. /\ kind' = kind /\ worker' = worker /\ made' = made /\ sent' = sent /\ events' = events
      /\ sentRole' = sentRole /\ taken' = taken /\ held' = held
      /\ swallowed' = swallowed /\ got' = got /\ left' = left /\ cancelled' = cancelled
      /\ sse' = sse /\ over' = over /\ kind = "stream" /\ ~over /\ todo = <<>>
      /\ todo' = ChunkIf("text", pending.text) /\ pending' = NothingPending /\ pending.n > 0
  BY DEF FlushTimer, Ready, FlushPending, workerVars, clientVars
<1>2. SseTypeOK /\ HeldInv /\ EventsInv /\ JsonInv /\ NoBeats /\ LineInv
  BY DEF SseInv
<1>3. pending # NothingPending /\ ~Drained /\ sentRole
  <2>1. pending # NothingPending
    BY <1>1 DEF NothingPending
  <2> QED
    BY <1>1, <1>2, <2>1 DEF HeldInv, Drained
<1>4. pending.text \in Seq(Nat) /\ "text" \in Whats
  BY <1>2 DEF SseTypeOK, PendingRec, Whats, Texts
<1>5. /\ todo' \in Seq(ChunkRec) /\ Ordered(todo')
      /\ Members(todo') = IF pending.text = <<>> THEN {} ELSE {Chunk("text", pending.text)}
  BY <1>1, <1>4, ChunkIfMembers
<1>6. /\ Kept' = Members(held) /\ Members(pending'.text) = {} /\ Increasing(pending'.text)
      /\ pending' \in PendingRec
  BY <1>1, Nothing DEF Kept
<1>7. SseTypeOK' /\ EventsInv' /\ JsonInv' /\ NoBeats'
  BY <1>1, <1>2, <1>5, <1>6 DEF SseTypeOK, EventsInv, JsonInv, NoBeats
<1>8. /\ Increasing(pending.text) /\ Members(pending.text) \subseteq 1 .. taken
      /\ Earlier(Members(pending.text), Members(held))
  BY <1>2 DEF HeldInv, Kept
<1>9. HeldInv'
  BY <1>1, <1>2, <1>3, <1>6 DEF HeldInv, Kept, Earlier
<1>10. ASSUME ~left PROVE LineInv'
  <2>1. InOrder /\ IdsInv /\ RoleInv /\ EndInv /\ FinishInv /\ Cover
    BY <1>2, <1>10 DEF LineInv
  <2>2. \A c \in Line : c.what \notin Ends \cup Dones
    BY <1>1, <1>3, <2>1, NoEndYet
  <2>3. \A c \in Line : c.what \in Texts => Earlier(Members(c.ids), Members(pending.text) \cup Kept')
    BY <1>1, <1>6, <2>1 DEF IdsInv, Kept
  <2>4. 1 .. taken' \subseteq IdsOf(Line, Texts \cup {"calls"})
                               \cup Members(pending.text) \cup Kept' \cup swallowed'
    BY <1>1, <1>6, <2>1 DEF Cover, Kept
  <2>5. Members(todo') = (IF sentRole THEN {} ELSE {Mark("role")})
          \cup (IF pending.text = <<>> THEN {} ELSE {Chunk("text", pending.text)})
    BY <1>3, <1>5
  <2>6. sentRole' = TRUE
    BY <1>1, <1>2, <1>3 DEF SseTypeOK
  <2> QED
    BY <1>1, <1>2, <1>4, <1>5, <1>6, <1>8, <2>1, <2>2, <2>3, <2>4, <2>5, <2>6, TextStep
<1>11. left' => LineInv'
  BY DEF LineInv
<1> QED
  BY <1>1, <1>7, <1>9, <1>10, <1>11 DEF SseInv

\* What the parsers make of one more token, for a stream and for a JSON request.
LEMMA TokenParsed ==
  ASSUME SseTypeOK, HeldInv, NEW part \in PartingsOfToken(Append(held, taken + 1))
  PROVE  LET p == Gather(part.text)
         IN  /\ part.rest \in Seq(Nat) /\ p \in PendingRec
             /\ Increasing(p.text) /\ Increasing(part.rest)
             /\ Earlier(Members(p.text), Members(part.rest))
             /\ Members(p.text) \cup part.swallowed \cup Members(part.rest) = Kept \cup {taken + 1}
<1> DEFINE p == Gather(part.text)
<1>1. /\ Append(held, taken + 1) \in Seq(Nat) /\ Increasing(Append(held, taken + 1))
      /\ Members(Append(held, taken + 1)) = Members(held) \cup {taken + 1}
      /\ Earlier(Members(pending.text), Members(Append(held, taken + 1)))
  BY TokenJoins
<1>2. /\ part.rest \in Seq(Nat)
      /\ p \in PendingRec /\ Increasing(p.text) /\ Increasing(part.rest)
      /\ Earlier(Members(p.text), Members(part.rest))
      /\ Members(p.text) = Members(pending.text) \cup Members(part.text)
      /\ Members(Append(held, taken + 1)) =
           Members(part.text) \cup part.swallowed \cup Members(part.rest)
  BY <1>1, Parsed
<1> HIDE DEF p
<1>3. Members(p.text) \cup part.swallowed \cup Members(part.rest) = Kept \cup {taken + 1}
  BY <1>1, <1>2 DEF Kept
<1> QED
  BY <1>2, <1>3 DEF p

\* A token of a stream, with the flush that may be due.
LEMMA OnTokenInv == SseInv /\ OnToken => SseInv'
<1> SUFFICES ASSUME SseInv, OnToken PROVE SseInv'
  OBVIOUS
<1>1. /\ kind' = kind /\ worker' = worker /\ made' = made /\ sent' = sent
      /\ got' = got /\ left' = left /\ cancelled' = cancelled /\ sse' = sse /\ over' = over
      /\ kind = "stream" /\ taken' = taken + 1 /\ sentRole' = TRUE /\ Take("token")
  BY DEF OnToken, workerVars, clientVars
<1>2. SseTypeOK /\ HeldInv /\ EventsInv /\ JsonInv /\ NoBeats /\ LineInv
  BY DEF SseInv
<1>3. /\ ~over /\ todo = <<>> /\ ~Drained /\ events' \in Seq(EventTypes) /\ EventsInv'
      /\ taken \in Nat /\ taken' \in Nat
  <2>1. "token" \in EventTypes
    BY DEF EventTypes
  <2>2. /\ ~over /\ todo = <<>> /\ events # <<>> /\ events' \in Seq(EventTypes)
        /\ Waiting(events') \in Nat
        /\ made = taken + Waiting(events') + (IF "token" = "token" THEN 1 ELSE 0)
        /\ \A i \in DOMAIN events' : events'[i] = "finished" => worker' = "gone" /\ i = Len(events')
    BY <1>1, <1>2, <2>1, EventTaken
  <2>3. taken \in Nat /\ made' = taken' + Waiting(events')
    BY <1>1, <1>2, <2>2 DEF SseTypeOK
  <2> QED
    BY <1>1, <2>2, <2>3 DEF EventsInv, Drained
<1>4. PICK part \in PartingsOfToken(Append(held, taken + 1)), old \in BOOLEAN :
        LET p == Gather(part.text)
            due == part.text # <<>> /\ (p.n >= DueCount \/ old)
        IN  /\ held' = part.rest /\ swallowed' = swallowed \cup part.swallowed
            /\ pending' = IF due THEN NothingPending ELSE p
            /\ todo' = RoleChunk \o (IF due THEN FlushPending(p) ELSE <<>>)
  BY <1>1 DEF OnToken
<1> DEFINE p == Gather(part.text)
           due == part.text # <<>> /\ (p.n >= DueCount \/ old)
           ids == IF due THEN p.text ELSE <<>>
<1>5. /\ held' \in Seq(Nat) /\ p \in PendingRec /\ p.text \in Seq(Nat)
      /\ swallowed' = swallowed \cup part.swallowed
      /\ Increasing(p.text) /\ Increasing(held') /\ Earlier(Members(p.text), Members(held'))
      /\ Members(p.text) \cup part.swallowed \cup Members(held') = Kept \cup {taken + 1}
  BY <1>2, <1>4, TokenParsed DEF PendingRec
<1>6. pending' = (IF due THEN NothingPending ELSE p) /\ todo' = RoleChunk \o ChunkIf("text", ids)
  BY <1>4 DEF FlushPending, ChunkIf
<1> HIDE DEF p, due
<1>7. /\ ids \in Seq(Nat) /\ Increasing(ids) /\ pending' \in PendingRec /\ Increasing(pending'.text)
      /\ Members(ids) \cup Members(pending'.text) = Members(p.text)
      /\ Earlier(Members(ids), Members(pending'.text))
  <2>1. CASE due
    <3>1. ids = p.text /\ pending' = NothingPending
      BY <1>6, <2>1
    <3>2. pending' \in PendingRec /\ Increasing(pending'.text) /\ Members(pending'.text) = {}
      BY <3>1, Nothing
    <3> QED
      BY <1>5, <3>1, <3>2 DEF Earlier
  <2>2. CASE ~due
    <3>1. ids = <<>> /\ pending' = p
      BY <1>6, <2>2
    <3>2. ids \in Seq(Nat) /\ Increasing(ids) /\ Members(ids) = {}
      BY <3>1, Nothing
    <3> QED
      BY <1>5, <3>1, <3>2 DEF Earlier
  <2> QED
    BY <2>1, <2>2
<1> HIDE DEF ids
<1>8. /\ todo' \in Seq(ChunkRec) /\ Ordered(todo')
      /\ Members(todo') = (IF sentRole THEN {} ELSE {Mark("role")})
                            \cup (IF ids = <<>> THEN {} ELSE {Chunk("text", ids)})
  BY <1>2, <1>6, <1>7, RoleThenText
<1>9. /\ 1 .. taken' = 1 .. taken \cup {taken + 1} /\ Earlier(1 .. taken, {taken + 1})
      /\ Kept \cup swallowed \subseteq 1 .. taken
      /\ Kept' = Members(pending'.text) \cup Members(held')
      /\ Members(ids) \cup Kept' \subseteq Kept \cup {taken + 1}
      /\ Members(ids) \cup Kept' \cup part.swallowed = Kept \cup {taken + 1}
  <2>1. 1 .. taken' = 1 .. taken \cup {taken + 1} /\ Earlier(1 .. taken, {taken + 1})
    BY <1>1, <1>2, TokenJoins
  <2>2. Kept \cup swallowed \subseteq 1 .. taken
    BY <1>2 DEF HeldInv
  <2>3. Kept' = Members(pending'.text) \cup Members(held')
    BY DEF Kept
  <2> QED
    BY <1>5, <1>7, <2>1, <2>2, <2>3
<1>10. Earlier(Members(ids), Kept')
  BY <1>5, <1>7, <1>9 DEF Earlier
<1>11. HeldInv'
  <2>1. Earlier(Members(pending'.text), Members(held'))
    BY <1>5, <1>7 DEF Earlier
  <2>2. Kept' \cup swallowed' \subseteq 1 .. taken'
    BY <1>5, <1>9
  <2> QED
    BY <1>1, <1>5, <1>7, <2>1, <2>2 DEF HeldInv
<1>12. SseTypeOK' /\ JsonInv' /\ NoBeats'
  BY <1>1, <1>2, <1>3, <1>5, <1>7, <1>8 DEF SseTypeOK, JsonInv, NoBeats
<1>13. ASSUME ~left PROVE LineInv'
  <2>1. InOrder /\ IdsInv /\ RoleInv /\ EndInv /\ FinishInv /\ Cover
    BY <1>2, <1>13 DEF LineInv
  <2>2. \A c \in Line : c.what \notin Ends \cup Dones
    BY <1>3, <2>1, NoEndYet
  <2>3. \A c \in Line : c.what \in Texts => Earlier(Members(c.ids), Members(ids) \cup Kept')
    <3>1. \A c \in Line : c.what \in Texts =>
            Earlier(Members(c.ids), Kept) /\ Members(c.ids) \subseteq 1 .. taken
      BY <1>3, <2>1 DEF IdsInv
    <3> QED
      BY <1>9, <3>1 DEF Earlier
  <2>4. 1 .. taken' \subseteq IdsOf(Line, Texts \cup {"calls"}) \cup Members(ids) \cup Kept' \cup swallowed'
    <3>1. 1 .. taken \subseteq IdsOf(Line, Texts \cup {"calls"}) \cup Kept \cup swallowed
      BY <1>3, <2>1 DEF Cover
    <3> QED
      BY <1>5, <1>9, <3>1
  <2>5. Members(ids) \subseteq 1 .. taken' /\ 1 .. taken \subseteq 1 .. taken'
    BY <1>9
  <2> QED
    BY <1>1, <1>2, <1>3, <1>7, <1>8, <1>10, <2>1, <2>2, <2>3, <2>4, <2>5, TextStep
<1>14. left' => LineInv'
  BY DEF LineInv
<1> QED
  BY <1>1, <1>3, <1>11, <1>12, <1>13, <1>14 DEF SseInv

\* A token of a JSON request is only gathered.
LEMMA JsonTokenInv == SseInv /\ JsonToken => SseInv'
<1> SUFFICES ASSUME SseInv, JsonToken PROVE SseInv'
  OBVIOUS
<1>1. /\ kind' = kind /\ worker' = worker /\ made' = made /\ sent' = sent
      /\ got' = got /\ left' = left /\ cancelled' = cancelled /\ sse' = sse /\ over' = over
      /\ todo' = todo /\ sentRole' = sentRole
      /\ kind = "json" /\ taken' = taken + 1 /\ Take("token")
  BY DEF JsonToken, workerVars, clientVars
<1>2. SseTypeOK /\ HeldInv /\ EventsInv /\ JsonInv /\ NoBeats /\ LineInv
  BY DEF SseInv
<1>3. /\ ~over /\ todo = <<>> /\ events' \in Seq(EventTypes) /\ EventsInv'
      /\ taken \in Nat /\ taken' \in Nat
  <2>1. "token" \in EventTypes
    BY DEF EventTypes
  <2>2. /\ ~over /\ todo = <<>> /\ events # <<>> /\ events' \in Seq(EventTypes)
        /\ Waiting(events') \in Nat
        /\ made = taken + Waiting(events') + (IF "token" = "token" THEN 1 ELSE 0)
        /\ \A i \in DOMAIN events' : events'[i] = "finished" => worker' = "gone" /\ i = Len(events')
    BY <1>1, <1>2, <2>1, EventTaken
  <2>3. taken \in Nat /\ made' = taken' + Waiting(events')
    BY <1>1, <1>2, <2>2 DEF SseTypeOK
  <2> QED
    BY <1>1, <2>2, <2>3 DEF EventsInv
<1>4. PICK part \in PartingsOfToken(Append(held, taken + 1)) :
        /\ held' = part.rest /\ swallowed' = swallowed \cup part.swallowed
        /\ pending' = Gather(part.text)
  BY <1>1 DEF JsonToken
<1>5. /\ held' \in Seq(Nat) /\ pending' \in PendingRec
      /\ swallowed' = swallowed \cup part.swallowed
      /\ Increasing(pending'.text) /\ Increasing(held')
      /\ Earlier(Members(pending'.text), Members(held'))
      /\ Members(pending'.text) \cup part.swallowed \cup Members(held') = Kept \cup {taken + 1}
  BY <1>2, <1>4, TokenParsed
<1>6. 1 .. taken' = 1 .. taken \cup {taken + 1} /\ Kept \cup swallowed \subseteq 1 .. taken
  BY <1>1, <1>2, TokenJoins DEF HeldInv
<1>7. Kept' = Members(pending'.text) \cup Members(held')
  BY DEF Kept
<1>8. HeldInv'
  BY <1>1, <1>5, <1>6, <1>7 DEF HeldInv
<1>9. SseTypeOK' /\ JsonInv' /\ NoBeats'
  BY <1>1, <1>2, <1>3, <1>5 DEF SseTypeOK, JsonInv, NoBeats
<1>10. ASSUME ~left PROVE LineInv'
  <2>1. InOrder /\ Cover
    BY <1>2, <1>10 DEF LineInv
  <2>2. got = <<>> /\ sse = <<>> /\ todo = <<>>
    BY <1>1, <1>2, <1>3 DEF JsonInv
  <2>3. Line = {} /\ Line' = {}
    BY <1>1, <2>2, Nothing DEF Line
  <2>4. IdsInv' /\ RoleInv' /\ EndInv' /\ FinishInv'
    BY <1>1, <2>3 DEF IdsInv, RoleInv, EndInv, FinishInv
  <2>5. InOrder'
    BY <1>1, <2>1 DEF InOrder
  <2>6. Cover'
    <3>1. 1 .. taken \subseteq Kept \cup swallowed
      BY <1>3, <2>1, <2>3, IdsUnion DEF Cover
    <3> QED
      BY <1>5, <1>6, <1>7, <3>1 DEF Cover
  <2> QED
    BY <2>4, <2>5, <2>6 DEF LineInv
<1>11. left' => LineInv'
  BY DEF LineInv
<1> QED
  BY <1>1, <1>3, <1>8, <1>9, <1>10, <1>11 DEF SseInv

\* Text, then the tool calls, then the end.
LEMMA Closing ==
  ASSUME NEW q \in Seq(ChunkRec), Ordered(q), \A c \in Members(q) : c.what \in Texts,
         NEW ids \in Seq(Nat)
  PROVE  LET all == q \o ChunkIf("calls", ids) \o <<Mark("finish"), Mark("done")>>
         IN  /\ all \in Seq(ChunkRec) /\ Ordered(all)
             /\ Members(all) = Members(q) \cup (IF ids = <<>> THEN {} ELSE {Chunk("calls", ids)})
                                 \cup {Mark("finish"), Mark("done")}
<1> DEFINE k == ChunkIf("calls", ids)
           e == <<Mark("finish"), Mark("done")>>
<1>1. "calls" \in Whats /\ "finish" \in Whats /\ "done" \in Whats
  BY DEF Whats, Ends, Dones
<1>2. /\ k \in Seq(ChunkRec) /\ Ordered(k)
      /\ Members(k) = IF ids = <<>> THEN {} ELSE {Chunk("calls", ids)}
      /\ Chunk("calls", ids).what = "calls"
  BY <1>1, ChunkIfMembers DEF Chunk
<1>3. /\ e \in Seq(ChunkRec) /\ Ordered(e) /\ Members(e) = {Mark("finish"), Mark("done")}
      /\ Mark("finish").what = "finish" /\ Mark("done").what = "done"
  <2>1. Mark("finish").what = "finish" /\ Mark("done").what = "done"
    BY DEF Mark, Chunk
  <2>2. MayFollow(Mark("finish"), Mark("done"))
    BY <2>1 DEF MayFollow, Ends, Dones, Texts
  <2> QED
    BY <1>1, <2>1, <2>2, TwoMarks
<1> HIDE DEF k, e
<1>4. Ahead(Members(q), Members(k))
  BY <1>2 DEF Ahead, MayFollow, Texts, Ends, Dones
<1>5. /\ q \o k \in Seq(ChunkRec) /\ Ordered(q \o k)
      /\ Members(q \o k) = Members(q) \cup Members(k)
  <2>1. q \o k \in Seq(ChunkRec) /\ Members(q \o k) = Members(q) \cup Members(k)
    BY <1>2, MembersConcat
  <2>2. Ordered(q \o k)
    BY <1>2, <1>4, OrderedConcat
  <2> QED
    BY <2>1, <2>2
<1> DEFINE z == q \o k
<1>6. z \in Seq(ChunkRec) /\ Ordered(z) /\ Members(z) = Members(q) \cup Members(k)
  BY <1>5
<1> HIDE DEF z
<1>7. Ahead(Members(z), Members(e))
  <2>1. ASSUME NEW c \in Members(z), NEW d \in Members(e) PROVE MayFollow(c, d)
    <3>1. c.what \in Texts \cup {"calls"} /\ d.what \in {"finish", "done"}
      BY <1>2, <1>3, <1>6
    <3> QED
      BY <3>1 DEF MayFollow, Texts, Ends, Dones
  <2> QED
    BY <2>1 DEF Ahead
<1>8. z \o e \in Seq(ChunkRec) /\ Members(z \o e) = Members(z) \cup Members(e)
  BY <1>3, <1>6, MembersConcat
<1>9. Ordered(z \o e)
  BY <1>3, <1>6, <1>7, OrderedConcat
<1> QED
  BY <1>2, <1>3, <1>6, <1>8, <1>9 DEF k, e, z

\* The end is told once everything the task had is on the line.
LEMMA FinishStep ==
  ASSUME SseTypeOK, InOrder', IdsInv, RoleInv, ~over,
         \A c \in Line : c.what \notin Ends \cup Dones,
         NEW Q, \A c \in Q : c.what \in Texts /\ Increasing(c.ids) /\ Members(c.ids) \subseteq 1 .. taken,
         NEW calls \in Seq(Nat),
         Line' = Line \cup Q \cup (IF calls = <<>> THEN {} ELSE {Chunk("calls", calls)})
                   \cup {Mark("finish"), Mark("done")},
         kind' = kind, taken' = taken, made' = made, made = taken, sentRole' = sentRole,
         worker' = "gone", events' = <<>>, over' \/ Drained', Kept' = {},
         Members(calls) \cup swallowed' \subseteq 1 .. taken,
         1 .. taken \subseteq IdsOf(Line, Texts \cup {"calls"}) \cup IdsOf(Q, Texts)
                               \cup Members(calls) \cup swallowed',
         kind = "stream" /\ ~sentRole => Q = {} /\ calls = <<>>
  PROVE  LineInv'
<1> DEFINE k == Chunk("calls", calls)
           e == Mark("finish")
           f == Mark("done")
<1>1. /\ k.what = "calls" /\ k.ids = calls /\ e.what = "finish" /\ e.ids = <<>>
      /\ f.what = "done" /\ f.ids = <<>>
  BY DEF Chunk, Mark
<1>2. /\ \A c \in Line' : c \in Line \/ c \in Q \/ (c = k /\ calls # <<>>) \/ c = e \/ c = f
      /\ Line \subseteq Line' /\ Q \subseteq Line' /\ (calls # <<>> => k \in Line')
  OBVIOUS
<1> HIDE DEF k, e, f
<1>3. IdsInv'
  <2>1. ASSUME NEW c \in Line' PROVE
          /\ Members(c.ids) \subseteq 1 .. taken
          /\ c.what \notin Texts \cup {"calls"} => c.ids = <<>>
          /\ c.what \in Texts => Increasing(c.ids)
    <3>1. CASE c \in Line
      BY <3>1 DEF IdsInv
    <3>2. CASE c \in Q
      BY <3>2
    <3>3. CASE c = k
      BY <1>1, <3>3 DEF Texts
    <3>4. CASE c = e \/ c = f
      <4>1. c.ids = <<>> /\ Members(c.ids) = {} /\ c.what \notin Texts
        BY <1>1, <3>4, Nothing DEF Texts
      <4> QED
        BY <4>1
    <3> QED
      BY <1>2, <3>1, <3>2, <3>3, <3>4
  <2> QED
    BY <2>1 DEF IdsInv, Earlier
<1>4. RoleInv'
  <2>1. CASE kind = "stream" /\ sentRole
    BY <1>2, <2>1 DEF RoleInv
  <2>2. CASE kind = "stream" /\ ~sentRole
    <3>1. ASSUME NEW c \in Line' PROVE c.what \in Heartbeats \cup Ends \cup Dones
      BY <1>1, <1>2, <2>2 DEF RoleInv, Ends, Dones
    <3> QED
      BY <2>2, <3>1 DEF RoleInv
  <2> QED
    BY <2>1, <2>2 DEF RoleInv
<1>5. EndInv'
  BY DEF EndInv
<1>6. /\ IdsOf(Line, Texts \cup {"calls"}) \subseteq IdsOf(Line', Texts \cup {"calls"})
      /\ IdsOf(Q, Texts) \subseteq IdsOf(Line', Texts \cup {"calls"})
      /\ Members(calls) \subseteq IdsOf(Line', Texts \cup {"calls"})
  <2>1. Members(calls) \subseteq IdsOf(Line', Texts \cup {"calls"})
    <3>1. CASE calls = <<>>
      BY <3>1, Nothing
    <3>2. CASE calls # <<>>
      BY <1>1, <1>2, <3>2 DEF IdsOf
    <3> QED
      BY <3>1, <3>2
  <2> QED
    BY <1>2, <2>1 DEF IdsOf
<1>7. FinishInv'
  <2>1. IdsOf(Line', Texts \cup {"calls"}) \subseteq 1 .. taken
    BY <1>3 DEF IdsInv, IdsOf
  <2>2. swallowed' \cup IdsOf(Line', Texts \cup {"calls"}) = 1 .. made'
    BY <1>6, <2>1
  <2> QED
    BY <2>2 DEF FinishInv
<1>8. Cover'
  BY <1>6 DEF Cover
<1> QED
  BY <1>3, <1>4, <1>5, <1>7, <1>8 DEF LineInv

\* The job of a stream has finished: all that is held is sent, then the end.
LEMMA OnFinishedInv == SseInv /\ OnFinished => SseInv'
<1> SUFFICES ASSUME SseInv, OnFinished PROVE SseInv'
  OBVIOUS
<1>1. /\ kind' = kind /\ worker' = worker /\ made' = made /\ sent' = sent
      /\ sentRole' = sentRole /\ taken' = taken /\ held' = <<>> /\ pending' = NothingPending
      /\ got' = got /\ left' = left /\ cancelled' = cancelled
      /\ sse' = sse /\ over' = over /\ kind = "stream" /\ Take("finished")
  BY DEF OnFinished, workerVars, clientVars
<1>2. SseTypeOK /\ HeldInv /\ EventsInv /\ JsonInv /\ NoBeats /\ LineInv
  BY DEF SseInv
<1>3. /\ EventsInv' /\ events' \in Seq(EventTypes) /\ ~over /\ todo = <<>> /\ ~Drained
      /\ worker = "gone" /\ events' = <<>> /\ made = taken
  <2>1. "finished" \in EventTypes \ {"token"}
    BY DEF EventTypes
  <2> QED
    BY <1>1, <1>2, <2>1, TakenInv
<1>4. PICK part \in PartingsAtEnd(held) :
        /\ swallowed' = swallowed \cup part.swallowed
        /\ todo' = FinishChunks(part.text, part.calls)
  BY <1>1 DEF OnFinished
<1> DEFINE a == pending.text
           b == part.text
           q == ChunkIf("text", a) \o ChunkIf("rest", b)
           x == Chunk("text", a)
           y == Chunk("rest", b)
<1>5. /\ held \in Seq(Nat) /\ Increasing(held) /\ Increasing(a)
      /\ Earlier(Members(a), Members(held)) /\ Kept \cup swallowed \subseteq 1 .. taken
      /\ a \in Seq(Nat)
  BY <1>2 DEF SseTypeOK, HeldInv, PendingRec
<1>6. /\ b \in Seq(Nat) /\ part.calls \in Seq(Nat) /\ Increasing(b)
      /\ Members(held) = Members(b) \cup Members(part.calls) \cup part.swallowed
  BY <1>5, EndParts
<1>7. Members(part.calls) \cup swallowed' \subseteq 1 .. taken
  BY <1>4, <1>5, <1>6 DEF Kept
<1>8. /\ x.what = "text" /\ x.ids = a /\ y.what = "rest" /\ y.ids = b
      /\ "text" \in Whats /\ "rest" \in Whats
  BY DEF Chunk, Whats, Texts
<1>9. todo' = q \o ChunkIf("calls", part.calls) \o <<Mark("finish"), Mark("done")>>
  BY <1>4 DEF FinishChunks, FlushPending
<1> HIDE DEF a, b
<1>10. /\ ChunkIf("text", a) \in Seq(ChunkRec) /\ Ordered(ChunkIf("text", a))
       /\ Members(ChunkIf("text", a)) = IF a = <<>> THEN {} ELSE {x}
  BY <1>5, <1>8, ChunkIfMembers
<1>11. /\ ChunkIf("rest", b) \in Seq(ChunkRec) /\ Ordered(ChunkIf("rest", b))
       /\ Members(ChunkIf("rest", b)) = IF b = <<>> THEN {} ELSE {y}
  BY <1>6, <1>8, ChunkIfMembers
<1>12. Earlier(Members(a), Members(b))
  BY <1>5, <1>6 DEF Earlier
<1> HIDE DEF x, y
<1>13. MayFollow(x, y)
  BY <1>8, <1>12 DEF MayFollow, Ends, Dones
<1>14. /\ q \in Seq(ChunkRec) /\ Ordered(q)
       /\ Members(q) = (IF a = <<>> THEN {} ELSE {x}) \cup (IF b = <<>> THEN {} ELSE {y})
  <2>1. Ahead(Members(ChunkIf("text", a)), Members(ChunkIf("rest", b)))
    BY <1>10, <1>11, <1>13 DEF Ahead
  <2> QED
    BY <1>10, <1>11, <2>1, OrderedConcat, MembersConcat
<1> HIDE DEF q
<1>15. \A c \in Members(q) : c.what \in Texts /\ Increasing(c.ids) /\ Members(c.ids) \subseteq 1 .. taken
  <2>1. Members(a) \subseteq 1 .. taken /\ Members(b) \subseteq 1 .. taken
    BY <1>5, <1>6 DEF Kept, a
  <2>2. \A c \in Members(q) : c = x \/ c = y
    BY <1>14
  <2> QED
    BY <1>5, <1>6, <1>8, <2>1, <2>2 DEF Texts
<1>16. /\ todo' \in Seq(ChunkRec) /\ Ordered(todo')
       /\ Members(todo') = Members(q) \cup (IF part.calls = <<>> THEN {} ELSE {Chunk("calls", part.calls)})
                             \cup {Mark("finish"), Mark("done")}
  BY <1>6, <1>9, <1>14, <1>15, Closing
<1>17. /\ pending' \in PendingRec /\ Members(pending'.text) = {} /\ Increasing(pending'.text)
       /\ held' \in Seq(Nat) /\ Members(held') = {} /\ Increasing(held') /\ Kept' = {}
  BY <1>1, Nothing DEF Kept
<1>18. Members(part.calls) \cup swallowed' \subseteq 1 .. taken
  BY <1>7
<1>19. ~sentRole => a = <<>> /\ b = <<>> /\ part.calls = <<>> /\ Members(q) = {}
  <2>1. ASSUME ~sentRole PROVE a = <<>> /\ held = <<>>
    BY <1>1, <1>2, <2>1 DEF HeldInv, NothingPending, a
  <2>2. ASSUME ~sentRole PROVE Members(b) = {} /\ Members(part.calls) = {}
    BY <1>6, <2>1, <2>2, Nothing
  <2> QED
    BY <1>6, <1>7, <1>14, <2>1, <2>2, Places, SMTT(30)
<1>20. HeldInv'
  BY <1>1, <1>17, <1>18, <1>19 DEF HeldInv, Earlier
<1>21. SseTypeOK' /\ JsonInv' /\ NoBeats'
  BY <1>1, <1>2, <1>3, <1>7, <1>16, <1>17 DEF SseTypeOK, JsonInv, NoBeats
<1>22. ASSUME ~left PROVE LineInv'
  <2>1. InOrder /\ IdsInv /\ RoleInv /\ EndInv /\ FinishInv /\ Cover
    BY <1>2, <1>22 DEF LineInv
  <2>2. \A c \in Line : c.what \notin Ends \cup Dones
    BY <1>3, <2>1, NoEndYet
  <2>3. Ahead(Line, Members(todo'))
    <3>1. Ahead(Line, Members(q))
      <4>1. \A c \in Line : c.what \in Texts => Earlier(Members(c.ids), Kept)
        BY <1>3, <2>1 DEF IdsInv
      <4>2. \A d \in Members(q) : Members(d.ids) \subseteq Kept
        BY <1>6, <1>8, <1>14 DEF Kept, a
      <4>3. ASSUME NEW c \in Line, NEW d \in Members(q) PROVE MayFollow(c, d)
        <5>1. d.what \in Texts /\ c.what \notin Ends \cup Dones
          BY <1>15, <2>2
        <5>2. c.what \in Texts => Earlier(Members(c.ids), Members(d.ids))
          BY <4>1, <4>2 DEF Earlier
        <5> QED
          BY <5>1, <5>2 DEF MayFollow, Texts
      <4> QED
        BY <4>3 DEF Ahead
    <3>2. ASSUME NEW d, d.what \in {"calls", "finish"} PROVE Ahead(Line, {d})
      BY <2>2, <3>2, OtherFollows
    <3>3. ASSUME NEW d, d.what \in Dones PROVE Ahead(Line, {d})
      BY <2>2, <3>3, DoneFollows
    <3>4. /\ Chunk("calls", part.calls).what = "calls" /\ Mark("finish").what = "finish"
          /\ Mark("done").what = "done"
      BY DEF Chunk, Mark
    <3>5. /\ Ahead(Line, {Chunk("calls", part.calls)}) /\ Ahead(Line, {Mark("finish")})
          /\ Ahead(Line, {Mark("done")})
      BY <3>2, <3>3, <3>4 DEF Dones
    <3> QED
      BY <1>16, <3>1, <3>5 DEF Ahead
  <2>4. InOrder' /\ Line' = Line \cup Members(todo')
    BY <1>1, <1>2, <1>3, <1>16, <2>1, <2>3, JoinsTheLine
  <2>5. Drained' /\ worker' = "gone"
    BY <1>1, <1>3 DEF Drained
  <2>6. Members(a) \cup Members(b) \subseteq IdsOf(Members(q), Texts)
    <3>1. Members(a) \subseteq IdsOf(Members(q), Texts)
      <4>1. CASE a = <<>>
        BY <4>1, Nothing
      <4>2. CASE a # <<>>
        BY <1>8, <1>14, <4>2 DEF IdsOf, Texts
      <4> QED
        BY <4>1, <4>2
    <3>2. Members(b) \subseteq IdsOf(Members(q), Texts)
      <4>1. CASE b = <<>>
        BY <4>1, Nothing
      <4>2. CASE b # <<>>
        BY <1>8, <1>14, <4>2 DEF IdsOf, Texts
      <4> QED
        BY <4>1, <4>2
    <3> QED
      BY <3>1, <3>2
  <2>7. 1 .. taken \subseteq IdsOf(Line, Texts \cup {"calls"}) \cup IdsOf(Members(q), Texts)
                              \cup Members(part.calls) \cup swallowed'
    <3>1. Kept = Members(a) \cup Members(held)
      BY DEF Kept, a
    <3> QED
      BY <1>3, <1>4, <1>6, <2>1, <2>6, <3>1 DEF Cover
  <2>8. Line' = Line \cup Members(q) \cup (IF part.calls = <<>> THEN {} ELSE {Chunk("calls", part.calls)})
                  \cup {Mark("finish"), Mark("done")}
    BY <1>16, <2>4
  <2> QED
    BY <1>1, <1>2, <1>3, <1>6, <1>15, <1>17, <1>18, <1>19, <2>1, <2>2, <2>4, <2>5, <2>7, <2>8, FinishStep
<1>23. left' => LineInv'
  BY DEF LineInv
<1> QED
  BY <1>1, <1>3, <1>20, <1>21, <1>22, <1>23 DEF SseInv

\* The job of a JSON request has finished: one body, in the same order.
LEMMA JsonFinishedInv == SseInv /\ JsonFinished => SseInv'
<1> SUFFICES ASSUME SseInv, JsonFinished PROVE SseInv'
  OBVIOUS
<1>1. /\ kind' = kind /\ worker' = worker /\ made' = made /\ sent' = sent
      /\ sentRole' = sentRole /\ taken' = taken /\ held' = <<>> /\ pending' = NothingPending
      /\ left' = left /\ cancelled' = TRUE /\ over' = TRUE
      /\ sse' = sse /\ todo' = todo /\ kind = "json" /\ Take("finished")
  BY DEF JsonFinished, workerVars
<1>2. SseTypeOK /\ HeldInv /\ EventsInv /\ JsonInv /\ NoBeats /\ LineInv
  BY DEF SseInv
<1>3. /\ events' \in Seq(EventTypes) /\ ~over /\ todo = <<>> /\ sse = <<>> /\ got = <<>> /\ ~left
      /\ worker = "gone" /\ events' = <<>> /\ made = taken
      /\ \A i \in DOMAIN events' : events'[i] = "finished" => worker' = "gone" /\ i = Len(events')
  <2>1. "finished" \in EventTypes
    BY DEF EventTypes
  <2>2. /\ events' \in Seq(EventTypes) /\ ~over /\ todo = <<>>
        /\ worker = "gone" /\ events' = <<>> /\ made = taken
        /\ \A i \in DOMAIN events' : events'[i] = "finished" => worker' = "gone" /\ i = Len(events')
    BY <1>1, <1>2, <2>1, EventTaken
  <2> QED
    BY <1>1, <1>2, <2>2 DEF JsonInv
<1>4. PICK part \in PartingsAtEnd(held) :
        /\ swallowed' = swallowed \cup part.swallowed
        /\ got' = ChunkIf("text", pending.text \o part.text) \o ChunkIf("calls", part.calls)
                    \o <<Mark("finish"), Mark("done")>>
  BY <1>1 DEF JsonFinished
<1> DEFINE a == pending.text \o part.text
           q == ChunkIf("text", a)
           x == Chunk("text", a)
<1>5. /\ held \in Seq(Nat) /\ Increasing(held) /\ Increasing(pending.text)
      /\ Earlier(Members(pending.text), Members(held)) /\ Kept \cup swallowed \subseteq 1 .. taken
      /\ pending.text \in Seq(Nat)
  BY <1>2 DEF SseTypeOK, HeldInv, PendingRec
<1>6. /\ part.text \in Seq(Nat) /\ part.calls \in Seq(Nat) /\ Increasing(part.text)
      /\ Members(held) = Members(part.text) \cup Members(part.calls) \cup part.swallowed
  BY <1>5, EndParts
<1>7. Members(part.calls) \cup swallowed' \subseteq 1 .. taken
  BY <1>4, <1>5, <1>6 DEF Kept
<1>8. a \in Seq(Nat) /\ Increasing(a) /\ Members(a) = Members(pending.text) \cup Members(part.text)
  <2>1. a \in Seq(Nat) /\ Members(a) = Members(pending.text) \cup Members(part.text)
    BY <1>5, <1>6, MembersConcat
  <2>2. Earlier(Members(pending.text), Members(part.text))
    BY <1>5, <1>6 DEF Earlier
  <2>3. Increasing(a)
    BY <1>5, <1>6, <2>2, IncreasingConcat
  <2> QED
    BY <2>1, <2>3
<1>9. got' = q \o ChunkIf("calls", part.calls) \o <<Mark("finish"), Mark("done")>>
  BY <1>4
<1>10. x.what = "text" /\ x.ids = a /\ "text" \in Whats
  BY DEF Chunk, Whats, Texts
<1> HIDE DEF a
<1>11. q \in Seq(ChunkRec) /\ Ordered(q) /\ Members(q) = IF a = <<>> THEN {} ELSE {x}
  BY <1>8, <1>10, ChunkIfMembers
<1> HIDE DEF q, x
<1>12. \A c \in Members(q) : c.what \in Texts /\ Increasing(c.ids) /\ Members(c.ids) \subseteq 1 .. taken
  <2>1. Members(a) \subseteq 1 .. taken
    BY <1>5, <1>6, <1>8 DEF Kept
  <2> QED
    BY <1>8, <1>10, <1>11, <2>1 DEF Texts
<1>13. /\ got' \in Seq(ChunkRec) /\ Ordered(got')
       /\ Members(got') = Members(q) \cup (IF part.calls = <<>> THEN {} ELSE {Chunk("calls", part.calls)})
                             \cup {Mark("finish"), Mark("done")}
  BY <1>6, <1>9, <1>11, <1>12, Closing
<1>14. /\ pending' \in PendingRec /\ Members(pending'.text) = {} /\ Increasing(pending'.text)
       /\ held' \in Seq(Nat) /\ Members(held') = {} /\ Increasing(held') /\ Kept' = {}
  BY <1>1, Nothing DEF Kept
<1>15. Members(part.calls) \cup swallowed' \subseteq 1 .. taken
  BY <1>7
<1>16. HeldInv'
  BY <1>1, <1>14, <1>15 DEF HeldInv, Earlier
<1>17. SseTypeOK'
  BY <1>1, <1>2, <1>3, <1>7, <1>13, <1>14 DEF SseTypeOK
<1>18. JsonInv' /\ EventsInv'
  BY <1>1, <1>3 DEF JsonInv, EventsInv
<1>19. NoBeats'
  <2>1. /\ Chunk("calls", part.calls).what = "calls" /\ Mark("finish").what = "finish"
        /\ Mark("done").what = "done"
    BY DEF Chunk, Mark
  <2>2. ASSUME NEW c \in Members(got') PROVE c.what \in Texts \cup {"calls", "finish", "done"}
    BY <1>12, <1>13, <2>1
  <2> QED
    BY <2>2 DEF NoBeats, Heartbeats, Texts
<1>20. LineInv'
  <2>1. Line = {} /\ Line' = Members(got')
    BY <1>1, <1>3, Nothing DEF Line
  <2>2. InOrder'
    <3>1. sse' = <<>> /\ todo' = <<>> /\ Members(sse') = {} /\ Members(todo') = {}
      BY <1>1, <1>3, Nothing
    <3>2. Ordered(sse') /\ Ordered(todo')
      BY <3>1, OrderedShort
    <3> QED
      BY <1>13, <3>1, <3>2 DEF InOrder, Ahead
  <2>3. IdsInv /\ RoleInv /\ Cover
    BY <1>2, <1>3 DEF LineInv
  <2>4. 1 .. taken \subseteq IdsOf(Line, Texts \cup {"calls"}) \cup IdsOf(Members(q), Texts)
                              \cup Members(part.calls) \cup swallowed'
    <3>1. 1 .. taken \subseteq Kept \cup swallowed
      BY <1>3, <2>1, <2>3, IdsUnion DEF Cover
    <3>2. Members(a) \subseteq IdsOf(Members(q), Texts)
      <4>1. CASE a = <<>>
        BY <4>1, Nothing
      <4>2. CASE a # <<>>
        BY <1>10, <1>11, <4>2 DEF IdsOf, Texts
      <4> QED
        BY <4>1, <4>2
    <3> QED
      BY <1>4, <1>6, <1>8, <3>1, <3>2 DEF Kept
  <2>5. Line' = Line \cup Members(q) \cup (IF part.calls = <<>> THEN {} ELSE {Chunk("calls", part.calls)})
                  \cup {Mark("finish"), Mark("done")}
    BY <1>13, <2>1
  <2> QED
    BY <1>1, <1>2, <1>3, <1>6, <1>12, <1>14, <1>15, <2>1, <2>2, <2>3, <2>4, <2>5, FinishStep
<1> QED
  BY <1>16, <1>17, <1>18, <1>19, <1>20 DEF SseInv

\* A JSON request that failed, or whose job went away without an answer.
LEMMA JsonEndsInv == SseInv /\ (JsonFailed \/ JsonClosed) => SseInv'
<1> SUFFICES ASSUME SseInv, JsonFailed \/ JsonClosed PROVE SseInv'
  OBVIOUS
<1>1. /\ kind' = kind /\ worker' = worker /\ made' = made /\ sent' = sent
      /\ sentRole' = sentRole /\ taken' = taken /\ held' = held /\ pending' = pending
      /\ swallowed' = swallowed /\ left' = left /\ cancelled' = TRUE /\ over' = TRUE
      /\ sse' = sse /\ todo' = todo /\ kind = "json" /\ Ready
  BY DEF JsonFailed, JsonClosed, Take, workerVars, parseVars
<1>2. SseTypeOK /\ HeldInv /\ EventsInv /\ JsonInv /\ NoBeats /\ LineInv
  BY DEF SseInv
<1>3. ~over /\ todo = <<>> /\ sse = <<>> /\ ~left
  BY <1>1, <1>2 DEF JsonInv, Ready
<1>4. events' \in Seq(EventTypes) /\ EventsInv'
  <2>1. CASE JsonFailed
    <3>1. "failed" \in EventTypes /\ Take("failed")
      BY <2>1 DEF EventTypes, JsonFailed
    <3>2. /\ events' \in Seq(EventTypes)
          /\ \A i \in DOMAIN events' : events'[i] = "finished" => worker' = "gone" /\ i = Len(events')
      BY <1>1, <1>2, <3>1, EventTaken
    <3> QED
      BY <1>1, <3>2 DEF EventsInv
  <2>2. CASE JsonClosed
    <3>1. events' = events
      BY <2>2 DEF JsonClosed
    <3> QED
      BY <1>1, <1>2, <3>1 DEF EventsInv, SseTypeOK
  <2> QED
    BY <2>1, <2>2
<1>5. /\ got' \in Seq(ChunkRec) /\ Ordered(got')
      /\ \A c \in Members(got') :
           /\ c.what \notin Heartbeats /\ c.what # "finish"
           /\ \/ c.ids = <<>> /\ c.what \notin Texts
              \/ c.what \in Texts /\ c.ids = pending.text
  <2>1. CASE JsonFailed
    <3>1. got' = <<Mark("error"), Mark("last")>> /\ "error" \in Whats /\ "last" \in Whats
      BY <2>1 DEF JsonFailed, Whats, Ends, Dones
    <3>2. /\ Mark("error").what = "error" /\ Mark("last").what = "last"
          /\ Mark("error").ids = <<>> /\ Mark("last").ids = <<>>
      BY <3>1, TwoMarks
    <3>3. MayFollow(Mark("error"), Mark("last"))
      BY <3>2 DEF MayFollow, Ends, Dones, Texts
    <3>4. /\ got' \in Seq(ChunkRec) /\ Ordered(got')
          /\ \A c \in Members(got') : c = Mark("error") \/ c = Mark("last")
      BY <3>1, <3>3, TwoMarks
    <3> QED
      BY <3>2, <3>4 DEF Heartbeats, Texts
  <2>2. CASE JsonClosed
    <3> DEFINE a == pending.text
               t == ChunkIf("text", a)
               f == Mark("done")
               x == Chunk("text", a)
    <3>1. got' = t \o <<f>> /\ "text" \in Whats /\ "done" \in Whats /\ a \in Seq(Nat)
      BY <1>2, <2>2 DEF JsonClosed, Whats, Texts, Dones, SseTypeOK, PendingRec
    <3>2. f.what = "done" /\ f.ids = <<>> /\ f \in ChunkRec /\ x.what = "text" /\ x.ids = a
      BY <3>1, TwoMarks DEF Chunk
    <3>3. t \in Seq(ChunkRec) /\ Ordered(t) /\ Members(t) = IF a = <<>> THEN {} ELSE {x}
      BY <3>1, ChunkIfMembers
    <3> HIDE DEF a, t, f, x
    <3> DEFINE z == <<f>>
    <3>4. z \in Seq(ChunkRec) /\ Ordered(z) /\ Members(z) = {f} /\ got' = t \o z
      BY <3>1, <3>2, ShortMembers, OrderedShort
    <3> HIDE DEF z
    <3>5. Ahead(Members(t), Members(z))
      BY <3>2, <3>3, <3>4 DEF Ahead, MayFollow, Ends, Dones, Texts
    <3>6. got' \in Seq(ChunkRec) /\ Members(got') = Members(t) \cup {f}
      BY <3>3, <3>4, MembersConcat
    <3>7. Ordered(got')
      BY <3>3, <3>4, <3>5, OrderedConcat
    <3>8. \A c \in Members(got') : c = x \/ c = f
      BY <3>3, <3>6
    <3> QED
      BY <3>2, <3>6, <3>7, <3>8 DEF Heartbeats, Texts, a
  <2> QED
    BY <2>1, <2>2
<1>6. SseTypeOK' /\ HeldInv' /\ JsonInv'
  BY <1>1, <1>2, <1>3, <1>4, <1>5 DEF SseTypeOK, HeldInv, JsonInv, Kept
<1>7. NoBeats'
  BY <1>5 DEF NoBeats
<1>8. LineInv'
  <2>1. sse' = <<>> /\ todo' = <<>> /\ Members(sse') = {} /\ Members(todo') = {}
    BY <1>1, <1>3, Nothing
  <2>2. Ordered(sse') /\ Ordered(todo') /\ Line' = Members(got')
    BY <2>1, OrderedShort DEF Line
  <2>3. InOrder'
    BY <1>5, <2>1, <2>2 DEF InOrder, Ahead
  <2>4. Members(<<>>) = {} /\ Members(pending.text) \subseteq 1 .. taken /\ Increasing(pending.text)
    BY <1>2, Nothing DEF HeldInv, Kept
  <2>5. IdsInv'
    <3>1. ASSUME NEW c \in Members(got') PROVE
            /\ Members(c.ids) \subseteq 1 .. taken
            /\ c.what \notin Texts \cup {"calls"} => c.ids = <<>>
            /\ c.what \in Texts => Increasing(c.ids)
      BY <1>5, <2>4
    <3> QED
      BY <1>1, <2>2, <3>1 DEF IdsInv
  <2>6. RoleInv' /\ EndInv' /\ FinishInv' /\ Cover'
    BY <1>1, <1>5, <2>2 DEF RoleInv, EndInv, FinishInv, Cover
  <2> QED
    BY <2>3, <2>5, <2>6 DEF LineInv
<1> QED
  BY <1>4, <1>6, <1>7, <1>8 DEF SseInv

-----------------------------------------------------------------------------
(* The theorems.                                                            *)

\* Every step keeps what is on the line in order and complete.
LEMMA NextInv == SseInv /\ [SseNext]_sseVars => SseInv'
<1> SUFFICES ASSUME SseInv, [SseNext]_sseVars PROVE SseInv'
  OBVIOUS
<1>1. CASE Send
  BY <1>1, SendInv
<1>2. CASE OnEvent
  <2>1. CASE OnToken
    BY <2>1, OnTokenInv
  <2>2. CASE OnEmptyPiece
    <3>1. "empty" \in EventTypes \ {"token"}
      BY DEF EventTypes
    <3> QED
      BY <2>2, <3>1, EventDropped DEF OnEmptyPiece
  <2>3. CASE OnProgress
    BY <2>3, ProgressInv
  <2>4. CASE OnFinished
    BY <2>4, OnFinishedInv
  <2>5. CASE OnFailed
    BY <2>5, OnFailedInv
  <2>6. CASE OnClosed
    BY <2>6, OnClosedInv
  <2>7. CASE JsonToken
    BY <2>7, JsonTokenInv
  <2>8. CASE JsonFinished
    BY <2>8, JsonFinishedInv
  <2>9. CASE JsonFailed \/ JsonClosed
    BY <2>9, JsonEndsInv
  <2> QED
    BY <1>2, <2>1, <2>2, <2>3, <2>4, <2>5, <2>6, <2>7, <2>8, <2>9 DEF OnEvent
<1>3. CASE Ping
  BY <1>3, ProgressInv
<1>4. CASE FlushTimer
  BY <1>4, FlushTimerInv
<1>5. CASE Worker
  BY <1>5, WorkerInv
<1>6. CASE ClientReads
  BY <1>6, ClientReadsInv
<1>7. CASE ClientLeaves
  BY <1>7, ClientLeavesInv
<1>8. CASE UNCHANGED sseVars
  <2>1. /\ UNCHANGED <<kind, workerVars, events, cancelled, todo, sse, parseVars, over, clientVars>>
    BY <1>8 DEF sseVars
  <2>2. /\ UNCHANGED <<kind, worker, sent, made, events, cancelled, todo, sse>>
        /\ UNCHANGED <<sentRole, taken, held, pending, swallowed, over, got, left>>
    BY <2>1 DEF workerVars, parseVars, clientVars
  <2>3. SseTypeOK' /\ HeldInv' /\ EventsInv' /\ JsonInv' /\ NoBeats'
    BY <2>2 DEF SseInv, SseTypeOK, HeldInv, EventsInv, JsonInv, NoBeats, Kept
  <2>4. LineInv'
    BY <2>2 DEF SseInv, LineInv, InOrder, IdsInv, RoleInv, EndInv, FinishInv, Cover, Line, Kept,
                InError, Drained
  <2> QED
    BY <2>3, <2>4 DEF SseInv
<1> QED
  BY <1>1, <1>2, <1>3, <1>4, <1>5, <1>6, <1>7, <1>8 DEF SseNext

\* What a client that is still there has is in order and complete.
LEMMA GotGood == SseInv /\ ~left => GotInv
<1> SUFFICES ASSUME SseInv, ~left PROVE GotInv
  OBVIOUS
<1>1. /\ SseTypeOK /\ NoBeats /\ JsonInv /\ InOrder /\ IdsInv /\ RoleInv /\ FinishInv
      /\ got \in Seq(ChunkRec) /\ Ordered(got)
  BY DEF SseInv, LineInv, SseTypeOK, InOrder
<1>2. Len(got) \in Nat /\ DOMAIN got = 1 .. Len(got)
  BY <1>1, LenProperties
<1>3. ASSUME NEW i \in DOMAIN got
      PROVE  got[i] \in Members(got) /\ got[i] \in Line /\ got[i].what \notin Heartbeats
  BY <1>1 DEF Members, Line, NoBeats
<1>4. \A i, j \in DOMAIN got : i < j => MayFollow(got[i], got[j])
  BY <1>1 DEF Ordered
<1>5. ASSUME NEW i \in DOMAIN got, NEW d \in Members(sse) \cup Members(todo)
      PROVE  MayFollow(got[i], d)
  BY <1>1, <1>3 DEF InOrder, Ahead
<1>6. ASSUME NEW i \in DOMAIN got, NEW j \in DOMAIN got, i < j
      PROVE  /\ got[i].what \in Ends => got[j].what \in Dones
             /\ got[i].what \notin Dones /\ got[j].what # "role"
  BY <1>3, <1>4, <1>6 DEF MayFollow
<1>7. OneEnd
  <2>1. ASSUME NEW i \in GotOf(Ends), NEW j \in GotOf(Ends) PROVE ~(i < j)
    BY <1>6 DEF GotOf, Ends, Dones
  <2>2. \A i, j \in GotOf(Ends) : i = j
    <3>1. \A i \in GotOf(Ends) : i \in Nat
      BY <1>2 DEF GotOf
    <3> QED
      BY <2>1, <3>1
  <2>3. ASSUME NEW i \in GotOf(Dones) PROVE i = Len(got)
    <3>1. i \in 1 .. Len(got) /\ i \in DOMAIN got /\ got[i].what \in Dones
      BY <1>2 DEF GotOf
    <3>2. ASSUME i # Len(got) PROVE FALSE
      <4>1. Len(got) \in DOMAIN got /\ i < Len(got)
        BY <1>2, <3>1, <3>2
      <4> QED
        BY <1>6, <3>1, <4>1
    <3> QED
      BY <3>2
  <2>4. ASSUME NEW i \in GotOf(Ends), NEW j \in GotOf(Texts \cup {"calls", "role"})
        PROVE  j \in 1 .. i - 1
    <3>1. /\ i \in DOMAIN got /\ j \in DOMAIN got /\ i \in 1 .. Len(got) /\ j \in 1 .. Len(got)
          /\ got[i].what \in Ends /\ got[j].what \in Texts \cup {"calls", "role"}
      BY <1>2 DEF GotOf
    <3>2. i # j
      BY <3>1 DEF Ends, Texts
    <3>3. ~(i < j)
      BY <1>6, <3>1 DEF Dones, Texts
    <3> QED
      BY <1>2, <3>1, <3>2, <3>3
  <2> QED
    BY <2>2, <2>3, <2>4 DEF OneEnd
<1>8. RoleFirst
  <2> SUFFICES ASSUME kind = "stream", NEW i \in GotOf(Texts \cup {"calls", "finish"}), got[i].ids # <<>>
               PROVE  \E j \in GotOf({"role"}) : j < i
    BY DEF RoleFirst
  <2>1. i \in DOMAIN got /\ got[i].what \in Texts \cup {"calls", "finish"} /\ i \in Nat
    BY <1>2 DEF GotOf
  <2>2. got[i].what \in Texts \cup {"calls"}
    BY <1>1, <1>3, <2>1 DEF IdsInv
  <2>3. sentRole
    BY <1>1, <1>3, <2>1, <2>2 DEF RoleInv, Heartbeats, Ends, Dones, Texts
  <2>4. PICK c \in Line : c.what = "role"
    BY <1>1, <2>3 DEF RoleInv
  <2>5. ~MayFollow(got[i], c)
    BY <1>3, <2>1, <2>4 DEF MayFollow
  <2>6. c \in Members(got)
    BY <1>5, <2>1, <2>4, <2>5 DEF Line
  <2>7. PICK j \in DOMAIN got : got[j] = c
    BY <2>6 DEF Members
  <2>8. j \in Nat /\ j # i /\ ~(i < j)
    BY <1>2, <1>4, <2>1, <2>2, <2>4, <2>5, <2>7 DEF Texts
  <2> QED
    BY <2>1, <2>4, <2>7, <2>8 DEF GotOf
<1>9. ASSUME NEW i \in GotOf(Texts), NEW j \in GotOf(Texts),
             NEW x \in DOMAIN got[i].ids, NEW y \in DOMAIN got[j].ids,
             i < j \/ (i = j /\ x < y)
      PROVE  got[i].ids[x] < got[j].ids[y]
  <2>1. i \in DOMAIN got /\ j \in DOMAIN got /\ got[i].what \in Texts /\ got[j].what \in Texts
    BY DEF GotOf
  <2>2. CASE i < j
    <3>1. Earlier(Members(got[i].ids), Members(got[j].ids))
      BY <1>4, <2>1, <2>2 DEF MayFollow
    <3> QED
      BY <3>1 DEF Earlier, Members
  <2>3. CASE i = j /\ x < y
    <3>1. Increasing(got[i].ids)
      BY <1>1, <1>3, <2>1 DEF IdsInv
    <3> QED
      BY <2>3, <3>1 DEF Increasing
  <2> QED
    BY <1>9, <2>2, <2>3
<1>10. ASSUME GotOf({"finish"}) # {}
       PROVE  /\ worker = "gone" /\ events = <<>>
              /\ swallowed \cup UNION {Members(got[i].ids) : i \in GotOf(Texts \cup {"calls"})}
                   = 1 .. made
  <2>1. PICK i \in DOMAIN got : got[i].what = "finish"
    BY <1>10 DEF GotOf
  <2>2. /\ worker = "gone" /\ events = <<>>
        /\ swallowed \cup IdsOf(Line, Texts \cup {"calls"}) = 1 .. made
    BY <1>1, <1>3, <2>1 DEF FinishInv
  <2>3. ASSUME NEW c \in Line, c.what \in Texts \cup {"calls"} PROVE c \in Members(got)
    <3>1. ~MayFollow(got[i], c)
      BY <2>1, <2>3 DEF MayFollow, Ends, Dones, Heartbeats, Texts
    <3> QED
      BY <1>5, <3>1 DEF Line
  <2>4. UNION {Members(got[j].ids) : j \in GotOf(Texts \cup {"calls"})}
          = IdsOf(Members(got), Texts \cup {"calls"})
    BY DEF IdsOf, Members, GotOf
  <2>5. IdsOf(Members(got), Texts \cup {"calls"}) = IdsOf(Line, Texts \cup {"calls"})
    BY <2>3 DEF IdsOf, Line
  <2> QED
    BY <2>2, <2>4, <2>5
<1>11. TextInOrder
  BY <1>9, <1>10 DEF TextInOrder
<1> QED
  BY <1>7, <1>8, <1>10, <1>11 DEF GotInv, ChunkOrder

\* A client that went away keeps what it had.
LEMMA GotStays == SseInv /\ GotInv /\ [SseNext]_sseVars /\ left' => GotInv'
<1> SUFFICES ASSUME SseInv, GotInv, [SseNext]_sseVars, left' PROVE GotInv'
  OBVIOUS
<1>1. kind' = kind /\ got' = got
  <2>1. CASE UNCHANGED sseVars
    BY <2>1 DEF sseVars, clientVars
  <2>2. CASE JsonFinished \/ JsonFailed \/ JsonClosed
    <3>1. kind = "json" /\ ~over /\ left' = left
      BY <2>2 DEF JsonFinished, JsonFailed, JsonClosed, Take, Ready
    <3> QED
      BY <3>1 DEF SseInv, JsonInv
  <2>3. CASE ClientReads
    BY <2>3 DEF ClientReads
  <2>4. CASE Send \/ OnToken \/ OnEmptyPiece \/ OnProgress \/ OnFinished \/ OnFailed \/ OnClosed
             \/ JsonToken \/ Ping \/ FlushTimer \/ ClientLeaves
    BY <2>4 DEF Send, OnToken, OnEmptyPiece, OnProgress, OnFinished, OnFailed, OnClosed, JsonToken,
                Ping, FlushTimer, ClientLeaves, clientVars
  <2>5. CASE Worker
    BY <2>5 DEF Worker, WorkerSends, WorkerFailsToken, WorkerEnds, WorkerRest, clientVars
  <2> QED
    BY <2>1, <2>2, <2>3, <2>4, <2>5 DEF SseNext, OnEvent
<1>2. ASSUME worker = "gone", events = <<>>
      PROVE  worker' = "gone" /\ events' = <<>> /\ made' = made /\ swallowed' = swallowed
  <2>1. CASE UNCHANGED sseVars
    BY <1>2, <2>1 DEF sseVars, workerVars, parseVars
  <2>2. ~Worker
    BY <1>2 DEF Worker, WorkerSends, WorkerFailsToken, WorkerEnds
  <2>3. CASE Send \/ Ping \/ FlushTimer \/ ClientReads \/ ClientLeaves
    BY <1>2, <2>3 DEF Send, Ping, FlushTimer, ClientReads, ClientLeaves, workerVars, parseVars
  <2>4. CASE OnClosed \/ JsonClosed
    BY <1>2, <2>4 DEF OnClosed, JsonClosed, workerVars, parseVars
  <2>5. ~(OnToken \/ OnEmptyPiece \/ OnProgress \/ OnFinished \/ OnFailed
          \/ JsonToken \/ JsonFinished \/ JsonFailed)
    BY <1>2 DEF OnToken, OnEmptyPiece, OnProgress, OnFinished, OnFailed, JsonToken, JsonFinished,
                JsonFailed, Take
  <2> QED
    BY <2>1, <2>2, <2>3, <2>4, <2>5 DEF SseNext, OnEvent
<1>3. \A W : GotOf(W)' = GotOf(W)
  BY <1>1 DEF GotOf
<1>4. ChunkOrder'
  BY <1>1 DEF GotInv, ChunkOrder, OneEnd, RoleFirst, GotOf
<1>5. GotOf({"finish"})' # {} =>
        worker' = "gone" /\ events' = <<>> /\ made' = made /\ swallowed' = swallowed
  BY <1>2, <1>3 DEF GotInv
<1>6. TextInOrder'
  <2>1. CASE GotOf({"finish"}) = {}
    BY <1>1, <2>1 DEF GotInv, TextInOrder, GotOf
  <2>2. CASE GotOf({"finish"}) # {}
    <3>1. made' = made /\ swallowed' = swallowed
      BY <1>3, <1>5, <2>2
    <3> QED
      BY <1>1, <3>1 DEF GotInv, TextInOrder, GotOf
  <2> QED
    BY <2>1, <2>2
<1> QED
  BY <1>4, <1>5, <1>6 DEF GotInv

\* What is sent to a client is in its order, in every reachable state, and with
\* what is held back and what the parsers swallowed it is all the tokens taken
\* (stream_completion, complete).
THEOREM LineCorrect == SseSpec => []SseInv
<1> QED
  BY InitInv, NextInv, PTL DEF SseSpec

\* So is what the client has, also once it went away.
THEOREM GotCorrect == SseSpec => []GotInv
<1>1. SseInit => GotInv
  <2>1. SseInit => ~left
    BY DEF SseInit
  <2> QED
    BY <2>1, InitInv, GotGood
<1>2. SseInv /\ SseInv' /\ GotInv /\ [SseNext]_sseVars => GotInv'
  <2>1. SseInv' /\ ~left' => GotInv'
    BY GotGood, PTL
  <2> QED
    BY <2>1, GotStays
<1> QED
  BY <1>1, <1>2, LineCorrect, PTL DEF SseSpec

\* The chunks come in their order: the role, text and tool calls, one end, and
\* [DONE] last, whatever events ended the request (stream_completion).
THEOREM ChunkOrderCorrect == SseSpec => []ChunkOrder
<1>1. GotInv => ChunkOrder
  BY DEF GotInv
<1> QED
  BY <1>1, GotCorrect, PTL

\* The text is in the order of the tokens, and a request that is said to be
\* finished has lost none of what the parsers let go: only what they swallowed is
\* missing (PendingDelta, finish_stream, complete).
THEOREM TextInOrderCorrect == SseSpec => []TextInOrder
<1>1. GotInv => TextInOrder
  BY DEF GotInv
<1> QED
  BY <1>1, GotCorrect, PTL
=============================================================================
