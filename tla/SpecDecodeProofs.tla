-------------------------- MODULE SpecDecodeProofs --------------------------
(***************************************************************************)
(* Speculative decoding, for any vocabulary, prompt, kind of draft and     *)
(* depth of rollback: what is accepted was sampled after the text it       *)
(* follows, no greedy draft is verified a third time, and the cells, the   *)
(* hidden row and the remembered tokens stay those of the text.  And what  *)
(* becomes of the sampled tokens: the text sent is that of their bytes and *)
(* ends with the first stop string.                                        *)
(***************************************************************************)
EXTENDS SpecDecode, TextStream, FoldLemmas

-----------------------------------------------------------------------------
(* Beginnings of sequences.                                                 *)

\* The first k members.
LEMMA Beginning ==
  ASSUME NEW S, NEW s \in Seq(S), NEW k \in 0 .. Len(s)
  PROVE  /\ FirstOf(s, k) \in Seq(S) /\ Len(FirstOf(s, k)) = k
         /\ \A i \in 1 .. k : FirstOf(s, k)[i] = s[i]
<1>1. Len(s) \in Nat /\ k \in Int
  BY LenProperties
<1>2. \A i \in 1 .. k : s[i] \in S
  BY <1>1, ElementOfSeq
<1>3. /\ SubSeq(s, 1, k) \in Seq(S)
      /\ Len(SubSeq(s, 1, k)) = IF 1 <= k THEN k - 1 + 1 ELSE 0
      /\ \A i \in 1 .. k - 1 + 1 : SubSeq(s, 1, k)[i] = s[1 + i - 1]
  BY <1>1, <1>2, SubSeqProperties
<1>4. Len(SubSeq(s, 1, k)) = k
  BY <1>1, <1>3
<1>5. \A i \in 1 .. k : i \in 1 .. k - 1 + 1 /\ 1 + i - 1 = i
  BY <1>1
<1>6. \A i \in 1 .. k : SubSeq(s, 1, k)[i] = s[i]
  BY <1>3, <1>5
<1> QED
  BY <1>3, <1>4, <1>6 DEF FirstOf

\* All of a sequence, and the beginning of a beginning.
LEMMA Beginnings ==
  ASSUME NEW S, NEW s \in Seq(S), NEW k \in 0 .. Len(s), NEW j \in 0 .. k
  PROVE  FirstOf(s, Len(s)) = s /\ FirstOf(FirstOf(s, k), j) = FirstOf(s, j)
<1>1. Len(s) \in Nat /\ Len(s) \in 0 .. Len(s) /\ j \in 0 .. Len(s)
  BY LenProperties
<1>2. /\ FirstOf(s, Len(s)) \in Seq(S) /\ Len(FirstOf(s, Len(s))) = Len(s)
      /\ \A i \in 1 .. Len(s) : FirstOf(s, Len(s))[i] = s[i]
  BY <1>1, Beginning
<1>3. FirstOf(s, Len(s)) = s
  BY <1>2, SeqEqual
<1> DEFINE p == FirstOf(s, k)
           q == FirstOf(s, j)
           r == FirstOf(p, j)
<1>4. p \in Seq(S) /\ Len(p) = k /\ \A i \in 1 .. k : p[i] = s[i]
  BY Beginning
<1>5. q \in Seq(S) /\ Len(q) = j /\ \A i \in 1 .. j : q[i] = s[i]
  BY <1>1, Beginning
<1> HIDE DEF p, q
<1>6. r \in Seq(S) /\ Len(r) = j /\ \A i \in 1 .. j : r[i] = p[i]
  BY <1>4, Beginning
<1> HIDE DEF r
<1>7. \A i \in 1 .. j : r[i] = q[i]
  BY <1>1, <1>4, <1>5, <1>6
<1>8. r = q
  BY <1>5, <1>6, <1>7, SeqEqual
<1> QED
  BY <1>3, <1>8 DEF p, q, r

\* One text and then another, by a name the provers need not open.
Then(s, t) == s \o t

\* What a concatenation is.
LEMMA ThenIs ==
  ASSUME NEW S, NEW s \in Seq(S), NEW t \in Seq(S)
  PROVE  /\ Then(s, t) \in Seq(S) /\ Len(Then(s, t)) = Len(s) + Len(t)
         /\ \A i \in 1 .. Len(s) + Len(t) :
              Then(s, t)[i] = IF i <= Len(s) THEN s[i] ELSE t[i - Len(s)]
BY ConcatProperties DEF Then

\* Three texts in a row may be read as two, either way.
LEMMA Regroup ==
  ASSUME NEW S, NEW f \in Seq(S), NEW o \in Seq(S), NEW d \in Seq(S)
  PROVE  Then(f, Then(o, d)) = Then(Then(f, o), d)
BY ConcatAssociative DEF Then

\* A beginning that reaches into the second of two sequences.
LEMMA BeginningOfThen ==
  ASSUME NEW S, NEW b \in Seq(S), NEW d \in Seq(S), NEW k \in 0 .. Len(d)
  PROVE  FirstOf(Then(b, d), Len(b) + k) = Then(b, FirstOf(d, k))
<1> DEFINE w == Then(b, d)
           e == FirstOf(d, k)
<1>1. Len(b) \in Nat /\ Len(d) \in Nat
  BY LenProperties
<1>2. /\ w \in Seq(S) /\ Len(w) = Len(b) + Len(d)
      /\ \A i \in 1 .. Len(b) + Len(d) : w[i] = IF i <= Len(b) THEN b[i] ELSE d[i - Len(b)]
  BY ThenIs
<1>3. e \in Seq(S) /\ Len(e) = k /\ \A i \in 1 .. k : e[i] = d[i]
  BY Beginning
<1> HIDE DEF w, e
<1> DEFINE x == FirstOf(w, Len(b) + k)
           y == Then(b, e)
<1>4. Len(b) + k \in 0 .. Len(w)
  BY <1>1, <1>2
<1>5. x \in Seq(S) /\ Len(x) = Len(b) + k /\ \A i \in 1 .. Len(b) + k : x[i] = w[i]
  BY <1>2, <1>4, Beginning
<1>6. /\ y \in Seq(S) /\ Len(y) = Len(b) + Len(e)
      /\ \A i \in 1 .. Len(b) + Len(e) : y[i] = IF i <= Len(b) THEN b[i] ELSE e[i - Len(b)]
  BY <1>3, ThenIs
<1> HIDE DEF x, y
<1>7. ASSUME NEW i \in 1 .. Len(b) + k PROVE x[i] = y[i]
  <2>1. i \in 1 .. Len(b) + Len(d) /\ i \in 1 .. Len(b) + Len(e)
    BY <1>1, <1>3
  <2>2. CASE i <= Len(b)
    BY <1>2, <1>5, <1>6, <2>1, <2>2
  <2>3. CASE ~(i <= Len(b))
    <3>1. i - Len(b) \in 1 .. k
      BY <1>1, <2>3
    <3>2. x[i] = d[i - Len(b)] /\ y[i] = e[i - Len(b)]
      BY <1>2, <1>5, <1>6, <2>1, <2>3
    <3> QED
      BY <1>3, <3>1, <3>2
  <2> QED
    BY <2>2, <2>3
<1>8. x = y
  BY <1>3, <1>5, <1>6, <1>7, SeqEqual
<1> QED
  BY <1>8 DEF w, e, x, y

\* A sequence of one.
LEMMA OnlyOne ==
  ASSUME NEW S, NEW x \in S
  PROVE  <<x>> \in Seq(S) /\ Len(<<x>>) = 1 /\ <<x>>[1] = x
OBVIOUS

\* A sequence is its front and its last member.
LEMMA FrontAndLast ==
  ASSUME NEW S, NEW s \in Seq(S), s # <<>>
  PROVE  /\ Front(s) \in Seq(S) /\ Len(Front(s)) = Len(s) - 1 /\ Last(s) \in S
         /\ Then(Front(s), <<Last(s)>>) = s
         /\ Front(s) = FirstOf(s, Len(s) - 1)
<1>1. Len(s) \in Nat \ {0}
  BY EmptySeq
<1> DEFINE f == FirstOf(s, Len(s) - 1)
           l == s[Len(s)]
           y == Then(f, <<l>>)
<1>2. Len(s) - 1 \in 0 .. Len(s) /\ Len(s) \in 1 .. Len(s)
  BY <1>1
<1>3. f \in Seq(S) /\ Len(f) = Len(s) - 1 /\ \A i \in 1 .. Len(s) - 1 : f[i] = s[i]
  BY <1>2, Beginning
<1>4. l \in S
  BY <1>2, ElementOfSeq
<1> HIDE DEF f, l
<1>5. <<l>> \in Seq(S) /\ Len(<<l>>) = 1 /\ <<l>>[1] = l
  BY <1>4, OnlyOne
<1>6. /\ y \in Seq(S) /\ Len(y) = Len(f) + 1
      /\ \A i \in 1 .. Len(f) + 1 : y[i] = IF i <= Len(f) THEN f[i] ELSE <<l>>[i - Len(f)]
  BY <1>3, <1>5, ThenIs
<1> HIDE DEF y
<1>7. Len(y) = Len(s)
  BY <1>1, <1>3, <1>6
<1>8. ASSUME NEW i \in 1 .. Len(s) PROVE y[i] = s[i]
  <2>1. i \in 1 .. Len(f) + 1
    BY <1>1, <1>3
  <2>2. CASE i <= Len(s) - 1
    BY <1>1, <1>3, <1>6, <2>1, <2>2
  <2>3. CASE i = Len(s)
    <3>1. i - Len(f) = 1 /\ ~(i <= Len(f))
      BY <1>1, <1>3, <2>3
    <3>2. y[i] = l
      BY <1>5, <1>6, <2>1, <3>1
    <3> QED
      BY <2>3, <3>2 DEF l
  <2> QED
    BY <1>1, <2>2, <2>3
<1>9. y = s
  BY <1>6, <1>7, <1>8, SeqEqual
<1> QED
  BY <1>3, <1>4, <1>9 DEF f, l, y, Front, Last, FirstOf

\* A beginning is a prefix.
LEMMA BeginningIsPrefix ==
  ASSUME NEW S, NEW s \in Seq(S), NEW k \in 0 .. Len(s)
  PROVE  IsPrefix(FirstOf(s, k), s)
<1>1. k \in Nat /\ Len(s) \in Nat /\ k <= Len(s) /\ k \in 0 .. k
  BY LenProperties
<1>2. Len(FirstOf(s, k)) = k
  BY Beginning
<1>3. FirstOf(FirstOf(s, k), k) = FirstOf(s, k)
  BY <1>1, Beginnings
<1>4. SubSeq(FirstOf(s, k), 1, k) = SubSeq(s, 1, k)
  BY <1>3 DEF FirstOf
<1> QED
  BY <1>1, <1>2, <1>4 DEF IsPrefix

\* The texts behind the tokens of a decode are the beginnings of one text.
LEMMA TextsAreBeginnings ==
  ASSUME NEW S, NEW f \in Seq(S), NEW items \in Seq(S),
         NEW t, t = [i \in DOMAIN items |-> Then(f, FirstOf(items, i))]
  PROVE  /\ t \in Seq(Seq(S)) /\ Len(t) = Len(items)
         /\ \A i \in 1 .. Len(items) : t[i] = FirstOf(Then(f, items), Len(f) + i)
<1>1. Len(items) \in Nat /\ DOMAIN items = 1 .. Len(items)
  BY LenProperties
<1>2. ASSUME NEW i \in 1 .. Len(items)
      PROVE  t[i] = FirstOf(Then(f, items), Len(f) + i) /\ t[i] \in Seq(S)
  <2>1. i \in 0 .. Len(items)
    BY <1>1
  <2>2. FirstOf(Then(f, items), Len(f) + i) = Then(f, FirstOf(items, i))
    BY <2>1, BeginningOfThen
  <2>3. FirstOf(items, i) \in Seq(S)
    BY <2>1, Beginning
  <2>4. Then(f, FirstOf(items, i)) \in Seq(S)
    BY <2>3, ThenIs
  <2> QED
    BY <1>1, <2>2, <2>4
<1>3. t \in [1 .. Len(items) -> Seq(S)]
  BY <1>1, <1>2
<1>4. t \in Seq(Seq(S)) /\ Len(t) = Len(items)
  BY <1>1, <1>3, FunctionIsSeq
<1> QED
  BY <1>2, <1>4

-----------------------------------------------------------------------------
(* Accepting.                                                               *)

\* How many of the accepted tokens were drafted.
Matched(a, d) == Cardinality({i \in DOMAIN a : i <= Len(d) /\ a[i] = d[i]})

\* accept_drafts keeps the drafts that were sampled and one token more.
LEMMA Accepts ==
  ASSUME NEW S, NEW d \in Seq(S), NEW s \in Seq(S), Len(s) = Len(d) + 1,
         NEW a, a = AcceptDrafts(s, d)
  PROVE  \E m \in 0 .. Len(d) :
           /\ a = FirstOf(s, m + 1) /\ a \in Seq(S) /\ Len(a) = m + 1
           /\ Matched(a, d) = m
           /\ FirstOf(a, m) = FirstOf(d, m)
           /\ m < Len(d) => s[m + 1] # d[m + 1]
<1> DEFINE wrong == {i \in DOMAIN d : s[i] # d[i]}
<1>1. Len(d) \in Nat /\ DOMAIN d = 1 .. Len(d) /\ Len(s) \in Nat /\ DOMAIN s = 1 .. Len(s)
  BY LenProperties
<1>2. PICK m \in 0 .. Len(d) :
        /\ a = FirstOf(s, m + 1)
        /\ \A i \in 1 .. m : s[i] = d[i]
        /\ m < Len(d) => s[m + 1] # d[m + 1]
  <2>1. CASE wrong = {}
    <3>1. a = s
      BY <2>1 DEF AcceptDrafts
    <3>2. FirstOf(s, Len(d) + 1) = s
      <4>1. 0 \in 0 .. Len(s) /\ 0 \in 0 .. 0
        BY <1>1
      <4> QED
        BY <4>1, Beginnings
    <3>3. \A i \in 1 .. Len(d) : s[i] = d[i]
      BY <1>1, <2>1
    <3> QED
      BY <1>1, <3>1, <3>2, <3>3
  <2>2. CASE wrong # {}
    <3>1. wrong \in SUBSET Nat
      BY <1>1
    <3>2. Min(wrong) \in wrong /\ \A x \in wrong : Min(wrong) <= x
      <4> HIDE DEF wrong
      <4> QED
        BY <2>2, <3>1, MinPicks
    <3>3. a = FirstOf(s, Min(wrong))
      BY <2>2 DEF AcceptDrafts
    <3> DEFINE w == Min(wrong)
    <3>4. w \in 1 .. Len(d) /\ s[w] # d[w] /\ \A x \in 1 .. Len(d) : s[x] # d[x] => w <= x
      BY <1>1, <3>2
    <3> HIDE DEF w
    <3>5. w - 1 \in 0 .. Len(d) /\ (w - 1) + 1 = w
      BY <1>1, <3>4
    <3>6. \A i \in 1 .. w - 1 : i \in 1 .. Len(d) /\ ~(w <= i)
      BY <1>1, <3>4
    <3>7. \A i \in 1 .. w - 1 : s[i] = d[i]
      BY <3>4, <3>6
    <3>8. a = FirstOf(s, w)
      BY <3>3 DEF w
    <3> QED
      BY <3>4, <3>5, <3>7, <3>8
  <2> QED
    BY <2>1, <2>2
<1>3. m + 1 \in 0 .. Len(s) /\ m \in Nat /\ m \in 0 .. m + 1
  BY <1>1, <1>2
<1>4. /\ a \in Seq(S) /\ Len(a) = m + 1
      /\ \A i \in 1 .. m + 1 : a[i] = s[i]
  BY <1>2, <1>3, Beginning
<1>5. DOMAIN a = 1 .. m + 1
  BY <1>4, LenProperties
<1>6. {i \in DOMAIN a : i <= Len(d) /\ a[i] = d[i]} = 1 .. m
  <2>1. ASSUME NEW i \in 1 .. m + 1, i <= Len(d), a[i] = d[i]
        PROVE  i \in 1 .. m
    <3>1. SUFFICES ASSUME i = m + 1 PROVE FALSE
      BY <1>3
    <3>2. m < Len(d)
      BY <1>1, <1>3, <2>1, <3>1
    <3>3. s[m + 1] # d[m + 1]
      BY <1>2, <3>2
    <3>4. a[m + 1] = s[m + 1]
      BY <1>4, <2>1, <3>1
    <3> QED
      BY <2>1, <3>1, <3>3, <3>4
  <2>2. ASSUME NEW i \in 1 .. m
        PROVE  i \in 1 .. m + 1 /\ i <= Len(d) /\ a[i] = d[i]
    <3>1. i \in 1 .. m + 1 /\ i <= Len(d)
      BY <1>1, <1>3
    <3> QED
      BY <1>2, <1>4, <3>1
  <2> QED
    BY <1>5, <2>1, <2>2
<1>7. Cardinality(1 .. m) = m
  <2>1. Cardinality(1 .. m) = IF 1 > m THEN 0 ELSE m - 1 + 1
    BY <1>3, FS_Interval
  <2> QED
    BY <1>3, <2>1
<1>8. FirstOf(a, m) = FirstOf(d, m)
  <2> DEFINE x == FirstOf(a, m)
             y == FirstOf(d, m)
  <2>1. m \in 0 .. Len(a)
    BY <1>3, <1>4
  <2>2. x \in Seq(S) /\ Len(x) = m /\ \A i \in 1 .. m : x[i] = a[i]
    BY <1>4, <2>1, Beginning
  <2>3. y \in Seq(S) /\ Len(y) = m /\ \A i \in 1 .. m : y[i] = d[i]
    BY Beginning
  <2> HIDE DEF x, y
  <2>4. \A i \in 1 .. m : i \in 1 .. m + 1
    BY <1>3
  <2>5. \A i \in 1 .. m : x[i] = y[i]
    BY <1>2, <1>4, <2>2, <2>3, <2>4
  <2>6. x = y
    BY <2>2, <2>3, <2>5, SeqEqual
  <2> QED
    BY <2>6 DEF x, y
<1>9. Matched(a, d) = m
  BY <1>6, <1>7 DEF Matched
<1> QED
  BY <1>2, <1>4, <1>8, <1>9

\* A text begins with the cells that are there, as far as they reach.
Resident(text, cells) == IsPrefix(FirstOf(text, Less(Len(cells), Len(text))), cells)

\* Where an emission lands: the tokens up to the last accepted draft have their
\* cells, and what ends in the middle of the accepted tokens begins with them.
LEMMA Landing ==
  ASSUME NEW S, NEW p \in Seq(S), NEW g \in Seq(S), NEW e \in Seq(S), NEW a \in Seq(S),
         Len(a) = Len(e) + 1, FirstOf(a, Len(e)) = e, NEW k \in 0 .. Len(a)
  PROVE  /\ k = Len(a) => Then(p, Front(Then(g, FirstOf(a, k)))) = Then(Then(p, g), e)
         /\ Resident(Then(p, Then(g, FirstOf(a, k))), Then(Then(p, g), e))
         /\ Then(g, FirstOf(a, k)) \in Seq(S) /\ Len(Then(g, FirstOf(a, k))) = Len(g) + k
<1> DEFINE f  == Then(Then(p, g), e)
           g2 == Then(g, FirstOf(a, k))
           ak == FirstOf(a, k)
           w  == Then(p, g)
           w2 == Then(p, g2)
<1>1. Len(p) \in Nat /\ Len(g) \in Nat /\ Len(e) \in Nat /\ Len(a) \in Nat /\ k \in Nat
  BY LenProperties
<1>2. ak \in Seq(S) /\ Len(ak) = k
  BY Beginning
<1>3. w \in Seq(S) /\ Len(w) = Len(p) + Len(g)
  BY ThenIs
<1>4. f \in Seq(S) /\ Len(f) = Len(w) + Len(e)
  BY <1>3, ThenIs
<1>5. g2 \in Seq(S) /\ Len(g2) = Len(g) + k
  <2>1. g2 = Then(g, ak)
    OBVIOUS
  <2> HIDE DEF ak
  <2>2. Then(g, ak) \in Seq(S) /\ Len(Then(g, ak)) = Len(g) + Len(ak)
    BY <1>2, ThenIs
  <2> QED
    BY <1>2, <2>1, <2>2
<1>6. w2 \in Seq(S) /\ Len(w2) = Len(p) + Len(g2)
  BY <1>5, ThenIs
<1>7. w2 = Then(w, ak)
  BY <1>2, Regroup
<1>8. f = Then(w, e) /\ g2 = Then(g, ak)
  OBVIOUS
<1> HIDE DEF ak, w, w2, f, g2
<1>9. \A x \in Seq(S) : FirstOf(x, Len(x)) = x
  <2> TAKE x \in Seq(S)
  <2>1. 0 \in 0 .. 0 /\ 0 \in 0 .. Len(x)
    BY LenProperties
  <2> QED
    BY <2>1, Beginnings
<1>10. k = Len(a) => ak = a
  BY <1>9 DEF ak
<1>11. ASSUME k = Len(a) PROVE Then(p, Front(g2)) = f
  <2>1. g2 # <<>>
    <3>1. Len(g2) # 0
      BY <1>1, <1>5, <1>11
    <3> QED
      BY <1>5, <3>1, EmptySeq
  <2>2. Front(g2) = FirstOf(g2, Len(g2) - 1)
    BY <1>5, <2>1, FrontAndLast
  <2>3. Len(g2) - 1 = Len(g) + Len(e) /\ Len(e) \in 0 .. Len(a)
    BY <1>1, <1>5, <1>11
  <2>4. FirstOf(Then(g, a), Len(g) + Len(e)) = Then(g, FirstOf(a, Len(e)))
    BY <2>3, BeginningOfThen
  <2>5. Front(g2) = Then(g, e)
    BY <1>8, <1>10, <1>11, <2>2, <2>3, <2>4
  <2>6. Then(p, Then(g, e)) = Then(Then(p, g), e)
    BY Regroup
  <2> QED
    BY <2>5, <2>6 DEF f
<1>12. IsPrefix(FirstOf(w2, Less(Len(f), Len(w2))), f)
  <2>1. CASE k <= Len(e)
    <3>1. k \in 0 .. Len(e) /\ Len(w) + k \in 0 .. Len(f) /\ Len(e) \in 0 .. Len(a)
      BY <1>1, <1>3, <1>4, <2>1
    <3>2. Less(Len(f), Len(w2)) = Len(w2)
      BY <1>1, <1>3, <1>4, <1>5, <1>6, <2>1 DEF Less
    <3>3. FirstOf(FirstOf(a, Len(e)), k) = FirstOf(a, k)
      BY <3>1, Beginnings
    <3>4. FirstOf(e, k) = ak
      BY <3>3 DEF ak
    <3>5. FirstOf(Then(w, e), Len(w) + k) = Then(w, FirstOf(e, k))
      <4>1. w \in Seq(S) /\ k \in 0 .. Len(e)
        BY <1>3, <3>1
      <4> QED
        BY <4>1, BeginningOfThen
    <3>6. w2 = FirstOf(f, Len(w) + k)
      BY <1>7, <1>8, <3>4, <3>5
    <3>7. IsPrefix(FirstOf(f, Len(w) + k), f)
      BY <1>4, <3>1, BeginningIsPrefix
    <3> QED
      BY <1>6, <1>9, <3>2, <3>6, <3>7
  <2>2. CASE k = Len(a)
    <3>1. Less(Len(f), Len(w2)) = Len(f)
      BY <1>1, <1>3, <1>4, <1>5, <1>6, <2>2 DEF Less
    <3>2. Len(e) \in 0 .. Len(a) /\ Len(f) \in 0 .. Len(f)
      BY <1>1, <1>3, <1>4
    <3>3. FirstOf(Then(w, a), Len(w) + Len(e)) = Then(w, FirstOf(a, Len(e)))
      BY <1>3, <3>2, BeginningOfThen, ZenonT(40)
    <3>4. FirstOf(w2, Len(f)) = f
      BY <1>4, <1>7, <1>8, <1>10, <2>2, <3>3
    <3>5. IsPrefix(FirstOf(f, Len(f)), f)
      BY <1>4, <3>2, BeginningIsPrefix
    <3> QED
      BY <1>4, <1>9, <3>1, <3>4, <3>5
  <2>3. k <= Len(e) \/ k = Len(a)
    BY <1>1
  <2> QED
    BY <2>1, <2>2, <2>3
<1> QED
  BY <1>5, <1>11, <1>12 DEF w2, f, g2, Resident

-----------------------------------------------------------------------------
(* The invariant.                                                           *)

Whole   == Then(req.prompt, generated)
FedText == Then(req.prompt, Front(generated))

\* The text the row of the i-th drafted token is computed after.
Row(i) == FirstOf(Then(Whole, drafts), Len(Whole) + i - 1)

Typed ==
  /\ req \in Requests /\ step \in {"draft", "decode", "verify"}
  /\ ended \in {None, "stop", "length"}
  /\ generated \in Seq(Vocab) /\ generated # <<>>
  /\ drafts \in Seq(Vocab) /\ fed \in Seq(Vocab) /\ samples \in Seq(Vocab)
  /\ hidden \in Seq(Vocab)
  /\ contexts \in Seq(Seq(Vocab)) /\ mtp \in Seq(Seq(Vocab)) /\ verifyH \in Seq(Seq(Vocab))

\* A generation that is not over has room for a token, and only the drafts that
\* a restored snapshot leaves are verified again.
GoesOn ==
  /\ ended = None => Len(generated) < req.max
  /\ ended # None => step = "draft"
  /\ isReplay \in BOOLEAN /\ (isReplay => drafts # <<>>)

\* The drafts are what the target itself prefers.
Foretold == \A i \in DOMAIN drafts : drafts[i] = Argmax(Row(i))

\* Between two verifications: the target has the cells of all tokens but the
\* pending one, and the MTP head at least as many.
Before ==
  step # "verify" /\ ended = None =>
    /\ fed = FedText /\ nPast = Len(fed) /\ Len(mtp) >= nPast
    /\ step = "draft" => ckpt = NoCkpt
    /\ ~isReplay => hidden = fed /\ Len(mtp) = nPast
    /\ req.greedy => tries = 0 \/ (tries = 1 /\ isReplay /\ Foretold)

\* While the rows of a decode wait: the pending token and the drafts have cells
\* too, and a snapshot was taken where they could not be rolled back.
During ==
  step = "verify" =>
    /\ fed = Then(Whole, drafts) /\ nPast = Len(fed)
    /\ ckpt = IF Len(drafts) > NRsSeq THEN FedText ELSE NoCkpt
    /\ ckptN = Len(FedText)
    /\ Len(contexts) = Len(drafts) + 1 /\ Len(samples) = Len(drafts) + 1
    /\ \A i \in 1 .. Len(drafts) + 1 : contexts[i] = Row(i)
    /\ verifyH = contexts /\ Len(mtp) = nPast /\ hidden = fed
    /\ req.greedy => /\ \A i \in 1 .. Len(drafts) + 1 : samples[i] = Argmax(Row(i))
                     /\ tries = 1 \/ (tries = 2 /\ Foretold)

\* A finished request remembers what has cells.
After == ended # None => tries = 0 /\ RememberedIsResident

SpecInv == Typed /\ GoesOn /\ Before /\ During /\ After

\* The target prefers a token of its vocabulary.
ArgmaxInVocab == \A s \in Seq(Vocab) : Argmax(s) \in Vocab

\* What a request of the invariant is.
LEMMA Asked ==
  ASSUME Typed
  PROVE  /\ req.prompt \in Seq(Vocab) /\ req.prompt # <<>> /\ req.max \in Nat /\ req.cap \in Nat
         /\ req.max > 1 /\ req.greedy \in BOOLEAN /\ NRsSeq \in Nat
BY SpecAssumption, RequestsAssumption DEF Typed

\* The texts of the invariant, and how they differ.
LEMMA Texts2 ==
  ASSUME Typed
  PROVE  /\ Pending \in Vocab
         /\ Whole \in Seq(Vocab) /\ Len(Whole) = Len(req.prompt) + Len(generated)
         /\ FedText \in Seq(Vocab) /\ Len(FedText) = Len(Whole) - 1 /\ FedText # <<>>
         /\ Then(FedText, <<Pending>>) = Whole
         /\ Len(generated) \in Nat \ {0} /\ Len(drafts) \in Nat
<1>1. req.prompt \in Seq(Vocab) /\ generated \in Seq(Vocab) /\ generated # <<>> /\ req.prompt # <<>>
  BY Asked DEF Typed
<1>2. Len(req.prompt) \in Nat \ {0} /\ Len(generated) \in Nat \ {0}
  BY <1>1, EmptySeq
<1>3. /\ Front(generated) \in Seq(Vocab) /\ Len(Front(generated)) = Len(generated) - 1
      /\ Last(generated) \in Vocab /\ Then(Front(generated), <<Last(generated)>>) = generated
  BY <1>1, FrontAndLast
<1>4. <<Pending>> \in Seq(Vocab)
  BY <1>3, OnlyOne DEF Pending
<1>5. Whole \in Seq(Vocab) /\ Len(Whole) = Len(req.prompt) + Len(generated)
  BY <1>1, ThenIs DEF Whole
<1>6. FedText \in Seq(Vocab) /\ Len(FedText) = Len(req.prompt) + Len(Front(generated))
  BY <1>1, <1>3, ThenIs DEF FedText
<1>7. Then(req.prompt, Then(Front(generated), <<Pending>>))
        = Then(Then(req.prompt, Front(generated)), <<Pending>>)
  <2> DEFINE p == req.prompt
             f == Front(generated)
             o == <<Pending>>
  <2>1. p \in Seq(Vocab) /\ f \in Seq(Vocab) /\ o \in Seq(Vocab)
    BY <1>1, <1>3, <1>4
  <2> HIDE DEF p, f, o
  <2>2. Then(p, Then(f, o)) = Then(Then(p, f), o)
    BY <2>1, Regroup
  <2> QED
    BY <2>2 DEF p, f, o
<1>8. Then(FedText, <<Pending>>) = Whole
  BY <1>3, <1>7 DEF FedText, Whole, Pending
<1>9. Len(FedText) = Len(Whole) - 1 /\ Len(FedText) # 0
  BY <1>2, <1>3, <1>5, <1>6
<1>10. FedText # <<>>
  BY <1>9, EmptySeq
<1>11. Len(drafts) \in Nat
  BY LenProperties DEF Typed
<1> QED
  BY <1>2, <1>3, <1>5, <1>6, <1>8, <1>9, <1>10, <1>11 DEF Pending

\* The first state.
LEMMA InitInv ==
  ASSUME ArgmaxInVocab, SpecInit
  PROVE  SpecInv
<1>1. req \in Requests
  BY DEF SpecInit
<1>2. /\ req.prompt \in Seq(Vocab) /\ req.prompt # <<>> /\ req.max \in Nat /\ req.max > 1
      /\ req.greedy \in BOOLEAN
  BY <1>1, RequestsAssumption
<1>3. PICK t \in Vocab : generated = <<t>>
  <2>1. Argmax(req.prompt) \in Vocab
    BY <1>2 DEF ArgmaxInVocab
  <2> QED
    BY <2>1 DEF SpecInit
<1>4. generated \in Seq(Vocab) /\ Len(generated) = 1
  BY <1>3, OnlyOne
<1>5. <<>> \in Seq(Vocab) /\ <<>> \in Seq(Seq(Vocab)) /\ generated # <<>>
  BY <1>4, EmptySeq
<1>6. Len(req.prompt) \in Nat /\ DOMAIN req.prompt = 1 .. Len(req.prompt)
  BY <1>2, LenProperties
<1>7. mtp \in Seq(Seq(Vocab)) /\ Len(mtp) = Len(req.prompt)
  <2>1. ASSUME NEW i \in 1 .. Len(req.prompt) PROVE FirstOf(req.prompt, i - 1) \in Seq(Vocab)
    <3>1. i - 1 \in 0 .. Len(req.prompt)
      BY <1>6
    <3> QED
      BY <1>2, <3>1, Beginning
  <2>2. mtp \in [1 .. Len(req.prompt) -> Seq(Vocab)]
    BY <1>6, <2>1 DEF SpecInit
  <2> QED
    BY <1>6, <2>2, FunctionIsSeq
<1>8. FedText = req.prompt
  <2>1. Front(generated) = <<>>
    <3>1. Front(generated) \in Seq(Vocab) /\ Len(Front(generated)) = Len(generated) - 1
      BY <1>4, <1>5, FrontAndLast
    <3>2. Len(Front(generated)) = 0
      BY <1>4, <3>1
    <3> QED
      BY <3>1, <3>2, EmptySeq
  <2>2. req.prompt \o <<>> = req.prompt
    BY <1>2, ConcatEmptySeq
  <2> QED
    BY <2>1, <2>2 DEF FedText, Then
<1>9. Typed
  BY <1>1, <1>2, <1>4, <1>5, <1>7 DEF SpecInit, Typed
<1>10. GoesOn
  BY <1>2, <1>4 DEF SpecInit, GoesOn
<1>11. Before
  BY <1>6, <1>7, <1>8 DEF SpecInit, Before
<1>12. During /\ After
  BY DEF SpecInit, During, After
<1> QED
  BY <1>9, <1>10, <1>11, <1>12 DEF SpecInv

\* What is kept when the request, the tokens and the drafts are.
LEMMA SameTexts ==
  ASSUME UNCHANGED <<req, generated, drafts>>
  PROVE  Whole' = Whole /\ FedText' = FedText /\ (Foretold => Foretold')
<1>1. Whole' = Whole /\ FedText' = FedText
  BY DEF Whole, FedText
<1>2. Foretold => Foretold'
  BY <1>1 DEF Foretold, Row
<1> QED
  BY <1>1, <1>2

\* The drafts of a replay are kept.
LEMMA KeepDraftsInv ==
  ASSUME SpecInv, KeepDrafts
  PROVE  SpecInv'
<1>1. Whole' = Whole /\ FedText' = FedText /\ (Foretold => Foretold')
  BY SameTexts DEF KeepDrafts
<1>2. Typed'
  BY DEF SpecInv, Typed, KeepDrafts
<1>3. GoesOn'
  BY DEF SpecInv, GoesOn, KeepDrafts
<1>4. Before'
  BY <1>1 DEF SpecInv, Before, KeepDrafts
<1>5. During' /\ After'
  BY DEF During, After, KeepDrafts
<1> QED
  BY <1>2, <1>3, <1>4, <1>5 DEF SpecInv

\* New drafts, whatever they are.
LEMMA DraftInv ==
  ASSUME SpecInv, Draft, drafts' \in Seq(Vocab)
  PROVE  SpecInv'
<1>1. FedText' = FedText
  BY DEF FedText, Draft
<1>2. /\ step = "draft" /\ ended = None /\ ~isReplay /\ step' = "decode"
      /\ UNCHANGED <<req, fed, nPast, generated, ended, ckpt, ckptN, isReplay, samples,
                     contexts, mtp, hidden, verifyH, tries>>
  BY DEF Draft, SpecInv, GoesOn
<1>3. Typed'
  BY <1>2 DEF SpecInv, Typed
<1>4. GoesOn'
  BY <1>2 DEF SpecInv, GoesOn
<1>5. Before'
  BY <1>1, <1>2 DEF SpecInv, Before
<1>6. During' /\ After'
  BY <1>2 DEF During, After
<1> QED
  BY <1>3, <1>4, <1>5, <1>6 DEF SpecInv

\* What a decode adds: the texts of its rows, the cells and the MTP rows.
LEMMA Decodes ==
  ASSUME SpecInv, Decode1
  PROVE  /\ step = "decode" /\ ended = None
         /\ fed' = Then(Whole, drafts) /\ fed' \in Seq(Vocab) /\ nPast' = Len(fed')
         /\ Len(fed') = Len(Whole) + Len(drafts)
         /\ contexts' \in Seq(Seq(Vocab)) /\ Len(contexts') = Len(drafts) + 1
         /\ \A i \in 1 .. Len(drafts) + 1 : contexts'[i] = Row(i) /\ Row(i) \in Seq(Vocab)
         /\ verifyH' = contexts' /\ hidden' = fed'
         /\ mtp' \in Seq(Seq(Vocab)) /\ Len(mtp') = nPast'
         /\ DOMAIN (<<Pending>> \o drafts) = 1 .. Len(drafts) + 1
<1> DEFINE items == Then(<<Pending>>, drafts)
           size == Len(drafts)
           w == Then(Whole, drafts)
           texts == Texts(items)
<1>1. step = "decode" /\ ended = None
  BY DEF Decode1, SpecInv, GoesOn
<1>2. /\ fed = FedText /\ nPast = Len(fed) /\ Len(mtp) >= nPast
      /\ Typed
  BY <1>1 DEF SpecInv, Before
<1>3. /\ Pending \in Vocab /\ drafts \in Seq(Vocab) /\ fed \in Seq(Vocab) /\ mtp \in Seq(Seq(Vocab))
      /\ hidden \in Seq(Vocab)
      /\ Whole \in Seq(Vocab) /\ Len(fed) = Len(Whole) - 1
      /\ Then(fed, <<Pending>>) = Whole /\ size \in Nat
  BY <1>2, Texts2 DEF Typed
<1>4. Len(Whole) \in Nat /\ Len(fed) \in Nat /\ Len(mtp) \in Nat
  BY <1>3, LenProperties
<1>5. items \in Seq(Vocab) /\ Len(items) = size + 1 /\ Then(fed, items) = w
  <2> DEFINE o == <<Pending>>
  <2>1. o \in Seq(Vocab) /\ Len(o) = 1
    BY <1>3, OnlyOne
  <2>2. fed \in Seq(Vocab) /\ drafts \in Seq(Vocab)
    BY <1>3
  <2> HIDE DEF o
  <2>3. Then(o, drafts) \in Seq(Vocab) /\ Len(Then(o, drafts)) = Len(o) + Len(drafts)
    BY <2>1, <2>2, ThenIs
  <2>4. Then(fed, Then(o, drafts)) = Then(Then(fed, o), drafts)
    BY <2>1, <2>2, Regroup
  <2>5. Then(fed, o) = Whole
    BY <1>3 DEF o
  <2>6. items = Then(o, drafts)
    BY DEF o
  <2>7. Len(items) = size + 1
    BY <1>3, <2>1, <2>3, <2>6
  <2> QED
    BY <2>3, <2>4, <2>5, <2>6, <2>7
<1>6. w \in Seq(Vocab) /\ Len(w) = Len(Whole) + size
  BY <1>3, ThenIs
<1>7. DOMAIN items = 1 .. size + 1
  BY <1>5, LenProperties
<1>8. items = <<Pending>> \o drafts
  BY DEF Then
<1> HIDE DEF items
<1>9. /\ fed' = fed \o items /\ nPast' = nPast + Len(items)
      /\ contexts' = texts /\ SpecProcess(items, nPast)
  BY <1>8 DEF Decode1
<1>10. fed' = w
  BY <1>5, <1>9 DEF Then
<1>11. texts = [i \in DOMAIN items |-> Then(fed, FirstOf(items, i))]
  BY DEF Texts, Then
<1> HIDE DEF texts
<1>12. /\ texts \in Seq(Seq(Vocab)) /\ Len(texts) = Len(items)
       /\ \A i \in 1 .. Len(items) : texts[i] = FirstOf(Then(fed, items), Len(fed) + i)
  <2>1. fed \in Seq(Vocab) /\ items \in Seq(Vocab)
    BY <1>3, <1>5
  <2> QED
    BY <1>11, <2>1, TextsAreBeginnings
<1>13. ASSUME NEW i \in 1 .. size + 1
       PROVE  texts[i] = Row(i) /\ Row(i) \in Seq(Vocab)
  <2>1. Len(fed) + i = Len(Whole) + i - 1
    BY <1>3, <1>4
  <2>2. texts[i] = FirstOf(w, Len(Whole) + i - 1)
    BY <1>5, <1>12, <2>1
  <2>3. texts[i] \in Seq(Vocab)
    BY <1>5, <1>12, ElementOfSeq
  <2> QED
    BY <2>2, <2>3 DEF Row
<1>14. /\ verifyH' = texts /\ hidden' = Last(texts)
       /\ mtp' = Then(FirstOf(mtp, Less(nPast, Len(mtp))),
                      [i \in DOMAIN items |-> IF i = 1 THEN hidden ELSE texts[i - 1]])
  BY <1>9 DEF SpecProcess, texts, Then
<1>15. hidden' = w
  <2>1. Last(texts) = texts[size + 1] /\ size + 1 \in 1 .. size + 1
    BY <1>3, <1>5, <1>12 DEF Last
  <2>2. texts[size + 1] = FirstOf(w, Len(fed) + (size + 1))
    BY <1>5, <1>12, <2>1
  <2>3. Len(fed) + (size + 1) = Len(w)
    BY <1>3, <1>4, <1>6
  <2>4. FirstOf(w, Len(w)) = w
    <3>1. 0 \in 0 .. 0 /\ 0 \in 0 .. Len(w)
      BY <1>4, <1>3, <1>6
    <3> QED
      BY <1>6, <3>1, Beginnings
  <2> QED
    BY <1>14, <2>1, <2>2, <2>3, <2>4
<1>16. mtp' \in Seq(Seq(Vocab)) /\ Len(mtp') = nPast + (size + 1)
  <2> DEFINE old == FirstOf(mtp, Less(nPast, Len(mtp)))
             new == [i \in DOMAIN items |-> IF i = 1 THEN hidden ELSE texts[i - 1]]
  <2>1. Less(nPast, Len(mtp)) = nPast /\ nPast \in 0 .. Len(mtp)
    BY <1>2, <1>4 DEF Less
  <2>2. old \in Seq(Seq(Vocab)) /\ Len(old) = nPast
    BY <1>3, <2>1, Beginning
  <2>3. ASSUME NEW i \in 1 .. size + 1, i # 1 PROVE texts[i - 1] \in Seq(Vocab)
    <3>1. i - 1 \in 1 .. size + 1
      BY <1>3, <2>3
    <3> QED
      BY <1>5, <1>12, <3>1, ElementOfSeq
  <2>4. new \in [1 .. size + 1 -> Seq(Vocab)]
    BY <1>3, <1>7, <2>3
  <2>5. new \in Seq(Seq(Vocab)) /\ Len(new) = size + 1
    <3>1. size + 1 \in Nat
      BY <1>3
    <3> HIDE DEF new, size
    <3> QED
      BY <2>4, <3>1, FunctionIsSeq
  <2>6. mtp' = Then(old, new)
    BY <1>14
  <2> HIDE DEF old, new
  <2>7. Then(old, new) \in Seq(Seq(Vocab)) /\ Len(Then(old, new)) = Len(old) + Len(new)
    BY <2>2, <2>5, ThenIs
  <2> QED
    BY <2>2, <2>5, <2>6, <2>7
<1>17. nPast' = nPast + (size + 1) /\ nPast' = Len(fed')
  <2>1. nPast' = nPast + (size + 1)
    BY <1>5, <1>9
  <2>2. Len(fed) + (size + 1) = Len(Whole) + size
    BY <1>3, <1>4
  <2> QED
    BY <1>2, <1>6, <1>10, <2>1, <2>2
<1> QED
  BY <1>1, <1>5, <1>6, <1>7, <1>8, <1>9, <1>10, <1>12, <1>13, <1>14, <1>15, <1>16, <1>17

\* A decode.
LEMMA Decode1Inv ==
  ASSUME ArgmaxInVocab, SpecInv, Decode1
  PROVE  SpecInv'
<1> DEFINE size == Len(drafts)
<1>1. /\ step = "decode" /\ ended = None
      /\ fed' = Then(Whole, drafts) /\ fed' \in Seq(Vocab) /\ nPast' = Len(fed')
      /\ contexts' \in Seq(Seq(Vocab)) /\ Len(contexts') = size + 1
      /\ \A i \in 1 .. size + 1 : contexts'[i] = Row(i) /\ Row(i) \in Seq(Vocab)
      /\ verifyH' = contexts' /\ hidden' = fed'
      /\ mtp' \in Seq(Seq(Vocab)) /\ Len(mtp') = nPast'
      /\ DOMAIN (<<Pending>> \o drafts) = 1 .. size + 1
  BY Decodes
<1>2. /\ step' = "verify" /\ tries' = Less(tries + 1, 3)
      /\ ckpt' = Snapshot /\ ckptN' = nPast
      /\ UNCHANGED <<req, generated, drafts, ended, isReplay>>
      /\ samples' \in IF req.greedy
                      THEN {[i \in DOMAIN (<<Pending>> \o drafts) |-> Argmax(contexts'[i])]}
                      ELSE [DOMAIN (<<Pending>> \o drafts) -> Vocab]
  BY DEF Decode1
<1>3. /\ fed = FedText /\ nPast = Len(fed) /\ Typed
      /\ req.greedy => tries = 0 \/ (tries = 1 /\ isReplay /\ Foretold)
  BY <1>1 DEF SpecInv, Before
<1>4. size \in Nat /\ req.greedy \in BOOLEAN
  BY <1>3, Asked, Texts2
<1>5. Whole' = Whole /\ FedText' = FedText /\ (Foretold => Foretold')
  BY <1>2, SameTexts
<1>6. \A i \in 1 .. size + 1 : Row(i)' = Row(i)
  BY <1>2, <1>5 DEF Row
<1>7. /\ samples' \in [1 .. size + 1 -> Vocab]
      /\ req.greedy => \A i \in 1 .. size + 1 : samples'[i] = Argmax(Row(i))
  <2>1. CASE req.greedy
    <3>1. samples' = [i \in 1 .. size + 1 |-> Argmax(contexts'[i])]
      BY <1>1, <1>2, <2>1
    <3>2. ASSUME NEW i \in 1 .. size + 1
          PROVE  samples'[i] = Argmax(Row(i)) /\ samples'[i] \in Vocab
      <4>1. samples'[i] = Argmax(contexts'[i])
        BY <3>1
      <4>2. contexts'[i] = Row(i) /\ Row(i) \in Seq(Vocab)
        BY <1>1
      <4> QED
        BY <4>1, <4>2 DEF ArgmaxInVocab
    <3> QED
      BY <3>1, <3>2
  <2>2. CASE ~req.greedy
    BY <1>1, <1>2, <2>2
  <2> QED
    BY <2>1, <2>2
<1>8. samples' \in Seq(Vocab) /\ Len(samples') = size + 1
  <2>1. size + 1 \in Nat
    BY <1>4
  <2> HIDE DEF size
  <2> QED
    BY <1>7, <2>1, FunctionIsSeq
<1>9. Typed'
  BY <1>1, <1>2, <1>3, <1>8 DEF Typed
<1>10. GoesOn'
  BY <1>2, <1>1 DEF SpecInv, GoesOn
<1>11. Before' /\ After'
  BY <1>1, <1>2 DEF Before, After
<1>12. During'
  <2>1. ckpt' = IF Len(drafts') > NRsSeq THEN FedText' ELSE NoCkpt
    BY <1>2, <1>3, <1>5 DEF Snapshot
  <2>2. ckptN' = Len(FedText')
    BY <1>2, <1>3, <1>5
  <2>3. ASSUME req'.greedy
        PROVE  /\ \A i \in 1 .. Len(drafts') + 1 : samples'[i] = Argmax(Row(i)')
               /\ tries' = 1 \/ (tries' = 2 /\ Foretold')
    <3>1. \A i \in 1 .. size + 1 : samples'[i] = Argmax(Row(i)')
      BY <1>2, <1>6, <1>7, <2>3
    <3>2. tries' = 1 \/ (tries' = 2 /\ Foretold')
      BY <1>2, <1>3, <1>5, <2>3 DEF Less
    <3> QED
      BY <1>2, <3>1, <3>2
  <2>4. \A i \in 1 .. Len(drafts') + 1 : contexts'[i] = Row(i)'
    BY <1>1, <1>2, <1>6
  <2> QED
    BY <1>1, <1>2, <1>5, <1>8, <2>1, <2>2, <2>3, <2>4 DEF During
<1> QED
  BY <1>9, <1>10, <1>11, <1>12 DEF SpecInv

\* What a verification finds: m drafts are right, and one token more is accepted.
LEMMA Verified ==
  ASSUME SpecInv, step = "verify"
  PROVE  \E m \in 0 .. Len(drafts) :
           /\ Accepted \in Seq(Vocab) /\ Len(Accepted) = m + 1 /\ NMatched = m
           /\ FirstOf(Accepted, m) = FirstOf(drafts, m)
           /\ \A i \in 1 .. m + 1 : Accepted[i] = samples[i]
           /\ Accepted = FirstOf(samples, m + 1)
           /\ m < Len(drafts) => samples[m + 1] # drafts[m + 1]
<1>1. /\ drafts \in Seq(Vocab) /\ samples \in Seq(Vocab) /\ Len(samples) = Len(drafts) + 1
      /\ Len(drafts) \in Nat
  BY LenProperties DEF SpecInv, Typed, During
<1> DEFINE a == Accepted
<1>2. a = AcceptDrafts(samples, drafts)
  BY DEF Accepted
<1> HIDE DEF a
<1>3. PICK m \in 0 .. Len(drafts) :
        /\ a = FirstOf(samples, m + 1) /\ a \in Seq(Vocab) /\ Len(a) = m + 1
        /\ Matched(a, drafts) = m
        /\ FirstOf(a, m) = FirstOf(drafts, m)
        /\ m < Len(drafts) => samples[m + 1] # drafts[m + 1]
  BY <1>1, <1>2, Accepts
<1>4. NMatched = m
  BY <1>3 DEF NMatched, Matched, a
<1>5. m + 1 \in 0 .. Len(samples)
  BY <1>1
<1>6. \A i \in 1 .. m + 1 : a[i] = samples[i]
  BY <1>1, <1>3, <1>5, Beginning
<1> QED
  BY <1>3, <1>4, <1>6 DEF a

\* The beginnings of the text that was decoded, up to a draft.
LEMMA RowsByDrafts ==
  ASSUME Typed, NEW j \in 0 .. Len(drafts)
  PROVE  /\ Row(j + 1) = Then(Whole, FirstOf(drafts, j))
         /\ FirstOf(Then(Whole, drafts), Len(Whole) + j) = Then(Whole, FirstOf(drafts, j))
<1>1. Whole \in Seq(Vocab) /\ drafts \in Seq(Vocab)
  BY Texts2 DEF Typed
<1>2. FirstOf(Then(Whole, drafts), Len(Whole) + j) = Then(Whole, FirstOf(drafts, j))
  BY <1>1, BeginningOfThen
<1>3. Len(Whole) + (j + 1) - 1 = Len(Whole) + j
  BY <1>1, LenProperties
<1> QED
  BY <1>2, <1>3 DEF Row

\* A snapshot is restored, and what was accepted is drafted again.
LEMMA RestoreCkptInv ==
  ASSUME SpecInv, RestoreCkpt
  PROVE  SpecInv'
<1>1. /\ step = "verify" /\ NMatched < Len(drafts) /\ ckpt # NoCkpt
      /\ fed' = ckpt /\ nPast' = ckptN /\ ckpt' = NoCkpt
      /\ drafts' = Accepted /\ isReplay' = TRUE
      /\ hidden' = verifyH[Less(NMatched + 1, Len(verifyH))]
      /\ step' = "draft" /\ samples' = <<>> /\ contexts' = <<>>
      /\ UNCHANGED <<req, generated, ended, mtp, verifyH, tries>>
  BY DEF RestoreCkpt, SpecAccept
<1>2. PICK m \in 0 .. Len(drafts) :
        /\ Accepted \in Seq(Vocab) /\ Len(Accepted) = m + 1 /\ NMatched = m
        /\ FirstOf(Accepted, m) = FirstOf(drafts, m)
        /\ \A i \in 1 .. m + 1 : Accepted[i] = samples[i]
        /\ m < Len(drafts) => samples[m + 1] # drafts[m + 1]
  BY <1>1, Verified
<1>3. /\ Typed /\ fed = Then(Whole, drafts) /\ nPast = Len(fed)
      /\ ckpt = IF Len(drafts) > NRsSeq THEN FedText ELSE NoCkpt
      /\ ckptN = Len(FedText)
      /\ Len(contexts) = Len(drafts) + 1 /\ verifyH = contexts /\ Len(mtp) = nPast
      /\ req.greedy => /\ \A i \in 1 .. Len(drafts) + 1 : samples[i] = Argmax(Row(i))
                       /\ tries = 1 \/ (tries = 2 /\ Foretold)
  BY <1>1 DEF SpecInv, During
<1>4. /\ Whole \in Seq(Vocab) /\ FedText \in Seq(Vocab) /\ Len(FedText) = Len(Whole) - 1
      /\ Len(drafts) \in Nat /\ drafts \in Seq(Vocab) /\ Len(Whole) \in Nat
      /\ ended = None
  BY <1>1, <1>3, Texts2, LenProperties DEF Typed, SpecInv, GoesOn
<1>5. fed' = FedText /\ nPast' = Len(fed')
  BY <1>1, <1>3
<1>6. Whole' = Whole /\ FedText' = FedText
  BY <1>1 DEF Whole, FedText
<1>7. Len(mtp) >= nPast'
  <2>1. Len(fed) = Len(Whole) + Len(drafts)
    BY <1>3, <1>4, ThenIs
  <2> QED
    BY <1>3, <1>4, <1>5, <2>1
<1>8. hidden' \in Seq(Vocab)
  <2>1. Less(m + 1, Len(verifyH)) \in 1 .. Len(verifyH)
    BY <1>3, <1>4 DEF Less
  <2>2. verifyH \in Seq(Seq(Vocab))
    BY <1>3 DEF Typed
  <2>3. verifyH[Less(m + 1, Len(verifyH))] \in Seq(Vocab)
    BY <2>1, <2>2, ElementOfSeq
  <2> QED
    BY <1>1, <1>2, <2>3
<1>9. drafts' # <<>>
  <2>1. Len(Accepted) # 0
    BY <1>2, <1>4
  <2> QED
    BY <1>1, <2>1, EmptySeq
<1>10. <<>> \in Seq(Vocab) /\ <<>> \in Seq(Seq(Vocab))
  BY EmptySeq
<1>11. Typed'
  BY <1>1, <1>2, <1>3, <1>4, <1>5, <1>8, <1>10 DEF Typed
<1>12. GoesOn'
  BY <1>1, <1>4, <1>9 DEF SpecInv, GoesOn
<1>13. ASSUME req.greedy PROVE tries = 1 /\ Foretold'
  <2>1. m < Len(drafts) /\ m + 1 \in 1 .. Len(drafts) + 1 /\ m + 1 \in 1 .. Len(drafts)
    BY <1>1, <1>2, <1>4
  <2>2. tries = 1
    <3>1. SUFFICES ASSUME Foretold PROVE FALSE
      BY <1>3, <1>13
    <3>2. drafts[m + 1] = Argmax(Row(m + 1))
      BY <1>4, <2>1, <3>1, LenProperties DEF Foretold
    <3>3. samples[m + 1] = Argmax(Row(m + 1))
      BY <1>3, <1>13, <2>1
    <3> QED
      BY <1>2, <2>1, <3>2, <3>3
  <2>3. ASSUME NEW i \in 1 .. m + 1 PROVE Accepted[i] = Argmax(Row(i)')
    <3>1. i \in 1 .. Len(drafts) + 1 /\ i - 1 \in 0 .. m /\ i - 1 \in 0 .. Len(drafts)
          /\ (i - 1) + 1 = i /\ m \in 0 .. Len(Accepted) /\ i - 1 \in 0 .. Len(Accepted)
      BY <1>2, <1>4, <2>1
    <3>2. Accepted[i] = Argmax(Row(i))
      BY <1>2, <1>3, <1>13, <3>1
    <3>3. Row(i) = Then(Whole, FirstOf(drafts, i - 1))
      <4>1. Row((i - 1) + 1) = Then(Whole, FirstOf(drafts, i - 1))
        BY <1>3, <3>1, RowsByDrafts
      <4> QED
        BY <3>1, <4>1
    <3>4. FirstOf(Then(Whole, Accepted), Len(Whole) + (i - 1)) = Then(Whole, FirstOf(Accepted, i - 1))
      <4> DEFINE k == i - 1
      <4>1. k \in 0 .. Len(Accepted) /\ Accepted \in Seq(Vocab) /\ Whole \in Seq(Vocab)
        BY <1>2, <1>4, <3>1
      <4> HIDE DEF k
      <4>2. FirstOf(Then(Whole, Accepted), Len(Whole) + k) = Then(Whole, FirstOf(Accepted, k))
        BY <4>1, BeginningOfThen
      <4> QED
        BY <4>2 DEF k
    <3>5. FirstOf(Accepted, i - 1) = FirstOf(drafts, i - 1)
      <4>1. FirstOf(FirstOf(Accepted, m), i - 1) = FirstOf(Accepted, i - 1)
        BY <1>2, <3>1, Beginnings
      <4>2. FirstOf(FirstOf(drafts, m), i - 1) = FirstOf(drafts, i - 1)
        BY <1>4, <3>1, Beginnings
      <4> QED
        BY <1>2, <4>1, <4>2
    <3>6. Row(i)' = FirstOf(Then(Whole, Accepted), Len(Whole) + i - 1)
      BY <1>1, <1>6 DEF Row
    <3>7. Len(Whole) + i - 1 = Len(Whole) + (i - 1)
      BY <1>4
    <3>8. Row(i)' = Row(i)
      BY <3>3, <3>4, <3>5, <3>6, <3>7
    <3> QED
      BY <3>2, <3>8
  <2>4. DOMAIN Accepted = 1 .. m + 1
    BY <1>2, LenProperties
  <2>5. Foretold'
    BY <1>1, <2>3, <2>4 DEF Foretold
  <2> QED
    BY <2>2, <2>5
<1>14. Before'
  BY <1>1, <1>5, <1>6, <1>7, <1>13 DEF Before
<1>15. During' /\ After'
  BY <1>1, <1>4 DEF During, After
<1> QED
  BY <1>11, <1>12, <1>14, <1>15 DEF SpecInv

\* push_token until one ends the generation: what is pushed begins the accepted
\* tokens, and a generation that goes on has pushed them all.
LEMMA Pushes ==
  ASSUME SpecInv, step = "verify", NEW a \in Seq(Vocab), a # <<>>, NEW p \in Nat, PushAll(a, p)
  PROVE  /\ tries' = 0 /\ ended' \in {None, "stop", "length"}
         /\ \E k \in 0 .. Len(a) :
              /\ generated' = Then(generated, FirstOf(a, k))
              /\ ended' = None => k = Len(a) /\ Len(generated) + k < req.max
              /\ k = 0 => ended' # None
<1> DEFINE room == IF p + 1 > req.cap THEN 1 ELSE req.max - Len(generated)
           eos == {i \in DOMAIN a : a[i] = Eos}
           T == {Len(a), room} \cup {i - 1 : i \in eos}
<1>1. Typed /\ ended = None /\ Len(generated) < req.max
  BY DEF SpecInv, GoesOn
<1>2. Len(generated) \in Nat /\ req.max \in Nat /\ req.cap \in Nat
  BY <1>1, Asked, Texts2
<1>3. Len(a) \in Nat \ {0} /\ DOMAIN a = 1 .. Len(a)
  BY EmptySeq, LenProperties
<1>4. room \in Nat \ {0} /\ (room = 1 \/ room = req.max - Len(generated))
  BY <1>1, <1>2
<1>5. T \in SUBSET Nat /\ Len(a) \in T /\ room \in T
  BY <1>3, <1>4
<1> DEFINE k == Min(T)
<1>6. k \in T /\ \A x \in T : k <= x
  <2> HIDE DEF T
  <2> QED
    BY <1>5, MinPicks
<1>7. k \in Nat /\ k <= Len(a) /\ k <= room
  BY <1>5, <1>6
<1>8. /\ generated' = generated \o FirstOf(a, k)
      /\ ended' = IF k < Len(a) /\ k < room THEN "stop"
                  ELSE IF k = room THEN "length" ELSE None
      /\ tries' = 0
  BY DEF PushAll
<1> HIDE DEF k, T, room
<1>9. ended' = None => k = Len(a) /\ k < room
  <2>1. ended' = IF k < Len(a) /\ k < room THEN "stop"
                 ELSE IF k = room THEN "length" ELSE None
    BY <1>8
  <2>2. ended' = None => ~(k < Len(a) /\ k < room) /\ k # room
    BY <2>1 DEF None
  <2>3. k \in Nat /\ room \in Nat /\ Len(a) \in Nat /\ k <= Len(a) /\ k <= room
    BY <1>3, <1>4, <1>7
  <2> QED
    BY <2>2, <2>3
<1>10. ended' = None => Len(generated) + k < req.max
  BY <1>1, <1>2, <1>3, <1>4, <1>9
<1>11. k = 0 => ended' # None
  BY <1>3, <1>9
<1>12. k \in 0 .. Len(a)
  BY <1>3, <1>7
<1>13. generated' = Then(generated, FirstOf(a, k))
  BY <1>8 DEF Then
<1> QED
  BY <1>8, <1>9, <1>10, <1>11, <1>12, <1>13

\* What an emission leaves: the cells of what goes on, or of what is remembered.
LEMMA Emits ==
  ASSUME SpecInv, step = "verify", NEW m \in 0 .. Len(drafts), NEW a \in Seq(Vocab),
         Len(a) = m + 1, FirstOf(a, m) = FirstOf(drafts, m), NEW p \in Nat, PushAll(a, p),
         req' = req, fed' = Then(Whole, FirstOf(drafts, m)), nPast' = Len(fed')
  PROVE  /\ tries' = 0 /\ ended' \in {None, "stop", "length"}
         /\ generated' \in Seq(Vocab) /\ generated' # <<>> /\ fed' \in Seq(Vocab)
         /\ ended' = None => fed' = FedText' /\ Len(generated') < req'.max
         /\ ended' # None => RememberedIsResident'
<1> DEFINE e == FirstOf(drafts, m)
<1>1. /\ Typed /\ drafts \in Seq(Vocab) /\ generated \in Seq(Vocab) /\ Len(drafts) \in Nat
      /\ req.prompt \in Seq(Vocab) /\ Len(generated) \in Nat \ {0} /\ Len(a) \in Nat
  BY Asked, Texts2, LenProperties DEF SpecInv, Typed
<1>2. e \in Seq(Vocab) /\ Len(e) = m
  BY <1>1, Beginning
<1>3. a # <<>>
  BY <1>1, EmptySeq
<1>4. tries' = 0 /\ ended' \in {None, "stop", "length"}
  BY <1>3, Pushes
<1>5. PICK k \in 0 .. Len(a) :
        /\ generated' = Then(generated, FirstOf(a, k))
        /\ ended' = None => k = Len(a) /\ Len(generated) + k < req.max
  BY <1>3, Pushes
<1>6. fed' = Then(Then(req.prompt, generated), e)
  BY DEF Whole
<1>7. Len(a) = Len(e) + 1 /\ FirstOf(a, Len(e)) = e
  BY <1>2
<1> HIDE DEF e
<1> DEFINE P == req.prompt
<1>8. P \in Seq(Vocab) /\ fed' = Then(Then(P, generated), e)
  BY <1>1, <1>6
<1> HIDE DEF P
<1>9. /\ k = Len(a) => Then(P, Front(generated')) = fed'
      /\ IsPrefix(FirstOf(Then(P, generated'), Less(Len(fed'), Len(Then(P, generated')))), fed')
      /\ generated' \in Seq(Vocab) /\ Len(generated') = Len(generated) + k
  <2>1. P \in Seq(Vocab) /\ generated \in Seq(Vocab) /\ e \in Seq(Vocab)
    BY <1>1, <1>2, <1>8
  <2>2. /\ k = Len(a) => Then(P, Front(Then(generated, FirstOf(a, k)))) = Then(Then(P, generated), e)
        /\ Resident(Then(P, Then(generated, FirstOf(a, k))), Then(Then(P, generated), e))
        /\ Then(generated, FirstOf(a, k)) \in Seq(Vocab)
        /\ Len(Then(generated, FirstOf(a, k))) = Len(generated) + k
    BY <1>7, <2>1, Landing
  <2> QED
    BY <1>5, <1>8, <2>2 DEF Resident
<1>10. generated' # <<>>
  <2>1. Len(generated') # 0
    BY <1>1, <1>9
  <2> QED
    BY <2>1, EmptySeq
<1>11. fed' \in Seq(Vocab)
  <2>1. Whole \in Seq(Vocab)
    BY <1>1, Texts2
  <2> QED
    BY <1>2, <2>1, ThenIs DEF e
<1>12. ended' = None => fed' = FedText'
  BY <1>5, <1>9 DEF FedText, P
<1>13. ended' = None => Len(generated') < req'.max
  BY <1>5, <1>9
<1>14. RememberedIsResident'
  BY <1>9 DEF RememberedIsResident, Then, P
<1> QED
  BY <1>4, <1>9, <1>10, <1>11, <1>12, <1>13, <1>14

\* What an emission leaves of the invariant, once its cells are known.
LEMMA EmitsInv ==
  ASSUME SpecInv, step = "verify", NEW m \in 0 .. Len(drafts), NEW a \in Seq(Vocab),
         Len(a) = m + 1, FirstOf(a, m) = FirstOf(drafts, m), NEW p \in Nat, PushAll(a, p),
         req' = req, fed' = Then(Whole, FirstOf(drafts, m)), nPast' = Len(fed'),
         hidden' = fed', mtp' \in Seq(Seq(Vocab)), Len(mtp') = nPast',
         verifyH' = verifyH, ckpt' = NoCkpt, drafts' = <<>>, isReplay' = FALSE,
         step' = "draft", samples' = <<>>, contexts' = <<>>
  PROVE  SpecInv'
<1>1. /\ tries' = 0 /\ ended' \in {None, "stop", "length"}
      /\ generated' \in Seq(Vocab) /\ generated' # <<>> /\ fed' \in Seq(Vocab)
      /\ ended' = None => fed' = FedText' /\ Len(generated') < req'.max
      /\ ended' # None => RememberedIsResident'
  BY Emits
<1>2. Typed
  BY DEF SpecInv
<1>3. <<>> \in Seq(Vocab) /\ <<>> \in Seq(Seq(Vocab))
  BY EmptySeq
<1>4. Typed'
  BY <1>1, <1>2, <1>3 DEF Typed
<1>5. GoesOn'
  BY <1>1 DEF GoesOn
<1>6. nPast' \in Nat
  BY <1>1, LenProperties
<1>7. Before'
  BY <1>1, <1>6 DEF Before
<1>8. During' /\ After'
  BY <1>1 DEF During, After
<1> QED
  BY <1>4, <1>5, <1>7, <1>8 DEF SpecInv

\* A token without a draft.
LEMMA EmitOneInv ==
  ASSUME SpecInv, EmitOne
  PROVE  SpecInv'
<1>1. /\ step = "verify" /\ drafts = <<>> /\ PushAll(samples, nPast)
      /\ step' = "draft" /\ samples' = <<>> /\ contexts' = <<>>
      /\ UNCHANGED <<req, fed, nPast, drafts, ckpt, ckptN, isReplay, mtp, hidden, verifyH>>
  BY DEF EmitOne
<1>2. /\ Typed /\ fed = Then(Whole, drafts) /\ nPast = Len(fed)
      /\ ckpt = IF Len(drafts) > NRsSeq THEN FedText ELSE NoCkpt
      /\ Len(samples) = Len(drafts) + 1 /\ Len(mtp) = nPast /\ hidden = fed
  BY <1>1 DEF SpecInv, During
<1>3. Len(drafts) = 0 /\ drafts \in Seq(Vocab) /\ samples \in Seq(Vocab) /\ fed \in Seq(Vocab)
  BY <1>1, <1>2, EmptySeq DEF Typed
<1>4. ckpt = NoCkpt
  <2>1. NRsSeq \in Nat
    BY <1>2, Asked
  <2> QED
    BY <1>2, <1>3, <2>1
<1>5. isReplay = FALSE
  BY <1>1 DEF SpecInv, GoesOn
<1>6. FirstOf(drafts, 0) = drafts /\ FirstOf(samples, 0) = FirstOf(drafts, 0)
  <2>1. 0 \in 0 .. Len(drafts) /\ 0 \in 0 .. Len(samples)
    BY <1>2, <1>3
  <2>2. FirstOf(drafts, 0) \in Seq(Vocab) /\ Len(FirstOf(drafts, 0)) = 0
    BY <1>3, <2>1, Beginning
  <2>3. FirstOf(samples, 0) \in Seq(Vocab) /\ Len(FirstOf(samples, 0)) = 0
    BY <1>3, <2>1, Beginning
  <2> QED
    BY <1>1, <2>2, <2>3, EmptySeq
<1>7. nPast \in Nat
  BY <1>2, <1>3, LenProperties
<1>8. 0 \in 0 .. Len(drafts) /\ Len(samples) = 0 + 1
  BY <1>2, <1>3
<1>9. /\ fed' = Then(Whole, FirstOf(drafts, 0)) /\ nPast' = Len(fed') /\ hidden' = fed'
      /\ mtp' \in Seq(Seq(Vocab)) /\ Len(mtp') = nPast' /\ verifyH' = verifyH
      /\ ckpt' = NoCkpt /\ drafts' = <<>> /\ isReplay' = FALSE /\ req' = req
  BY <1>1, <1>2, <1>4, <1>5, <1>6 DEF Typed
<1> QED
  BY <1>1, <1>3, <1>6, <1>7, <1>8, <1>9, EmitsInv

\* A verified draft is emitted.  The rollback is always possible: where it would
\* be too deep a snapshot was taken.
LEMMA VerifyAndEmitInv ==
  ASSUME SpecInv, VerifyAndEmit
  PROVE  SpecInv'
<1>1. /\ step = "verify" /\ drafts # <<>> /\ (NMatched = Len(drafts) \/ ckpt = NoCkpt)
      /\ PushAll(Accepted, KeepPos)
      /\ nPast' = KeepPos /\ drafts' = <<>> /\ ckpt' = NoCkpt /\ isReplay' = FALSE
      /\ step' = "draft" /\ samples' = <<>> /\ contexts' = <<>>
      /\ req' = req
  BY DEF VerifyAndEmit
<1>2. PICK m \in 0 .. Len(drafts) :
        /\ Accepted \in Seq(Vocab) /\ Len(Accepted) = m + 1 /\ NMatched = m
        /\ FirstOf(Accepted, m) = FirstOf(drafts, m)
  BY <1>1, Verified
<1>3. /\ Typed /\ fed = Then(Whole, drafts) /\ nPast = Len(fed)
      /\ ckpt = IF Len(drafts) > NRsSeq THEN FedText ELSE NoCkpt
      /\ Len(contexts) = Len(drafts) + 1 /\ verifyH = contexts /\ Len(mtp) = nPast
      /\ \A i \in 1 .. Len(drafts) + 1 : contexts[i] = Row(i)
  BY <1>1 DEF SpecInv, During
<1>4. /\ Whole \in Seq(Vocab) /\ FedText # <<>> /\ NRsSeq \in Nat
      /\ Len(drafts) \in Nat /\ drafts \in Seq(Vocab) /\ Len(Whole) \in Nat
      /\ mtp \in Seq(Seq(Vocab))
  BY <1>3, Asked, Texts2, LenProperties DEF Typed
<1>5. Len(fed) = Len(Whole) + Len(drafts)
  BY <1>3, <1>4, ThenIs
<1>6. KeepPos = Len(Whole) + m
  BY <1>2, <1>3, <1>4, <1>5 DEF KeepPos
<1>7. Len(drafts) - m <= NRsSeq
  <2>1. CASE m = Len(drafts)
    BY <1>4, <2>1
  <2>2. CASE ckpt = NoCkpt
    <3>1. ~(Len(drafts) > NRsSeq)
      BY <1>3, <1>4, <2>2 DEF NoCkpt
    <3> QED
      BY <1>2, <1>4, <3>1
  <2> QED
    BY <1>1, <1>2, <2>1, <2>2
<1>8. Len(fed) - KeepPos <= NRsSeq
  BY <1>4, <1>5, <1>6, <1>7
<1>9. /\ fed' = FirstOf(fed, KeepPos)
      /\ mtp' = FirstOf(mtp, Less(KeepPos, Len(mtp)))
      /\ verifyH' = verifyH
      /\ hidden' = verifyH[Less(NMatched + 1, Len(verifyH))]
  BY <1>8 DEF VerifyAndEmit, SpecAccept
<1>10. fed' = Then(Whole, FirstOf(drafts, m))
  BY <1>3, <1>6, <1>9, RowsByDrafts
<1>11. FirstOf(drafts, m) \in Seq(Vocab) /\ Len(FirstOf(drafts, m)) = m
  BY <1>4, Beginning
<1>12. Len(fed') = Len(Whole) + m
  BY <1>4, <1>10, <1>11, ThenIs
<1>13. hidden' = fed'
  <2>1. Less(m + 1, Len(verifyH)) = m + 1 /\ m + 1 \in 1 .. Len(drafts) + 1
    BY <1>3, <1>4 DEF Less
  <2>2. hidden' = Row(m + 1)
    BY <1>2, <1>3, <1>9, <2>1
  <2> QED
    BY <1>3, <1>10, <2>2, RowsByDrafts
<1>14. mtp' \in Seq(Seq(Vocab)) /\ Len(mtp') = KeepPos
  <2>1. Len(mtp) = Len(Whole) + Len(drafts)
    BY <1>3, <1>5
  <2>2. KeepPos \in 0 .. Len(mtp) /\ Len(mtp) \in Nat
    BY <1>4, <1>6, <2>1
  <2>3. Less(KeepPos, Len(mtp)) = KeepPos
    BY <2>2 DEF Less
  <2> QED
    BY <1>4, <1>9, <2>2, <2>3, Beginning
<1>15. KeepPos \in Nat
  BY <1>4, <1>6
<1> QED
  BY <1>1, <1>2, <1>6, <1>9, <1>10, <1>12, <1>13, <1>14, <1>15, EmitsInv

-----------------------------------------------------------------------------
(* What is drafted are tokens.                                              *)

Tables == UNION {[D -> Vocab] : D \in SUBSET Seq(Vocab)}
Ngrams == [table : Tables, iLast : Nat, nDraftLast : Nat, nLow : Nat]

\* The sizes are numbers.
LEMMA Sizes ==
  {NRsSeq, MtpNMax, NgramNMax, NgramNMin, NgramN, NgramSize, NgramChunk, PldN, PldK} \subseteq Nat
BY SpecAssumption

\* A part of a text of tokens.
LEMMA PartOf ==
  ASSUME NEW s \in Seq(Vocab), NEW i \in Int, NEW j \in Int, 1 <= i, j <= Len(s)
  PROVE  SubSeq(s, i, j) \in Seq(Vocab)
<1>1. Len(s) \in Nat
  BY LenProperties
<1>2. \A k \in i .. j : k \in 1 .. Len(s)
  BY <1>1
<1>3. \A k \in i .. j : s[k] \in Vocab
  BY <1>2, ElementOfSeq
<1> QED
  BY <1>3, SubSeqProperties

\* An empty table.
LEMMA FreshTyped == FreshNgram \in Ngrams /\ NoTable \in Tables
<1>1. NoTable \in [{} -> Vocab]
  BY DEF NoTable
<1>2. NoTable \in Tables
  BY <1>1 DEF Tables
<1> QED
  BY <1>2 DEF FreshNgram, Ngrams

\* add keeps tokens in the table.
LEMMA AddAllTyped ==
  ASSUME NEW table \in Tables, NEW hist \in Seq(Vocab), NEW from \in Nat, NEW to \in Int
  PROVE  AddAll(table, hist, from, to) \in Tables
<1> DEFINE new == {i \in from + 1 .. to : i + NgramN <= Len(hist)}
           key(i) == SubSeq(hist, i, i + NgramN - 1)
           keys == {key(i) : i \in new}
           places(k) == {i \in new : key(i) = k}
           all == [k \in DOMAIN table \cup keys |->
                     IF k \in keys THEN hist[Max(places(k)) + NgramN] ELSE table[k]]
<1>1. NgramN \in Nat /\ Len(hist) \in Nat
  BY Sizes, LenProperties
<1>2. \A i \in new : i \in Int /\ 1 <= i /\ i + NgramN - 1 \in Int /\ i + NgramN - 1 <= Len(hist)
                     /\ i + NgramN \in 1 .. Len(hist) /\ i <= Len(hist)
  BY <1>1
<1>3. ASSUME NEW i \in new PROVE key(i) \in Seq(Vocab)
  <2> DEFINE j == i + NgramN - 1
  <2>1. i \in Int /\ 1 <= i /\ j \in Int /\ j <= Len(hist)
    BY <1>2
  <2> HIDE DEF j
  <2>2. SubSeq(hist, i, j) \in Seq(Vocab)
    BY <2>1, PartOf
  <2> QED
    BY <2>2 DEF j
<1>4. keys \in SUBSET Seq(Vocab)
  <2> HIDE DEF new, key
  <2> QED
    BY <1>3
<1>5. PICK D \in SUBSET Seq(Vocab) : table \in [D -> Vocab]
  BY DEF Tables
<1>6. ASSUME NEW k \in keys PROVE hist[Max(places(k)) + NgramN] \in Vocab
  <2> DEFINE P == places(k)
  <2>1. P # {} /\ P \subseteq new
    OBVIOUS
  <2>2. P \in SUBSET Int /\ \A x \in P : x <= Len(hist)
    BY <1>2, <2>1
  <2>3. Len(hist) \in Int
    BY <1>1
  <2> HIDE DEF P
  <2>4. Max(P) \in P
    BY <2>1, <2>2, <2>3, MaxPicks
  <2> DEFINE m == Max(P)
  <2>5. m \in new
    BY <2>1, <2>4
  <2> HIDE DEF m
  <2>6. m + NgramN \in 1 .. Len(hist)
    BY <1>2, <2>5
  <2>7. hist[m + NgramN] \in Vocab
    BY <2>6, ElementOfSeq
  <2> QED
    BY <2>7 DEF m, P
<1>7. all \in [D \cup keys -> Vocab]
  <2> HIDE DEF keys, places
  <2> QED
    BY <1>5, <1>6
<1>8. D \cup keys \in SUBSET Seq(Vocab)
  BY <1>4, <1>5
<1>9. all \in Tables
  <2> HIDE DEF all, keys
  <2> QED
    BY <1>7, <1>8 DEF Tables
<1>10. AddAll(table, hist, from, to) = all
  BY DEF AddAll
<1> QED
  BY <1>9, <1>10

\* begin keeps tokens in the table.
LEMMA BeginTyped ==
  ASSUME NEW g \in Ngrams, NEW prompt \in Seq(Vocab)
  PROVE  NgramBegin(g, prompt) \in Ngrams
<1> DEFINE table == AddAll(g.table, prompt, 0, Len(prompt) - NgramN)
           base == IF 4 * Cardinality(DOMAIN table) > NgramSize THEN FreshNgram
                   ELSE [g EXCEPT !.table = table]
           last == IF Len(prompt) > NgramN THEN Len(prompt) - NgramN ELSE 0
<1>1. NgramN \in Nat /\ Len(prompt) \in Nat /\ g.table \in Tables
  BY Sizes, LenProperties DEF Ngrams
<1>2. table \in Tables
  <2> DEFINE to == Len(prompt) - NgramN
  <2>1. to \in Int /\ 0 \in Nat
    BY <1>1
  <2> HIDE DEF to
  <2>2. AddAll(g.table, prompt, 0, to) \in Tables
    BY <1>1, <2>1, AddAllTyped
  <2> QED
    BY <2>2 DEF to
<1> HIDE DEF table
<1>3. base \in Ngrams
  BY <1>2, FreshTyped DEF Ngrams
<1>4. last \in Nat
  BY <1>1
<1>5. NgramBegin(g, prompt) = [base EXCEPT !.iLast = last]
  BY DEF NgramBegin, table
<1> HIDE DEF base, last
<1> QED
  BY <1>3, <1>4, <1>5 DEF Ngrams

\* ingest_new keeps tokens in the table.
LEMMA IngestTyped ==
  ASSUME NEW g \in Ngrams, NEW hist \in Seq(Vocab)
  PROVE  NgramIngestNew(g, hist) \in Ngrams
<1> DEFINE end == Len(hist) - NgramN
           table == AddAll(g.table, hist, g.iLast, end)
<1>1. NgramN \in Nat /\ Len(hist) \in Nat /\ g.table \in Tables /\ g.iLast \in Nat
  BY Sizes, LenProperties DEF Ngrams
<1>2. end \in Int
  BY <1>1
<1>3. table \in Tables
  <2> HIDE DEF end
  <2> QED
    BY <1>1, <1>2, AddAllTyped
<1>4. NgramIngestNew(g, hist) =
        IF g.iLast + NgramChunk >= Len(hist) \/ g.iLast >= end THEN g
        ELSE [g EXCEPT !.table = table, !.iLast = end]
  BY DEF NgramIngestNew
<1>5. ~(g.iLast >= end) => end \in Nat
  BY <1>1, <1>2
<1> HIDE DEF end, table
<1>6. ~(g.iLast >= end) => [g EXCEPT !.table = table, !.iLast = end] \in Ngrams
  BY <1>3, <1>5 DEF Ngrams
<1> QED
  BY <1>4, <1>6

\* accept keeps tokens in the table.
LEMMA AcceptTyped ==
  ASSUME NEW g \in Ngrams, NEW size
  PROVE  NgramAccept(g, size) \in Ngrams
<1>1. g.nLow + 1 \in Nat
  BY DEF Ngrams
<1>2. [g EXCEPT !.nDraftLast = 0, !.nLow = 0] \in Ngrams
  BY DEF Ngrams
<1>3. [g EXCEPT !.nDraftLast = 0, !.nLow = g.nLow + 1] \in Ngrams
  BY <1>1 DEF Ngrams
<1> QED
  BY <1>2, <1>3, FreshTyped DEF NgramAccept

\* A chain of lookups is a sequence of tokens.
LEMMA NgramDraftTyped ==
  ASSUME NEW g \in Ngrams, NEW hist, NEW last, NEW nMax \in Nat
  PROVE  NgramDraft(g, hist, last, nMax) \in Seq(Vocab)
<1> DEFINE Recent(d) == LET w == Append(hist, last) \o d
                        IN  SubSeq(w, Len(w) - NgramN + 1, Len(w))
           More(k, d) == IF Len(d) = k - 1 /\ Recent(d) \in DOMAIN g.table
                         THEN Append(d, g.table[Recent(d)]) ELSE d
           Chain[k \in 0 .. nMax] == IF k = 0 THEN <<>> ELSE More(k, Chain[k - 1])
           X == Seq(Vocab)
           G == [k \in 1 .. nMax |-> [d \in X |-> More(k, d)]]
<1>1. NgramDraft(g, hist, last, nMax) =
        IF Len(hist) < NgramN \/ Len(Chain[nMax]) < NgramNMin THEN <<>> ELSE Chain[nMax]
  BY DEF NgramDraft
<1>2. \A k, d : d \in X => More(k, d) \in X
  <2> TAKE k, d
  <2> HAVE d \in X
  <2>1. g.table \in Tables
    BY DEF Ngrams
  <2>2. PICK D \in SUBSET Seq(Vocab) : g.table \in [D -> Vocab]
    BY <2>1 DEF Tables
  <2> DEFINE r == Recent(d)
  <2>3. r \in DOMAIN g.table => g.table[r] \in Vocab
    BY <2>2
  <2> HIDE DEF r
  <2>4. r \in DOMAIN g.table => Append(d, g.table[r]) \in X
    BY <2>3, AppendProperties
  <2> QED
    BY <2>4 DEF r
<1> HIDE DEF More, X
<1>3. G \in [1 .. nMax -> [X -> X]]
  BY <1>2
<1>4. <<>> \in X
  BY EmptySeq DEF X
<1>5. PICK f \in [0 .. nMax -> X] : f[0] = <<>> /\ \A k \in 1 .. nMax : f[k] = G[k][f[k - 1]]
  <2> HIDE DEF G
  <2> QED
    BY <1>3, <1>4, ChainExists
<1>6. f = [k \in 0 .. nMax |-> IF k = 0 THEN <<>> ELSE More(k, f[k - 1])]
  <2>1. ASSUME NEW k \in 0 .. nMax, k # 0 PROVE f[k] = More(k, f[k - 1])
    <3>1. k \in 1 .. nMax /\ k - 1 \in 0 .. nMax
      BY <2>1
    <3>2. f[k - 1] \in X
      BY <3>1
    <3> QED
      BY <1>5, <3>1, <3>2
  <2> QED
    BY <1>5, <2>1
<1>7. Chain = [k \in 0 .. nMax |-> IF k = 0 THEN <<>> ELSE More(k, Chain[k - 1])]
  <2>1. \E c : c = [k \in 0 .. nMax |-> IF k = 0 THEN <<>> ELSE More(k, c[k - 1])]
    BY <1>6
  <2> QED
    BY <2>1 DEF Chain
<1> HIDE DEF Chain
<1>8. Chain[0] \in X /\ \A k \in 1 .. nMax : Chain[k - 1] \in X => Chain[k] \in X
  <2>1. Chain[0] \in X
    BY <1>4, <1>7
  <2>2. ASSUME NEW k \in 1 .. nMax, Chain[k - 1] \in X PROVE Chain[k] \in X
    <3>1. k \in 0 .. nMax /\ k # 0
      OBVIOUS
    <3>2. Chain[k] = More(k, Chain[k - 1])
      BY <1>7, <3>1
    <3> QED
      BY <1>2, <2>2, <3>2
  <2> QED
    BY <2>1, <2>2
<1>9. \A k \in 0 .. nMax : Chain[k] \in X
  BY <1>8, ChainKeeps
<1>10. Chain[nMax] \in X
  BY <1>9
<1> QED
  BY <1>1, <1>4, <1>10 DEF X

\* Prompt lookup copies tokens of the text.
LEMMA PldTyped ==
  ASSUME NEW hist \in Seq(Vocab), NEW last \in Vocab, NEW prior \in Seq(Vocab), NEW budget \in Int
  PROVE  PldDraft(hist, last, prior, budget) \in Seq(Vocab)
<1> DEFINE full == Append(hist, last) \o prior
           needle == SubSeq(full, Len(full) - PldN + 1, Len(full))
           found == {i \in 1 .. Len(full) - PldN : SubSeq(full, i, i + PldN - 1) = needle}
           start == Max(found) + PldN
           stop == Less(start + Less(PldK, budget) - 1, Len(full))
<1>1. PldN \in Nat /\ PldK \in Nat
  BY Sizes
<1>2. full \in Seq(Vocab) /\ Len(full) \in Nat
  <2>1. Append(hist, last) \in Seq(Vocab)
    BY AppendProperties
  <2>2. Append(hist, last) \o prior \in Seq(Vocab)
    BY <2>1, ConcatProperties
  <2> QED
    BY <2>2, LenProperties
<1>3. PldDraft(hist, last, prior, budget) =
        IF PldN = 0 \/ PldK = 0 \/ budget = 0 \/ Len(full) <= PldN \/ found = {} THEN <<>>
        ELSE SubSeq(full, start, stop)
  BY DEF PldDraft
<1> HIDE DEF full
<1>4. ASSUME found # {} PROVE start \in Int /\ 1 <= start /\ stop \in Int /\ stop <= Len(full)
  <2>1. found \in SUBSET Int /\ (\A x \in found : x <= Len(full)) /\ Len(full) \in Int
    BY <1>1, <1>2
  <2>2. Max(found) \in found
    <3> HIDE DEF found
    <3> QED
      BY <1>4, <2>1, MaxPicks
  <2>4. start \in Int /\ 1 <= start
    <3> DEFINE m == Max(found)
    <3>1. m \in found
      BY <2>2
    <3> HIDE DEF m
    <3>2. m \in 1 .. Len(full) - PldN
      BY <3>1
    <3>3. m + PldN \in Int /\ 1 <= m + PldN
      BY <1>1, <1>2, <3>2
    <3> QED
      BY <3>3 DEF m
  <2> HIDE DEF start
  <2>5. Less(PldK, budget) \in Int
    BY <1>1 DEF Less
  <2>6. stop \in Int /\ stop <= Len(full)
    BY <1>2, <2>4, <2>5 DEF Less
  <2> QED
    BY <2>4, <2>6
<1> HIDE DEF start, stop, found
<1>5. found # {} => SubSeq(full, start, stop) \in Seq(Vocab)
  BY <1>2, <1>4, PartOf
<1> QED
  BY <1>3, <1>5, EmptySeq

\* The budget of a draft is a number.
LEMMA BudgetIsNat ==
  ASSUME SpecInv, step = "draft", ended = None
  PROVE  DraftBudget \in Nat
<1>1. Typed /\ nPast = Len(fed)
  BY DEF SpecInv, Before
<1>2. nPast \in Nat /\ req.cap \in Nat /\ req.max \in Nat /\ Len(generated) \in Nat
  BY <1>1, Asked, Texts2, LenProperties DEF Typed
<1>3. VerifyNMax \in Int
  <2> DEFINE T == {0} \cup {NMaxOf(req.types[i]) : i \in DOMAIN req.types}
             b == MtpNMax + NgramNMax + PldK
  <2>1. MtpNMax \in Nat /\ NgramNMax \in Nat /\ PldK \in Nat
    BY Sizes
  <2>2. \A t : NMaxOf(t) \in Nat /\ NMaxOf(t) <= b
    BY <2>1 DEF NMaxOf
  <2>3. b \in Nat
    BY <2>1
  <2> HIDE DEF b
  <2>4. T \in SUBSET Int /\ T # {} /\ b \in Int /\ \A x \in T : x <= b
    BY <2>2, <2>3
  <2> HIDE DEF T
  <2>5. Max(T) \in T
    BY <2>4, MaxPicks
  <2>6. Max(T) \in Int
    BY <2>4, <2>5
  <2> QED
    BY <2>6 DEF VerifyNMax, T
<1> DEFINE ctx == req.cap - (nPast + 1)
           left == req.max - Len(generated)
           a == Less(VerifyNMax, Less(ctx - 1, left - 1))
<1>4. ctx \in Int /\ left \in Int
  BY <1>2
<1>5. DraftBudget = Max({0, a})
  BY DEF DraftBudget
<1> HIDE DEF ctx, left
<1>6. a \in Int
  BY <1>3, <1>4 DEF Less
<1> HIDE DEF a
<1>7. \E x \in {0, a} : \A y \in {0, a} : x >= y
  BY <1>6
<1>8. Max({0, a}) \in {0, a} /\ \A y \in {0, a} : Max({0, a}) >= y
  BY <1>7 DEF Max
<1> QED
  BY <1>5, <1>6, <1>8

\* The implementations one after the other draft tokens.
LEMMA SpecDraftTyped ==
  ASSUME Typed, NEW hist \in Seq(Vocab), NEW table \in Ngrams, NEW guess \in Seq(Vocab),
         NEW budget \in Nat
  PROVE  SpecDraft(hist, table, guess, budget) \in Seq(Vocab)
<1> DEFINE D == DOMAIN req.types
           Step(d, type) ==
             CASE type = "draft-mtp" -> IF d = <<>> THEN guess ELSE d
               [] type = "ngram-mod" ->
                    IF d = <<>> THEN NgramDraft(table, hist, Pending, Less(NgramNMax, budget)) ELSE d
               [] type = "prompt-lookup" ->
                    IF req.greedy THEN d \o PldDraft(hist, Pending, d, budget - Len(d)) ELSE d
           iter[s \in SUBSET D] ==
             IF s = {} THEN <<>> ELSE Step(iter[s \ {Max(s)}], req.types[Max(s)])
           X == Seq(Vocab)
           size == Len(req.types)
           G == [k \in 1 .. size |-> [d \in X |-> Step(d, req.types[k])]]
<1>1. SpecDraft(hist, table, guess, budget) = iter[D]
  BY DEF SpecDraft, FoldLeft, MapThenFoldSet
<1>2. /\ size \in Nat /\ D = 1 .. size
      /\ \A k \in 1 .. size : req.types[k] \in {"draft-mtp", "ngram-mod", "prompt-lookup"}
  <2>1. req.types \in Seq({"draft-mtp", "ngram-mod", "prompt-lookup"})
    BY RequestsAssumption DEF Typed
  <2> QED
    BY <2>1, LenProperties, ElementOfSeq
<1>3. ASSUME NEW d \in X, NEW type \in {"draft-mtp", "ngram-mod", "prompt-lookup"}
      PROVE  Step(d, type) \in X
  <2>1. Pending \in Vocab
    BY Texts2
  <2>2. Less(NgramNMax, budget) \in Nat
    BY Sizes DEF Less
  <2>3. NgramDraft(table, hist, Pending, Less(NgramNMax, budget)) \in X
    BY <2>2, NgramDraftTyped
  <2>4. d \o PldDraft(hist, Pending, d, budget - Len(d)) \in X
    <3> DEFINE left == budget - Len(d)
    <3>1. left \in Int
      BY LenProperties
    <3> HIDE DEF left
    <3>2. PldDraft(hist, Pending, d, left) \in Seq(Vocab)
      BY <2>1, <3>1, PldTyped
    <3>3. d \o PldDraft(hist, Pending, d, left) \in Seq(Vocab)
      BY <3>2, ConcatProperties
    <3> QED
      BY <3>3 DEF left
  <2>5. CASE type = "draft-mtp"
    BY <2>5
  <2>6. CASE type = "ngram-mod"
    BY <2>3, <2>6
  <2>7. CASE type = "prompt-lookup"
    BY <2>4, <2>7
  <2> QED
    BY <2>5, <2>6, <2>7
<1> HIDE DEF Step, X, D, size
<1>4. G \in [1 .. size -> [X -> X]]
  BY <1>2, <1>3
<1>5. <<>> \in X
  BY EmptySeq DEF X
<1>6. PICK f \in [SUBSET (1 .. size) -> X] : IsFold(f, <<>>, size, G)
  <2>1. size \in Nat
    BY <1>2
  <2> HIDE DEF G, iter
  <2> QED
    BY <1>4, <1>5, <2>1, FoldExists
<1>7. \A s \in SUBSET (1 .. size) : s # {} => Max(s) \in 1 .. size /\ s \ {Max(s)} \in SUBSET (1 .. size)
  BY <1>2, MaxUpTo
<1>8. f = [s \in SUBSET D |-> IF s = {} THEN <<>> ELSE Step(f[s \ {Max(s)}], req.types[Max(s)])]
  <2>1. ASSUME NEW s \in SUBSET (1 .. size), s # {}
        PROVE  f[s] = Step(f[s \ {Max(s)}], req.types[Max(s)])
    <3>1. Max(s) \in 1 .. size /\ f[s \ {Max(s)}] \in X
      BY <1>7, <2>1
    <3>2. f[s] = G[Max(s)][f[s \ {Max(s)}]]
      <4> HIDE DEF G
      <4> QED
        BY <1>6, <2>1 DEF IsFold
    <3> QED
      BY <3>1, <3>2
  <2>2. f[{}] = <<>>
    BY <1>6 DEF IsFold
  <2> QED
    BY <1>2, <2>1, <2>2
<1>9. iter = [s \in SUBSET D |-> IF s = {} THEN <<>> ELSE Step(iter[s \ {Max(s)}], req.types[Max(s)])]
  <2>1. \E c : c = [s \in SUBSET D |-> IF s = {} THEN <<>> ELSE Step(c[s \ {Max(s)}], req.types[Max(s)])]
    BY <1>8
  <2> QED
    BY <2>1 DEF iter
<1> HIDE DEF iter
<1>10. iter[{}] = <<>>
  BY <1>9
<1>11. ASSUME NEW s \in SUBSET (1 .. size), s # {} /\ iter[s \ {Max(s)}] \in X
       PROVE  iter[s] \in X
  <2>1. iter[s] = Step(iter[s \ {Max(s)}], req.types[Max(s)])
    BY <1>2, <1>9, <1>11
  <2>2. req.types[Max(s)] \in {"draft-mtp", "ngram-mod", "prompt-lookup"}
    BY <1>2, <1>7, <1>11
  <2> QED
    BY <1>3, <1>11, <2>1, <2>2
<1>12. \A s \in SUBSET (1 .. size) : iter[s] \in X
  <2>1. size \in Nat /\ iter[{}] \in X
    BY <1>2, <1>5, <1>10
  <2>2. \A s \in SUBSET (1 .. size) : s # {} /\ iter[s \ {Max(s)}] \in X => iter[s] \in X
    BY <1>11
  <2> QED
    BY <2>1, <2>2, FoldKeeps
<1> QED
  BY <1>1, <1>2, <1>12 DEF X

\* A draft is a sequence of tokens, and the table keeps tokens.
LEMMA DraftTyped ==
  ASSUME SpecInv, ngram \in Ngrams, Draft
  PROVE  drafts' \in Seq(Vocab) /\ ngram' \in Ngrams
<1> DEFINE hist == req.prompt \o Front(generated)
           begun == IF Len(generated) = 1 THEN NgramBegin(ngram, req.prompt) ELSE ngram
           table == NgramIngestNew(begun, hist)
           fromTable == NgramDraft(table, hist, Pending, Less(NgramNMax, DraftBudget))
<1>1. Typed /\ step = "draft" /\ ended = None
  BY DEF SpecInv, Draft
<1>2. hist \in Seq(Vocab) /\ req.prompt \in Seq(Vocab)
  BY <1>1, Asked, Texts2 DEF FedText, Then
<1>3. begun \in Ngrams
  BY <1>2, BeginTyped
<1>4. DraftBudget \in Nat
  BY <1>1, BudgetIsNat
<1>5. CASE DraftBudget = 0
  <2>1. drafts' = <<>> /\ ngram' = begun
    BY <1>5 DEF Draft
  <2> QED
    BY <1>3, <2>1, EmptySeq
<1>6. CASE DraftBudget # 0
  <2>1. PICK guess \in IF Has("draft-mtp") THEN MtpDrafts(DraftBudget) ELSE {<<>>} :
          /\ drafts' = SpecDraft(hist, table, guess, DraftBudget)
          /\ ngram' = IF Has("ngram-mod") /\ guess = <<>>
                      THEN [table EXCEPT !.nDraftLast = Len(fromTable)] ELSE table
    BY <1>6 DEF Draft
  <2>2. guess \in Seq(Vocab)
    <3>1. Less(MtpNMax, DraftBudget) \in Nat
      BY <1>4, Sizes DEF Less
    <3>2. BoundedSeq(Vocab, Less(MtpNMax, DraftBudget)) \subseteq Seq(Vocab)
      <4> DEFINE most == Less(MtpNMax, DraftBudget)
      <4>1. most \in Nat
        BY <3>1
      <4> HIDE DEF most
      <4>2. \A m \in 0 .. most : m \in Nat
        BY <4>1
      <4>3. BoundedSeq(Vocab, most) = UNION {[1 .. m -> Vocab] : m \in 0 .. most}
        BY DEF BoundedSeq, SeqOf
      <4>4. Seq(Vocab) = UNION {[1 .. m -> Vocab] : m \in Nat}
        BY SeqDef
      <4>5. BoundedSeq(Vocab, most) \subseteq Seq(Vocab)
        BY <4>2, <4>3, <4>4
      <4> QED
        BY <4>5 DEF most
    <3>3. <<>> \in Seq(Vocab)
      BY EmptySeq
    <3> QED
      BY <2>1, <3>2, <3>3 DEF MtpDrafts
  <2> HIDE DEF hist, begun
  <2>3. table \in Ngrams
    BY <1>2, <1>3, IngestTyped
  <2> HIDE DEF table
  <2>4. fromTable \in Seq(Vocab)
    <3>1. Less(NgramNMax, DraftBudget) \in Nat
      BY <1>4, Sizes DEF Less
    <3> QED
      BY <2>3, <3>1, NgramDraftTyped
  <2> HIDE DEF fromTable
  <2>5. Len(fromTable) \in Nat
    BY <2>4, LenProperties
  <2>6. drafts' \in Seq(Vocab)
    BY <1>1, <1>2, <1>4, <2>1, <2>2, <2>3, SpecDraftTyped
  <2>7. [table EXCEPT !.nDraftLast = Len(fromTable)] \in Ngrams
    BY <2>3, <2>5 DEF Ngrams
  <2> QED
    BY <2>1, <2>3, <2>6, <2>7
<1> QED
  BY <1>5, <1>6

-----------------------------------------------------------------------------
(* Theorems.                                                                *)

SpecSpec == SpecInit /\ [][SpecNext]_specVars

Drafting == SpecInv /\ ngram \in Ngrams

\* Every step keeps the invariant.
LEMMA StepInv ==
  ASSUME ArgmaxInVocab, Drafting, [SpecNext]_specVars
  PROVE  Drafting'
<1>1. CASE KeepDrafts
  BY <1>1, KeepDraftsInv DEF Drafting, KeepDrafts
<1>2. CASE Draft
  BY <1>2, DraftInv, DraftTyped DEF Drafting
<1>3. CASE Decode1
  BY <1>3, Decode1Inv DEF Drafting, Decode1
<1>4. CASE EmitOne
  BY <1>4, EmitOneInv DEF Drafting, EmitOne
<1>5. CASE RestoreCkpt
  <2>1. ngram' \in Ngrams
    BY <1>5, AcceptTyped DEF Drafting, RestoreCkpt, SpecAccept
  <2> QED
    BY <1>5, <2>1, RestoreCkptInv DEF Drafting
<1>6. CASE VerifyAndEmit
  <2>1. ngram' \in Ngrams
    <3>1. PICK kept : SpecAccept(NMatched, kept)
      BY <1>6 DEF VerifyAndEmit
    <3> QED
      BY <3>1, AcceptTyped DEF Drafting, SpecAccept
  <2> QED
    BY <1>6, <2>1, VerifyAndEmitInv DEF Drafting
<1>7. CASE UNCHANGED specVars
  <2>1. UNCHANGED <<req, step, fed, nPast, generated, drafts, ended, ckpt, ckptN,
                    isReplay, samples, contexts, mtp, hidden, verifyH, ngram, tries>>
    BY <1>7 DEF specVars
  <2>2. Whole' = Whole /\ FedText' = FedText
    BY <2>1 DEF Whole, FedText
  <2>3. (Foretold => Foretold') /\ (RememberedIsResident => RememberedIsResident')
    BY <2>1, <2>2 DEF Foretold, Row, RememberedIsResident
  <2>4. \A i : Row(i)' = Row(i)
    BY <2>1, <2>2 DEF Row
  <2>5. Typed' /\ GoesOn'
    BY <2>1 DEF Drafting, SpecInv, Typed, GoesOn
  <2>6. Before' /\ After'
    BY <2>1, <2>2, <2>3 DEF Drafting, SpecInv, Before, After
  <2>7. During'
    BY <2>1, <2>2, <2>3, <2>4 DEF Drafting, SpecInv, During
  <2> QED
    BY <2>1, <2>5, <2>6, <2>7 DEF Drafting, SpecInv
<1> QED
  BY <1>1, <1>2, <1>3, <1>4, <1>5, <1>6, <1>7 DEF SpecNext

\* The invariant holds of every behaviour.
THEOREM DraftingInductive ==
  ASSUME ArgmaxInVocab
  PROVE  SpecSpec => []Drafting
<1>1. SpecInit => Drafting
  BY InitInv, FreshTyped DEF Drafting, SpecInit
<1>2. Drafting /\ [SpecNext]_specVars => Drafting'
  BY StepInv
<1> QED
  BY <1>1, <1>2, PTL DEF SpecSpec

\* What is accepted was sampled after the text it follows.
LEMMA TrueRows ==
  ASSUME Drafting
  PROVE  RowsAreTrue
<1> SUFFICES ASSUME step = "verify", NEW i \in DOMAIN Accepted
             PROVE  contexts[i] = req.prompt \o generated \o FirstOf(Accepted, i - 1)
  BY DEF RowsAreTrue
<1>1. PICK m \in 0 .. Len(drafts) :
        /\ Accepted \in Seq(Vocab) /\ Len(Accepted) = m + 1
        /\ FirstOf(Accepted, m) = FirstOf(drafts, m)
  BY Verified DEF Drafting
<1>2. /\ Typed /\ drafts \in Seq(Vocab)
      /\ \A k \in 1 .. Len(drafts) + 1 : contexts[k] = Row(k)
  BY DEF Drafting, SpecInv, During, Typed
<1>3. Len(drafts) \in Nat /\ i \in 1 .. m + 1
  BY <1>1, <1>2, LenProperties
<1>4. /\ i \in 1 .. Len(drafts) + 1 /\ i - 1 \in 0 .. m /\ i - 1 \in 0 .. Len(drafts)
      /\ (i - 1) + 1 = i /\ m \in 0 .. Len(Accepted)
  BY <1>1, <1>3
<1>5. Row((i - 1) + 1) = Then(Whole, FirstOf(drafts, i - 1))
  BY <1>2, <1>4, RowsByDrafts
<1>6. FirstOf(Accepted, i - 1) = FirstOf(drafts, i - 1)
  <2>1. FirstOf(FirstOf(Accepted, m), i - 1) = FirstOf(Accepted, i - 1)
    BY <1>1, <1>4, Beginnings
  <2>2. FirstOf(FirstOf(drafts, m), i - 1) = FirstOf(drafts, i - 1)
    BY <1>2, <1>4, Beginnings
  <2> QED
    BY <1>1, <2>1, <2>2
<1>7. contexts[i] = Then(Whole, FirstOf(Accepted, i - 1))
  BY <1>2, <1>4, <1>5, <1>6
<1> QED
  BY <1>7 DEF Then, Whole

\* Speculation does not change the output, whatever is drafted and however deep
\* the recurrent state can be rolled back: every token that verify_and_emit
\* accepts was sampled from the row of exactly the text before it.
THEOREM RowsAreTrueAlways ==
  ASSUME ArgmaxInVocab
  PROVE  SpecSpec => []RowsAreTrue
<1>1. Drafting => RowsAreTrue
  BY TrueRows
<1> QED
  BY <1>1, DraftingInductive, PTL

\* A greedy draft is verified twice at most: what a restored snapshot brings back
\* is accepted by the next decode.
THEOREM VerifiedTwiceAlways ==
  ASSUME ArgmaxInVocab
  PROVE  SpecSpec => []VerifiedTwiceAtMost
<1>1. Drafting => VerifiedTwiceAtMost
  <2> SUFFICES ASSUME Drafting, req.greedy PROVE tries <= 2
    BY DEF VerifiedTwiceAtMost
  <2>1. CASE ended # None
    BY <2>1 DEF Drafting, SpecInv, After
  <2>2. CASE ended = None /\ step = "verify"
    BY <2>2 DEF Drafting, SpecInv, During
  <2>3. CASE ended = None /\ step # "verify"
    BY <2>3 DEF Drafting, SpecInv, Before
  <2> QED
    BY <2>1, <2>2, <2>3
<1> QED
  BY <1>1, DraftingInductive, PTL

\* What follows a verification finds the state of the text: the next draft its
\* hidden row and cells, the next request what the slot remembers.
THEOREM StateFollowsAlways ==
  ASSUME ArgmaxInVocab
  PROVE  SpecSpec => []StateFollows
<1>1. Drafting => StateFollows
  <2> SUFFICES ASSUME Drafting PROVE StateFollows
    OBVIOUS
  <2>1. DraftFromHere
    BY DEF Drafting, SpecInv, Before, DraftFromHere
  <2>2. RememberedIsResident
    BY DEF Drafting, SpecInv, After, RememberedIsResident
  <2> QED
    BY <2>1, <2>2 DEF StateFollows
<1> QED
  BY <1>1, DraftingInductive, PTL

-----------------------------------------------------------------------------
(* The text of the sampled tokens: letters, and the bytes of a character.    *)

Letters == STRING \cup {"?", "C", "L"}
Bytes == Seq(Letters)

\* The text of bytes, byte by byte.
LEMMA CharsReads ==
  ASSUME NEW b \in Bytes
  PROVE  \E f \in [0 .. Len(b) -> Bytes] :
           /\ Chars(b) = f[Len(b)]
           /\ f[0] = <<>>
           /\ \A i \in 1 .. Len(b) : f[i] = IF b[i] = "L" THEN f[i - 1] ELSE Append(f[i - 1], b[i])
<1> DEFINE L == Len(b)
           G == [i \in 1 .. L |-> [t \in Bytes |-> IF b[i] = "L" THEN t ELSE Append(t, b[i])]]
           Read[i \in 0 .. L] ==
             IF i = 0 THEN <<>> ELSE IF b[i] = "L" THEN Read[i - 1] ELSE Append(Read[i - 1], b[i])
<1>1. L \in Nat /\ \A i \in 1 .. L : b[i] \in Letters
  BY DEF Bytes
<1>2. Chars(b) = Read[L]
  BY DEF Chars
<1> HIDE DEF L
<1>3. G \in [1 .. L -> [Bytes -> Bytes]] /\ <<>> \in Bytes
  <2>1. ASSUME NEW i \in 1 .. L, NEW t \in Bytes PROVE Append(t, b[i]) \in Bytes
    BY <1>1, <2>1, AppendProperties DEF Bytes
  <2>2. <<>> \in Bytes
    BY DEF Bytes
  <2> QED
    BY <2>1, <2>2
<1>4. PICK f \in [0 .. L -> Bytes] : f[0] = <<>> /\ \A k \in 1 .. L : f[k] = G[k][f[k - 1]]
  <2> DEFINE X == Bytes
             z == <<>>
  <2>1. G \in [1 .. L -> [X -> X]] /\ z \in X /\ L \in Nat
    BY <1>1, <1>3
  <2> HIDE DEF G, X, z
  <2>2. \E f \in [0 .. L -> X] : f[0] = z /\ \A k \in 1 .. L : f[k] = G[k][f[k - 1]]
    BY <2>1, ChainExists
  <2> QED
    BY <2>2 DEF X, z
<1>5. \A i \in 1 .. L : f[i] = IF b[i] = "L" THEN f[i - 1] ELSE Append(f[i - 1], b[i])
  <2> TAKE i \in 1 .. L
  <2>1. f[i - 1] \in Bytes
    BY <1>1, <1>4
  <2> QED
    BY <1>4, <2>1
<1> HIDE DEF G
<1>6. f = [i \in 0 .. L |-> IF i = 0 THEN <<>> ELSE IF b[i] = "L" THEN f[i - 1] ELSE Append(f[i - 1], b[i])]
  <2>1. ASSUME NEW i \in 0 .. L
        PROVE  f[i] = IF i = 0 THEN <<>> ELSE IF b[i] = "L" THEN f[i - 1] ELSE Append(f[i - 1], b[i])
    <3>1. i = 0 \/ i \in 1 .. L
      BY <1>1
    <3> QED
      BY <1>4, <1>5, <3>1
  <2>2. DOMAIN f = 0 .. L /\ f = [i \in 0 .. L |-> f[i]]
    BY <1>4
  <2> QED
    BY <2>1, <2>2
<1>7. Read = [i \in 0 .. L |-> IF i = 0 THEN <<>> ELSE IF b[i] = "L" THEN Read[i - 1] ELSE Append(Read[i - 1], b[i])]
  <2>1. \E g : g = [i \in 0 .. L |-> IF i = 0 THEN <<>> ELSE IF b[i] = "L" THEN g[i - 1] ELSE Append(g[i - 1], b[i])]
    BY <1>6
  <2> QED
    BY <2>1 DEF Read
<1> HIDE DEF Read
<1>8. \A i \in 0 .. L : Read[i] = f[i]
  <2> DEFINE D == {i \in 0 .. L : Read[i] # f[i]}
  <2>1. D = {}
    <3> SUFFICES ASSUME D # {} PROVE FALSE
      OBVIOUS
    <3>1. PICK m \in D : \A k \in D : m <= k
      <4>1. D \in SUBSET Nat
        OBVIOUS
      <4> HIDE DEF D
      <4> QED
        BY <4>1, LeastNat
    <3>2. m \in 1 .. L /\ m - 1 \in 0 .. L /\ ~(m <= m - 1)
      BY <1>1, <1>4, <1>7, <3>1
    <3>3. Read[m - 1] = f[m - 1]
      BY <3>1, <3>2
    <3>4. Read[m] = IF b[m] = "L" THEN Read[m - 1] ELSE Append(Read[m - 1], b[m])
      <4>1. m \in 0 .. L /\ m # 0
        BY <3>2
      <4> QED
        BY <1>7, <4>1
    <3> QED
      BY <1>5, <3>1, <3>2, <3>3, <3>4
  <2> QED
    BY <2>1
<1>9. L \in 0 .. L
  BY <1>1
<1> QED
  BY <1>2, <1>4, <1>5, <1>8, <1>9 DEF L

\* The text of bytes is a text.
LEMMA CharsIsText ==
  ASSUME NEW b \in Bytes
  PROVE  Chars(b) \in Bytes
<1>1. PICK f \in [0 .. Len(b) -> Bytes] : Chars(b) = f[Len(b)]
  BY CharsReads
<1>2. Len(b) \in 0 .. Len(b)
  BY DEF Bytes
<1> QED
  BY <1>1, <1>2

\* Each letter but "L" is one of the text.
LEMMA CharsEmpty == Chars(<<>>) = <<>>
<1>1. <<>> \in Bytes /\ Len(<<>>) = 0
  BY DEF Bytes
<1> QED
  BY <1>1, CharsReads

\* One byte more: a letter more of the text, unless it is the first of a character.
LEMMA CharsAppend ==
  ASSUME NEW b \in Bytes, NEW x \in Letters
  PROVE  /\ Chars(b) \in Bytes
         /\ Chars(Append(b, x)) = IF x = "L" THEN Chars(b) ELSE Append(Chars(b), x)
<1> DEFINE c == Append(b, x)
           m == Len(b)
<1>1. m \in Nat /\ c \in Bytes /\ Len(c) = m + 1 /\ c[m + 1] = x /\ \A i \in 1 .. m : c[i] = b[i]
  <2>1. b \in Seq(Letters)
    BY DEF Bytes
  <2> QED
    BY <2>1, LenProperties, AppendProperties DEF Bytes
<1> HIDE DEF c, m
<1>2. PICK f \in [0 .. m -> Bytes] :
           /\ Chars(b) = f[m]
           /\ f[0] = <<>>
           /\ \A i \in 1 .. m : f[i] = IF b[i] = "L" THEN f[i - 1] ELSE Append(f[i - 1], b[i])
  BY CharsReads DEF m
<1>3. PICK g \in [0 .. m + 1 -> Bytes] :
           /\ Chars(c) = g[m + 1]
           /\ g[0] = <<>>
           /\ \A i \in 1 .. m + 1 : g[i] = IF c[i] = "L" THEN g[i - 1] ELSE Append(g[i - 1], c[i])
  <2>1. \E g \in [0 .. Len(c) -> Bytes] :
           /\ Chars(c) = g[Len(c)]
           /\ g[0] = <<>>
           /\ \A i \in 1 .. Len(c) : g[i] = IF c[i] = "L" THEN g[i - 1] ELSE Append(g[i - 1], c[i])
    BY <1>1, CharsReads
  <2> QED
    BY <1>1, <2>1
<1>4. \A i \in 0 .. m : f[i] = g[i]
  <2> DEFINE D == {i \in 0 .. m : f[i] # g[i]}
  <2>1. D = {}
    <3> SUFFICES ASSUME D # {} PROVE FALSE
      OBVIOUS
    <3>1. PICK k \in D : \A j \in D : k <= j
      <4>1. D \in SUBSET Nat
        BY <1>1
      <4> HIDE DEF D
      <4> QED
        BY <4>1, LeastNat
    <3>2. k \in 1 .. m /\ k \in 1 .. m + 1 /\ k - 1 \in 0 .. m /\ ~(k <= k - 1)
      BY <1>1, <1>2, <1>3, <3>1
    <3>3. f[k - 1] = g[k - 1]
      BY <3>1, <3>2
    <3> QED
      BY <1>1, <1>2, <1>3, <3>1, <3>2, <3>3
  <2> QED
    BY <2>1
<1>5. m \in 0 .. m /\ m + 1 \in 1 .. m + 1 /\ (m + 1) - 1 = m
  BY <1>1
<1>6. g[m + 1] = IF x = "L" THEN g[m] ELSE Append(g[m], x)
  BY <1>1, <1>3, <1>5
<1> QED
  BY <1>2, <1>3, <1>4, <1>5, <1>6 DEF c

\* The text of one piece and another.
LEMMA CharsCat ==
  ASSUME NEW a \in Bytes, NEW b \in Bytes
  PROVE  Chars(a \o b) = Chars(a) \o Chars(b)
<1> DEFINE m == Len(b)
           Cut(k) == SubSeq(b, 1, k)
           D == {k \in 0 .. m : Chars(a \o Cut(k)) # Chars(a) \o Chars(Cut(k))}
<1>1. m \in Nat /\ Cut(m) = b /\ Cut(0) = <<>> /\ \A k \in 0 .. m : Cut(k) \in Bytes
  BY DEF Bytes
<1>2. D = {}
  <2> SUFFICES ASSUME D # {} PROVE FALSE
    OBVIOUS
  <2>1. PICK k \in D : \A j \in D : k <= j
    <3>1. D \in SUBSET Nat
      OBVIOUS
    <3> HIDE DEF D
    <3> QED
      BY <3>1, LeastNat
  <2>2. Chars(a) \in Bytes
    BY CharsIsText
  <2>3. k # 0
    <3>1. a \o <<>> = a /\ Chars(a) \o <<>> = Chars(a)
      BY <2>2 DEF Bytes
    <3> QED
      BY <1>1, <2>1, <3>1, CharsEmpty
  <2>4. k \in 1 .. m /\ k - 1 \in 0 .. m /\ ~(k <= k - 1)
    BY <2>1, <2>3
  <2> DEFINE h == Cut(k - 1)
             x == b[k]
  <2>5. h \in Bytes /\ x \in Letters /\ Cut(k) = Append(h, x)
    BY <2>4 DEF Bytes
  <2>6. Chars(a \o h) = Chars(a) \o Chars(h)
    BY <2>1, <2>4
  <2> HIDE DEF h, x, D, Cut
  <2>7. a \o h \in Bytes /\ a \o Append(h, x) = Append(a \o h, x)
    <3>1. a \in Seq(Letters) /\ h \in Seq(Letters)
      BY <2>5 DEF Bytes
    <3>2. a \o h \in Seq(Letters)
      BY <3>1, ConcatProperties
    <3>3. a \o Append(h, x) = Append(a \o h, x)
      BY <2>5, <3>1
    <3> QED
      BY <3>2, <3>3 DEF Bytes
  <2>8. Chars(a \o Cut(k)) = IF x = "L" THEN Chars(a \o h) ELSE Append(Chars(a \o h), x)
    BY <2>5, <2>7, CharsAppend
  <2>9. Chars(h) \in Bytes /\ Chars(Cut(k)) = IF x = "L" THEN Chars(h) ELSE Append(Chars(h), x)
    BY <2>5, CharsAppend
  <2>10. Chars(a) \o Append(Chars(h), x) = Append(Chars(a) \o Chars(h), x)
    BY <2>2, <2>5, <2>9 DEF Bytes
  <2>11. Chars(a \o Cut(k)) = Chars(a) \o Chars(Cut(k))
    BY <2>6, <2>8, <2>9, <2>10
  <2> QED
    BY <2>1, <2>11 DEF D
<1>3. m \in 0 .. m
  BY <1>1
<1> QED
  BY <1>1, <1>2, <1>3

-----------------------------------------------------------------------------
(* Utf8Buf.                                                                 *)

\* Alone is a byte that is part of no character.
Alone(b, i) == \/ b[i] = "L" /\ ~(i < Len(b) /\ b[i+1] = "C")
               \/ b[i] = "C" /\ ~(i > 1 /\ b[i-1] = "L")
Marked(b) == [i \in 1 .. Len(b) |-> IF Alone(b, i) THEN "?" ELSE b[i]]

\* The text of any bytes is that of the marked ones.
LEMMA LossyIs ==
  ASSUME NEW b \in Bytes
  PROVE  /\ Lossy(b) = Chars(Marked(b)) /\ Lossy(b) \in Bytes
         /\ Marked(b) \in Bytes /\ Len(Marked(b)) = Len(b) /\ Len(b) \in Nat
<1>1. Lossy(b) = Chars(Marked(b))
  BY DEF Lossy, Marked, Alone
<1>2. Len(b) \in Nat /\ \A i \in 1 .. Len(b) : b[i] \in Letters
  BY DEF Bytes
<1>3. "?" \in Letters
  BY DEF Letters
<1>4. Marked(b) \in [1 .. Len(b) -> Letters]
  BY <1>2, <1>3 DEF Marked
<1>5. Marked(b) \in Bytes /\ Len(Marked(b)) = Len(b)
  BY <1>2, <1>4, FunctionIsSeq DEF Bytes
<1> QED
  BY <1>1, <1>2, <1>5, CharsIsText

\* Two texts of one length that agree everywhere.
LEMMA SameText ==
  ASSUME NEW a \in Bytes, NEW b \in Bytes, Len(a) = Len(b), \A i \in 1 .. Len(a) : a[i] = b[i]
  PROVE  a = b
BY SeqEqual DEF Bytes

\* The parts of two texts put together.
LEMMA TwoTexts ==
  ASSUME NEW a \in Bytes, NEW b \in Bytes
  PROVE  /\ a \o b \in Bytes /\ Len(a \o b) = Len(a) + Len(b) /\ Len(a) \in Nat /\ Len(b) \in Nat
         /\ \A i \in 1 .. Len(a) : (a \o b)[i] = a[i]
         /\ \A i \in 1 .. Len(b) : (a \o b)[Len(a) + i] = b[i]
<1>1. a \in Seq(Letters) /\ b \in Seq(Letters)
  BY DEF Bytes
<1>2. Len(a) \in Nat /\ Len(b) \in Nat
  BY <1>1
<1>3. a \o b \in Seq(Letters) /\ Len(a \o b) = Len(a) + Len(b)
  BY <1>1, ConcatProperties
<1>4. \A i \in 1 .. Len(a) : (a \o b)[i] = a[i]
  BY <1>1
<1>5. \A i \in 1 .. Len(b) : (a \o b)[Len(a) + i] = b[i]
  BY <1>1
<1> QED
  BY <1>2, <1>3, <1>4, <1>5 DEF Bytes

\* Three texts put together.
LEMMA ThreeTexts ==
  ASSUME NEW a \in Bytes, NEW b \in Bytes, NEW c \in Bytes
  PROVE  (a \o b) \o c = a \o (b \o c)
<1>1. a \in Seq(Letters) /\ b \in Seq(Letters) /\ c \in Seq(Letters)
  BY DEF Bytes
<1> QED
  BY <1>1, ConcatAssociative

\* Bytes that are not cut inside a character are read one part at a time.
LEMMA LossyCat ==
  ASSUME NEW a \in Bytes, NEW b \in Bytes,
         a # <<>> /\ b # <<>> => ~(a[Len(a)] = "L" /\ b[1] = "C")
  PROVE  Lossy(a \o b) = Lossy(a) \o Lossy(b)
<1> DEFINE c == a \o b
           p == Len(a)
           q == Len(b)
<1>1. /\ c \in Bytes /\ Len(c) = p + q /\ p \in Nat /\ q \in Nat
      /\ \A i \in 1 .. p : c[i] = a[i]
      /\ \A i \in 1 .. q : c[p + i] = b[i]
  BY TwoTexts
<1>2. (p = 0 <=> a = <<>>) /\ (q = 0 <=> b = <<>>)
  BY EmptySeq DEF Bytes
<1>3. p > 0 /\ q > 0 => ~(c[p] = "L" /\ c[p + 1] = "C")
  <2> SUFFICES ASSUME p > 0, q > 0 PROVE ~(c[p] = "L" /\ c[p + 1] = "C")
    OBVIOUS
  <2>1. p \in 1 .. p /\ 1 \in 1 .. q
    BY <1>1
  <2>2. c[p] = a[p] /\ c[p + 1] = b[1]
    BY <1>1, <2>1
  <2> QED
    BY <1>2, <2>2
<1> HIDE DEF c
<1>4. ASSUME NEW i \in 1 .. p PROVE Marked(c)[i] = Marked(a)[i]
  <2>1. i \in 1 .. Len(c) /\ c[i] = a[i]
    BY <1>1
  <2>2. i < p => i + 1 \in 1 .. p /\ c[i + 1] = a[i + 1]
    BY <1>1
  <2>3. i > 1 => i - 1 \in 1 .. p /\ c[i - 1] = a[i - 1]
    BY <1>1
  <2>4. i < Len(c) /\ ~(i < p) => i = p /\ q > 0
    BY <1>1
  <2>5. Alone(c, i) <=> Alone(a, i)
    BY <1>1, <1>3, <2>1, <2>2, <2>3, <2>4 DEF Alone
  <2> QED
    BY <2>1, <2>5 DEF Marked
<1>5. ASSUME NEW i \in 1 .. q PROVE Marked(c)[p + i] = Marked(b)[i]
  <2>1. p + i \in 1 .. Len(c) /\ c[p + i] = b[i]
    BY <1>1
  <2>2. i < q => i + 1 \in 1 .. q /\ c[p + (i + 1)] = b[i + 1]
    BY <1>1
  <2>3. i > 1 => i - 1 \in 1 .. q /\ c[p + (i - 1)] = b[i - 1]
    BY <1>1
  <2>4. /\ (p + i) + 1 = p + (i + 1) /\ (p + i) - 1 = p + (i - 1)
        /\ p + i < Len(c) <=> i < q
        /\ p + i > 1 /\ ~(i > 1) => i = 1 /\ p > 0 /\ (p + i) - 1 = p /\ p + i = p + 1
    BY <1>1
  <2>5. i > 1 => p + i > 1
    BY <1>1
  <2>6. p + i < Len(c) /\ c[(p + i) + 1] = "C" <=> i < q /\ b[i + 1] = "C"
    BY <2>2, <2>4
  <2>7. CASE i > 1
    <3>1. p + i > 1 /\ c[(p + i) - 1] = b[i - 1]
      BY <2>3, <2>4, <2>5, <2>7
    <3>2. Alone(c, p + i) <=> Alone(b, i)
      BY <2>1, <2>6, <2>7, <3>1 DEF Alone
    <3> QED
      BY <2>1, <3>2 DEF Marked
  <2>8. CASE ~(i > 1)
    <3>1. i = 1
      BY <1>1, <2>8
    <3>2. c[p + i] = "C" => ~(p + i > 1 /\ c[(p + i) - 1] = "L")
      BY <1>1, <1>3, <2>4, <2>8, <3>1
    <3>3. Alone(c, p + i) <=> Alone(b, i)
      BY <2>1, <2>6, <2>8, <3>2 DEF Alone
    <3> QED
      BY <2>1, <3>3 DEF Marked
  <2> QED
    BY <2>7, <2>8
<1>6. Marked(c) = Marked(a) \o Marked(b)
  <2> DEFINE ma == Marked(a)
             mb == Marked(b)
             mc == Marked(c)
  <2>1. /\ ma \in Bytes /\ mb \in Bytes /\ mc \in Bytes
        /\ Len(ma) = p /\ Len(mb) = q /\ Len(mc) = p + q
    BY <1>1, LossyIs
  <2>2. (\A i \in 1 .. p : mc[i] = ma[i]) /\ \A i \in 1 .. q : mc[p + i] = mb[i]
    BY <1>4, <1>5
  <2> HIDE DEF ma, mb, mc
  <2>3. /\ ma \o mb \in Bytes /\ Len(ma \o mb) = p + q
        /\ \A i \in 1 .. p : (ma \o mb)[i] = ma[i]
        /\ \A i \in 1 .. q : (ma \o mb)[p + i] = mb[i]
    <3>1. /\ ma \o mb \in Bytes /\ Len(ma \o mb) = Len(ma) + Len(mb)
          /\ \A i \in 1 .. Len(ma) : (ma \o mb)[i] = ma[i]
          /\ \A i \in 1 .. Len(mb) : (ma \o mb)[Len(ma) + i] = mb[i]
      BY <2>1, TwoTexts
    <3> QED
      BY <2>1, <3>1
  <2>4. ASSUME NEW i \in 1 .. p + q PROVE mc[i] = (ma \o mb)[i]
    <3>1. CASE i \in 1 .. p
      BY <2>2, <2>3, <3>1
    <3>2. CASE i \notin 1 .. p
      <4> DEFINE j == i - p
      <4>1. j \in 1 .. q /\ i = p + j
        BY <1>1, <3>2
      <4> HIDE DEF j
      <4>2. mc[p + j] = mb[j] /\ (ma \o mb)[p + j] = mb[j]
        BY <2>2, <2>3, <4>1
      <4> QED
        BY <4>1, <4>2
    <3> QED
      BY <3>1, <3>2
  <2>5. mc = ma \o mb
    BY <2>1, <2>3, <2>4, SameText
  <2> QED
    BY <2>5 DEF ma, mb, mc
<1>7. Lossy(c) = Chars(Marked(a) \o Marked(b))
  BY <1>1, <1>6, LossyIs
<1>8. Marked(a) \in Bytes /\ Marked(b) \in Bytes /\ Lossy(a) = Chars(Marked(a)) /\ Lossy(b) = Chars(Marked(b))
  BY LossyIs
<1> QED
  BY <1>7, <1>8, CharsCat DEF c

\* Whole characters are read as they are, and do not end inside of one.
LEMMA LossyWellFormed ==
  ASSUME NEW b \in Bytes, WellFormed(b)
  PROVE  Lossy(b) = Chars(b) /\ (b # <<>> => b[Len(b)] # "L")
<1>1. Len(b) \in Nat /\ (Len(b) = 0 <=> b = <<>>)
  BY EmptySeq DEF Bytes
<1>2. \A i \in 1 .. Len(b) : ~Alone(b, i)
  BY <1>1 DEF WellFormed, Alone
<1>3. Marked(b) \in Bytes /\ Len(Marked(b)) = Len(b) /\ Lossy(b) = Chars(Marked(b))
  BY LossyIs
<1>4. \A i \in 1 .. Len(b) : Marked(b)[i] = b[i]
  BY <1>2 DEF Marked
<1>5. Marked(b) = b
  BY <1>3, <1>4, SameText
<1>6. b # <<>> => Len(b) \in 1 .. Len(b)
  BY <1>1
<1>7. b # <<>> => b[Len(b)] # "L"
  BY <1>1, <1>6 DEF WellFormed
<1> QED
  BY <1>3, <1>5, <1>7

\* A byte that is alone becomes one replacement character.
LEMMA LossyOne ==
  ASSUME NEW x \in {"C", "L"}
  PROVE  <<x>> \in Bytes /\ Lossy(<<x>>) = <<"?">>
<1>1. x \in Letters /\ "?" \in Letters
  BY DEF Letters
<1>2. <<x>> \in Bytes /\ <<"?">> \in Bytes /\ Len(<<x>>) = 1 /\ <<x>>[1] = x
  BY <1>1 DEF Bytes
<1> DEFINE b == <<x>>
<1>3. Marked(b) = <<"?">>
  <2>1. Len(<<"?">>) = 1 /\ <<"?">>[1] = "?"
    OBVIOUS
  <2>2. Alone(b, 1)
    BY <1>2 DEF Alone
  <2>3. Marked(b)[1] = "?" /\ Len(Marked(b)) = 1 /\ Marked(b) \in Bytes
    <3>1. 1 \in 1 .. Len(b)
      BY <1>2
    <3> QED
      BY <1>2, <2>2, <3>1, LossyIs DEF Marked
  <2> HIDE DEF b
  <2>4. \A i \in 1 .. Len(Marked(b)) : Marked(b)[i] = <<"?">>[i]
    BY <2>1, <2>3
  <2> QED
    BY <1>2, <2>1, <2>3, <2>4, SameText
<1>4. Chars(<<"?">>) = <<"?">>
  <2>1. <<>> \in Bytes /\ Append(<<>>, "?") = <<"?">>
    BY DEF Bytes
  <2>2. Chars(Append(<<>>, "?")) = Append(Chars(<<>>), "?")
    BY <1>1, <2>1, CharsAppend
  <2> QED
    BY <2>1, <2>2, CharsEmpty
<1> QED
  BY <1>2, <1>3, <1>4, LossyIs

\* How much of a text is whole characters, and whether its first byte is not.
Valid(r) == Max({k \in 0 .. Len(r) : WellFormed(Left(r, k))})
Broken(r) == Valid(r) = 0 /\ r # <<>> /\ r # <<"L">>

\* A text is its beginning and the rest.
LEMMA TwoParts ==
  ASSUME NEW r \in Bytes, NEW k \in 0 .. Len(r)
  PROVE  /\ Left(r, k) \in Bytes /\ Len(Left(r, k)) = k /\ \A i \in 1 .. k : Left(r, k)[i] = r[i]
         /\ From(r, k + 1) \in Bytes /\ Len(From(r, k + 1)) = Len(r) - k
         /\ \A i \in 1 .. Len(r) - k : From(r, k + 1)[i] = r[k + i]
         /\ Left(r, k) \o From(r, k + 1) = r
<1>1. r \in Seq(Letters) /\ Len(r) \in Nat /\ k \in Nat
  BY DEF Bytes
<1>2. /\ SubSeq(r, 1, k) \in Seq(Letters) /\ Len(SubSeq(r, 1, k)) = k
      /\ \A i \in 1 .. k : SubSeq(r, 1, k)[i] = r[i]
  BY <1>1
<1>3. /\ SubSeq(r, k + 1, Len(r)) \in Seq(Letters) /\ Len(SubSeq(r, k + 1, Len(r))) = Len(r) - k
      /\ \A i \in 1 .. Len(r) - k : SubSeq(r, k + 1, Len(r))[i] = r[k + i]
  BY <1>1
<1>4. SubSeq(r, 1, k) \o SubSeq(r, k + 1, Len(r)) = r
  <2>1. 1 \in 1 .. Len(r) + 1 /\ k \in 1 - 1 .. Len(r) /\ Len(r) \in k .. Len(r)
    BY <1>1
  <2>2. SubSeq(r, 1, k) \o SubSeq(r, k + 1, Len(r)) = SubSeq(r, 1, Len(r))
    BY <1>1, <2>1, ConcatAdjacentSubSeq
  <2> QED
    BY <1>1, <2>2, SubSeqFull
<1> QED
  BY <1>2, <1>3, <1>4 DEF Left, From, Bytes

\* What is left after a letter of what is left.
LEMMA FromFrom ==
  ASSUME NEW b \in Bytes, NEW i \in 1 .. Len(b)
  PROVE  From(From(b, i), 2) = From(b, i + 1)
<1>1. b \in Seq(Letters) /\ Len(b) \in Nat
  BY DEF Bytes
<1>2. From(b, i) \in Bytes /\ Len(From(b, i)) = Len(b) - (i - 1)
      /\ \A k \in 1 .. Len(b) - (i - 1) : From(b, i)[k] = b[(i - 1) + k]
  BY <1>1 DEF From, Bytes
<1> DEFINE f == From(b, i)
           g == From(f, 2)
           h == From(b, i + 1)
<1>3. f \in Bytes /\ Len(f) = Len(b) - (i - 1) /\ \A k \in 1 .. Len(f) : f[k] = b[(i - 1) + k]
  BY <1>2
<1>4. h \in Bytes /\ Len(h) = Len(b) - i /\ \A k \in 1 .. Len(h) : h[k] = b[i + k]
  BY <1>1 DEF From, Bytes
<1> HIDE DEF f, h
<1>5. g \in Bytes /\ Len(g) = Len(f) - 1 /\ \A k \in 1 .. Len(g) : g[k] = f[1 + k]
  BY <1>1, <1>3 DEF From, Bytes
<1> HIDE DEF g
<1>6. \A k \in 1 .. Len(g) : g[k] = h[k]
  <2> TAKE k \in 1 .. Len(g)
  <2>1. 1 + k \in 1 .. Len(f) /\ (i - 1) + (1 + k) = i + k /\ k \in 1 .. Len(h)
    BY <1>1, <1>3, <1>4, <1>5
  <2> QED
    BY <1>3, <1>4, <1>5, <2>1
<1>7. Len(g) = Len(h)
  BY <1>1, <1>3, <1>4, <1>5
<1> QED
  BY <1>4, <1>5, <1>6, <1>7, SameText DEF f, g, h

\* The longest beginning that is whole characters (from_utf8, valid_up_to).
LEMMA ValidIs ==
  ASSUME NEW r \in Bytes
  PROVE  /\ Valid(r) \in 0 .. Len(r) /\ WellFormed(Left(r, Valid(r)))
         /\ \A k \in 0 .. Len(r) : WellFormed(Left(r, k)) => k <= Valid(r)
<1> DEFINE T == {k \in 0 .. Len(r) : WellFormed(Left(r, k))}
<1>1. Len(r) \in Int /\ T \in SUBSET Int /\ \A x \in T : x <= Len(r)
  BY DEF Bytes
<1>2. T # {}
  <2>1. 0 \in 0 .. Len(r) /\ Left(r, 0) \in Bytes /\ Len(Left(r, 0)) = 0
    BY <1>1, TwoParts DEF Bytes
  <2>2. WellFormed(Left(r, 0))
    BY <2>1 DEF WellFormed
  <2> QED
    BY <2>1, <2>2
<1>3. Max(T) \in T /\ \A x \in T : x <= Max(T)
  <2> HIDE DEF T
  <2> QED
    BY <1>1, <1>2, MaxPicks
<1> QED
  BY <1>3 DEF Valid

\* The bytes of the characters before the first broken one are read, and the
\* rest can be read later.
LEMMA ReadValid ==
  ASSUME NEW r \in Bytes, NEW y \in Bytes
  PROVE  Lossy(r \o y) = Chars(Left(r, Valid(r))) \o Lossy(From(r, Valid(r) + 1) \o y)
<1> DEFINE v == Valid(r)
           w == Left(r, v)
           z == From(r, v + 1)
<1>1. w \in Bytes /\ z \in Bytes /\ w \o z = r /\ WellFormed(w)
  BY ValidIs, TwoParts
<1> HIDE DEF v, w, z
<1>2. z \o y \in Bytes /\ r \o y = w \o (z \o y)
  <2>1. (w \o z) \o y = w \o (z \o y)
    BY <1>1, ThreeTexts
  <2> QED
    BY <1>1, <2>1, TwoTexts
<1>3. Lossy(w) = Chars(w) /\ (w # <<>> => w[Len(w)] # "L")
  BY <1>1, LossyWellFormed
<1>4. Lossy(w \o (z \o y)) = Lossy(w) \o Lossy(z \o y)
  BY <1>1, <1>2, <1>3, LossyCat
<1> QED
  BY <1>2, <1>3, <1>4 DEF v, w, z

\* A broken first byte becomes one replacement character.
LEMMA ReadBroken ==
  ASSUME NEW r \in Bytes, Broken(r), NEW y \in Bytes
  PROVE  Lossy(r \o y) = <<"?">> \o Lossy(From(r, 2) \o y)
<1>1. /\ r # <<>> /\ r # <<"L">> /\ Len(r) \in Nat \ {0}
      /\ \A k \in 1 .. Len(r) : ~WellFormed(Left(r, k))
  <2>1. r # <<>> /\ r # <<"L">> /\ Valid(r) = 0
    BY DEF Broken
  <2>2. Len(r) \in Nat /\ Len(r) # 0
    BY <2>1, EmptySeq DEF Bytes
  <2>3. \A k \in 0 .. Len(r) : WellFormed(Left(r, k)) => k <= 0
    BY <2>1, ValidIs
  <2> QED
    BY <2>1, <2>2, <2>3
<1> DEFINE x == r[1]
           z == From(r, 2)
           h == Left(r, 1)
<1>2. /\ h \in Bytes /\ Len(h) = 1 /\ h[1] = x /\ z \in Bytes /\ Len(z) = Len(r) - 1 /\ h \o z = r
      /\ \A i \in 1 .. Len(r) - 1 : z[i] = r[1 + i]
  <2>1. 1 \in 0 .. Len(r) /\ 1 \in 1 .. 1 /\ 1 + 1 = 2
    BY <1>1
  <2>2. /\ Left(r, 1) \in Bytes /\ Len(Left(r, 1)) = 1 /\ \A i \in 1 .. 1 : Left(r, 1)[i] = r[i]
        /\ From(r, 1 + 1) \in Bytes /\ Len(From(r, 1 + 1)) = Len(r) - 1
        /\ \A i \in 1 .. Len(r) - 1 : From(r, 1 + 1)[i] = r[1 + i]
        /\ Left(r, 1) \o From(r, 1 + 1) = r
    BY <2>1, TwoParts
  <2> QED
    BY <2>1, <2>2
<1>3. x \in {"C", "L"}
  <2>1. ~WellFormed(h)
    BY <1>1
  <2> HIDE DEF h, x
  <2> QED
    BY <1>2, <2>1 DEF WellFormed
<1>4. h = <<x>>
  BY <1>2, <1>3, LossyOne, SameText
<1>5. x = "L" => z # <<>> /\ z[1] # "C"
  <2> SUFFICES ASSUME x = "L" PROVE z # <<>> /\ z[1] # "C"
    OBVIOUS
  <2>1. Len(r) # 1
    <3> SUFFICES ASSUME Len(r) = 1 PROVE FALSE
      OBVIOUS
    <3>1. <<x>> \in Bytes /\ Len(<<x>>) = 1 /\ <<x>>[1] = x
      BY <1>3, LossyOne
    <3>2. r = <<x>>
      BY <3>1, SameText
    <3> QED
      BY <1>1, <3>2
  <2>2. 2 \in 1 .. Len(r) /\ 2 \in 0 .. Len(r) /\ Len(z) > 0 /\ z[1] = r[2]
    BY <1>1, <1>2, <2>1
  <2>3. r[2] # "C"
    <3> SUFFICES ASSUME r[2] = "C" PROVE FALSE
      OBVIOUS
    <3> DEFINE g == Left(r, 2)
    <3>1. Len(g) = 2 /\ g[1] = "L" /\ g[2] = "C"
      <4>1. 1 \in 1 .. 2 /\ 2 \in 1 .. 2
        OBVIOUS
      <4> QED
        BY <2>2, <4>1, TwoParts
    <3>2. ~WellFormed(g)
      BY <1>1, <2>2
    <3> HIDE DEF g
    <3> QED
      BY <3>1, <3>2 DEF WellFormed
  <2>4. z # <<>>
    BY <1>2, <2>2, EmptySeq DEF Bytes
  <2> QED
    BY <2>2, <2>3, <2>4
<1> HIDE DEF x, z, h
<1>6. z \o y \in Bytes /\ r \o y = h \o (z \o y)
  <2>1. (h \o z) \o y = h \o (z \o y)
    BY <1>2, ThreeTexts
  <2> QED
    BY <1>2, <2>1, TwoTexts
<1>7. x = "L" => (z \o y)[1] # "C"
  <2> SUFFICES ASSUME x = "L" PROVE (z \o y)[1] # "C"
    OBVIOUS
  <2>1. Len(z) \in Nat /\ Len(z) # 0
    BY <1>2, <1>5, EmptySeq DEF Bytes
  <2>2. 1 \in 1 .. Len(z)
    BY <2>1
  <2> QED
    BY <1>2, <1>5, <2>2, TwoTexts
<1>8. Lossy(h \o (z \o y)) = Lossy(h) \o Lossy(z \o y)
  BY <1>2, <1>6, <1>7, LossyCat
<1> QED
  BY <1>3, <1>4, <1>6, <1>8, LossyOne DEF z

\* What Utf8Buf lets go and what it waits with.
Takes == [text : Bytes, rest : Bytes]

\* The text that is certain and the bytes to wait with are, whatever bytes come
\* next, together what was there (take_valid).
LEMMA TakeValidIs ==
  ASSUME NEW b \in Bytes
  PROVE  /\ TakeValid(b) \in Takes
         /\ \A y \in Bytes : Lossy(b \o y) = TakeValid(b).text \o Lossy(TakeValid(b).rest \o y)
<1> DEFINE L == Len(b)
           r(i) == From(b, i)
           now(i) == [text |-> Chars(Left(r(i), Valid(r(i)))), rest |-> From(r(i), Valid(r(i)) + 1)]
           Take[i \in 1 .. L + 1] ==
             IF Broken(r(i)) THEN [Take[i + 1] EXCEPT !.text = <<"?">> \o @] ELSE now(i)
           stop == [j \in 0 .. L |-> ~Broken(r(j + 1))]
           last == [j \in 0 .. L |-> now(j + 1)]
           to == [j \in 0 .. L |-> j + 1]
           G == [j \in 0 .. L |-> [t \in Takes |-> [t EXCEPT !.text = <<"?">> \o @]]]
<1>1. TakeValid(b) = Take[1]
  BY DEF TakeValid, Broken, Valid
<1>2. L \in Nat
  BY DEF Bytes
<1>3. \A i \in 1 .. L + 1 : r(i) \in Bytes /\ now(i) \in Takes
  <2> TAKE i \in 1 .. L + 1
  <2>1. r(i) \in Bytes
    <3> DEFINE k == i - 1
    <3>1. k \in 0 .. Len(b) /\ i = k + 1
      BY <1>2
    <3> HIDE DEF k
    <3> QED
      BY <3>1, TwoParts
  <2> DEFINE q == r(i)
             v == Valid(q)
  <2>2. v \in 0 .. Len(q)
    BY <2>1, ValidIs
  <2> HIDE DEF q, v
  <2>3. Left(q, v) \in Bytes /\ From(q, v + 1) \in Bytes
    BY <2>1, <2>2, TwoParts DEF q
  <2>4. Chars(Left(q, v)) \in Bytes
    BY <2>3, CharsIsText
  <2> QED
    BY <2>1, <2>3, <2>4 DEF q, v, Takes
<1>4. ~Broken(r(L + 1))
  <2>1. From(b, L + 1) = <<>>
    <3>1. L \in 0 .. Len(b)
      BY <1>2
    <3>2. From(b, L + 1) \in Bytes /\ Len(From(b, L + 1)) = L - L
      BY <3>1, TwoParts
    <3> QED
      BY <1>2, <3>2, EmptySeq DEF Bytes
  <2> QED
    BY <2>1 DEF Broken
<1>5. <<"?">> \in Bytes /\ \A t \in Bytes : <<"?">> \o t \in Bytes
  <2>1. <<"?">> \in Bytes
    BY DEF Bytes, Letters
  <2> QED
    BY <2>1, TwoTexts
<1>6. \A t \in Takes : [t EXCEPT !.text = <<"?">> \o @] = [text |-> <<"?">> \o t.text, rest |-> t.rest]
                       /\ [t EXCEPT !.text = <<"?">> \o @] \in Takes
  <2> TAKE t \in Takes
  <2> DEFINE a == <<"?">> \o t.text
  <2>1. t = [text |-> t.text, rest |-> t.rest] /\ t.text \in Bytes /\ t.rest \in Bytes
    BY DEF Takes
  <2>2. a \in Bytes
    BY <1>5, <2>1
  <2>3. [t EXCEPT !.text = <<"?">> \o @] = [t EXCEPT !.text = a]
    OBVIOUS
  <2> HIDE DEF a
  <2>4. [t EXCEPT !.text = a] = [text |-> a, rest |-> t.rest]
    BY <2>1
  <2>5. [text |-> a, rest |-> t.rest] \in Takes
    BY <2>1, <2>2 DEF Takes
  <2> QED
    BY <2>3, <2>4, <2>5 DEF a
<1> HIDE DEF r, now
<1>7. G \in [0 .. L -> [Takes -> Takes]]
  BY <1>6
<1>8. PICK f \in [0 .. L -> Takes] : IsJump(f, L, stop, last, to, G)
  <2> DEFINE X == Takes
             top == L
  <2>1. \A i \in 0 .. top : IF stop[i] THEN last[i] \in X ELSE to[i] \in i + 1 .. top
    <3> TAKE i \in 0 .. top
    <3>1. i + 1 \in 1 .. L + 1
      BY <1>2
    <3>2. i = L => stop[i]
      BY <1>4
    <3>3. stop[i] => last[i] \in X
      BY <1>3, <3>1
    <3>4. ~stop[i] => to[i] \in i + 1 .. top
      BY <1>2, <3>2
    <3> QED
      BY <3>3, <3>4
  <2>2. G \in [0 .. top -> [X -> X]] /\ top \in Nat
    BY <1>2, <1>7
  <2> HIDE DEF X, top, stop, last, to, G
  <2>3. \E f \in [0 .. top -> X] : IsJump(f, top, stop, last, to, G)
    BY <2>1, <2>2, JumpExists
  <2> QED
    BY <2>3 DEF X, top
<1>9. \A j \in 0 .. L : f[j] = IF Broken(r(j + 1)) THEN [f[j + 1] EXCEPT !.text = <<"?">> \o @] ELSE now(j + 1)
  <2> TAKE j \in 0 .. L
  <2>1. f[j] = IF stop[j] THEN last[j] ELSE G[j][f[to[j]]]
    <3> HIDE DEF stop, last, to, G
    <3> QED
      BY <1>8 DEF IsJump
  <2>2. Broken(r(j + 1)) => j + 1 \in 0 .. L
    <3>1. j = L => ~Broken(r(j + 1))
      BY <1>4
    <3> QED
      BY <1>2, <3>1
  <2>3. Broken(r(j + 1)) => f[j + 1] \in Takes
    BY <1>8, <2>2
  <2> QED
    BY <2>1, <2>3
<1> HIDE DEF stop, last, to, G
<1> DEFINE g == [i \in 1 .. L + 1 |-> f[i - 1]]
<1>10. g = [i \in 1 .. L + 1 |-> IF Broken(r(i)) THEN [g[i + 1] EXCEPT !.text = <<"?">> \o @] ELSE now(i)]
  <2>1. ASSUME NEW i \in 1 .. L + 1
        PROVE  g[i] = IF Broken(r(i)) THEN [g[i + 1] EXCEPT !.text = <<"?">> \o @] ELSE now(i)
    <3> DEFINE j == i - 1
    <3>1. j \in 0 .. L /\ i = j + 1 /\ g[i] = f[j]
      BY <1>2
    <3>2. Broken(r(i)) => i + 1 \in 1 .. L + 1 /\ g[i + 1] = f[i]
      <4>1. i = L + 1 => ~Broken(r(i))
        BY <1>4
      <4>2. i # L + 1 => i + 1 \in 1 .. L + 1 /\ (i + 1) - 1 = i
        BY <1>2
      <4> QED
        BY <4>1, <4>2
    <3> HIDE DEF j, g
    <3>3. f[j] = IF Broken(r(j + 1)) THEN [f[j + 1] EXCEPT !.text = <<"?">> \o @] ELSE now(j + 1)
      BY <1>9, <3>1
    <3> QED
      BY <3>1, <3>2, <3>3
  <2>2. g = [i \in 1 .. L + 1 |-> g[i]]
    OBVIOUS
  <2> HIDE DEF g
  <2> QED
    BY <2>1, <2>2
<1>11. Take = [i \in 1 .. L + 1 |-> IF Broken(r(i)) THEN [Take[i + 1] EXCEPT !.text = <<"?">> \o @] ELSE now(i)]
  <2>1. \E h : h = [i \in 1 .. L + 1 |-> IF Broken(r(i)) THEN [h[i + 1] EXCEPT !.text = <<"?">> \o @] ELSE now(i)]
    <3> HIDE DEF g
    <3> QED
      BY <1>10
  <2> QED
    BY <2>1 DEF Take
<1> HIDE DEF Take, g
<1> DEFINE Good(i) == /\ Take[i] \in Takes
                      /\ \A y \in Bytes : Lossy(r(i) \o y) = Take[i].text \o Lossy(Take[i].rest \o y)
<1>12. ASSUME NEW i \in 1 .. L + 1, Broken(r(i)) => i + 1 \in 1 .. L + 1 /\ Good(i + 1) PROVE Good(i)
  <2>1. Take[i] = IF Broken(r(i)) THEN [Take[i + 1] EXCEPT !.text = <<"?">> \o @] ELSE now(i)
    BY <1>11
  <2>2. CASE Broken(r(i))
    <3>1. Take[i + 1] \in Takes
      BY <1>12, <2>2
    <3>2. Take[i].text = <<"?">> \o Take[i + 1].text /\ Take[i].rest = Take[i + 1].rest /\ Take[i] \in Takes
      BY <1>6, <2>1, <2>2, <3>1
    <3>3. Take[i + 1].text \in Bytes /\ Take[i + 1].rest \in Bytes
      BY <3>1 DEF Takes
    <3>4. ASSUME NEW y \in Bytes PROVE Lossy(r(i) \o y) = Take[i].text \o Lossy(Take[i].rest \o y)
      <4>1. Lossy(r(i) \o y) = <<"?">> \o Lossy(From(r(i), 2) \o y)
        BY <1>3, <2>2, ReadBroken
      <4>2. From(r(i), 2) = r(i + 1)
        BY <1>2, <1>12, <2>2, FromFrom DEF r
      <4>3. Lossy(r(i + 1) \o y) = Take[i + 1].text \o Lossy(Take[i + 1].rest \o y)
        BY <1>12, <2>2
      <4>4. Lossy(Take[i + 1].rest \o y) \in Bytes
        BY <3>3, TwoTexts, LossyIs
      <4>5. <<"?">> \o (Take[i + 1].text \o Lossy(Take[i + 1].rest \o y))
              = (<<"?">> \o Take[i + 1].text) \o Lossy(Take[i + 1].rest \o y)
        <5> DEFINE p == <<"?">>
                   q == Take[i + 1].text
                   s == Lossy(Take[i + 1].rest \o y)
        <5>1. p \in Bytes /\ q \in Bytes /\ s \in Bytes
          BY <1>5, <3>3, <4>4
        <5> HIDE DEF p, q, s
        <5>2. (p \o q) \o s = p \o (q \o s)
          BY <5>1, ThreeTexts
        <5> QED
          BY <5>2 DEF p, q, s
      <4> QED
        BY <3>2, <4>1, <4>2, <4>3, <4>5
    <3> QED
      BY <3>2, <3>4
  <2>3. CASE ~Broken(r(i))
    <3>1. Take[i] = now(i) /\ Take[i] \in Takes
      BY <1>3, <2>1, <2>3
    <3>2. \A y \in Bytes : Lossy(r(i) \o y) = Take[i].text \o Lossy(Take[i].rest \o y)
      <4> TAKE y \in Bytes
      <4>1. Lossy(r(i) \o y) = Chars(Left(r(i), Valid(r(i)))) \o Lossy(From(r(i), Valid(r(i)) + 1) \o y)
        BY <1>3, ReadValid
      <4> QED
        BY <3>1, <4>1 DEF now
    <3> QED
      BY <3>1, <3>2
  <2> QED
    BY <2>2, <2>3
<1> HIDE DEF Good
<1>13. \A i \in 1 .. L + 1 : Good(i)
  <2> DEFINE D == {j \in 0 .. L : ~Good(L + 1 - j)}
  <2>1. D = {}
    <3> SUFFICES ASSUME D # {} PROVE FALSE
      OBVIOUS
    <3>1. PICK j \in D : \A k \in D : j <= k
      <4>1. D \in SUBSET Nat
        BY <1>2
      <4> HIDE DEF D
      <4> QED
        BY <4>1, LeastNat
    <3> DEFINE i == L + 1 - j
    <3>2. i \in 1 .. L + 1 /\ ~Good(i) /\ j \in 0 .. L
      BY <1>2, <3>1
    <3>3. Broken(r(i)) => j # 0
      BY <1>2, <1>4, <3>2
    <3>4. j # 0 => j - 1 \in 0 .. L /\ ~(j <= j - 1) /\ L + 1 - (j - 1) = i + 1 /\ i + 1 \in 1 .. L + 1
      BY <1>2, <3>2
    <3>5. j # 0 => Good(L + 1 - (j - 1))
      BY <3>1, <3>4
    <3> HIDE DEF i, D
    <3> QED
      BY <1>12, <3>2, <3>3, <3>4, <3>5
  <2>2. ASSUME NEW i \in 1 .. L + 1 PROVE Good(i)
    <3> DEFINE j == L + 1 - i
    <3>1. j \in 0 .. L /\ L + 1 - j = i
      BY <1>2
    <3>2. Good(L + 1 - j)
      BY <2>1, <3>1
    <3> QED
      BY <3>1, <3>2
  <2> QED
    BY <2>2
<1>14. 1 \in 1 .. L + 1 /\ r(1) = b
  BY <1>2, SubSeqFull DEF r, From, Bytes
<1>15. Good(1)
  BY <1>13, <1>14
<1> QED
  BY <1>1, <1>14, <1>15 DEF Good

-----------------------------------------------------------------------------
(* stop_cut_len.                                                            *)

\* Where nothing is cut no stop string occurs, and a cut is within the piece.
LEMMA CutIs ==
  ASSUME NEW stops, NEW t \in Bytes, NEW m \in 0 .. Len(t)
  PROVE  /\ StopCutLen(stops, t, m) = {} => \A s \in stops : Places(t, s) = {}
         /\ \A k \in StopCutLen(stops, t, m) : k \in 0 .. m
<1> DEFINE seen == {s \in stops : Places(t, s) # {}}
           ends == {Max(Places(t, s)) : s \in seen}
           start == Len(t) - m
<1>1. Len(t) \in Nat /\ m \in Nat /\ start \in Nat
  BY DEF Bytes
<1>2. \A s : Places(t, s) \subseteq 1 .. Len(t)
  BY DEF Places
<1>3. ends \subseteq 1 .. Len(t)
  <2> SUFFICES ASSUME NEW s \in seen PROVE Max(Places(t, s)) \in 1 .. Len(t)
    OBVIOUS
  <2> DEFINE P == Places(t, s)
             L == Len(t)
  <2>1. P # {} /\ P \in SUBSET (1 .. L) /\ L \in Nat
    BY <1>1, <1>2
  <2> HIDE DEF P, L
  <2>2. Max(P) \in 1 .. L
    BY <2>1, MaxUpTo
  <2> QED
    BY <2>2 DEF P, L
<1>4. StopCutLen(stops, t, m) =
        IF ends = {} THEN {} ELSE {IF Min(ends) - 1 <= start THEN 0 ELSE Min(ends) - 1 - start}
  BY DEF StopCutLen
<1>5. ends # {} => Min(ends) \in 1 .. Len(t)
  <2> SUFFICES ASSUME ends # {} PROVE Min(ends) \in ends
    BY <1>3
  <2>1. ends \in SUBSET Nat
    BY <1>3
  <2> HIDE DEF ends
  <2> QED
    BY <2>1, MinPicks
<1>6. ends = {} => \A s \in stops : Places(t, s) = {}
  OBVIOUS
<1> HIDE DEF ends
<1>7. ASSUME NEW k \in StopCutLen(stops, t, m) PROVE k \in 0 .. m
  <2>1. ends # {} /\ k = IF Min(ends) - 1 <= start THEN 0 ELSE Min(ends) - 1 - start
    BY <1>4
  <2> QED
    BY <1>1, <1>5, <2>1
<1> QED
  BY <1>4, <1>6, <1>7

-----------------------------------------------------------------------------
(* The invariant.                                                           *)

\* What is forced on a generation is there to be forced.
IsThink(t) == \E b, c, h : \E k \in 0 .. Len(Closing) :
                t = [inThink |-> b, n |-> c, at |-> k, hold |-> h]
IsDsml(d) == \E a : \E k \in 0 .. Len(Naming) : d = [acc |-> a, at |-> k]
ForcesThere == IsThink(think) /\ IsDsml(dsml)

\* Of the bytes pushed, those that are not sent wait in the buffer; and what is
\* searched for stop strings is what was sent.
SentInv ==
  /\ finish \in {"none", "failed"} =>
       \A y \in Bytes : Lossy(heard \o y) = sent \o Lossy(utf8 \o y)
  /\ finish = "none" /\ gen.stops # {} => acc = sent
  /\ finish = "length" => sent = Lossy(heard) /\ utf8 = <<>>
  /\ finish = "stop" => \E y \in Bytes : Lossy(heard) = sent \o y

TextInv ==
  /\ gen \in Generations /\ finish \in {"none", "length", "stop", "failed"}
  /\ rows \in Seq(Bytes \cup {EOG}) /\ (finish # "none" => rows = <<>>)
  /\ heard \in Bytes /\ sent \in Bytes /\ utf8 \in Bytes /\ acc \in Bytes
  /\ ForcesThere /\ SentInv /\ StopIsTheEnd

\* Tokens are texts.
LEMMA TokensAreTexts ==
  ASSUME gen \in Generations
  PROVE  /\ gen.tokens \subseteq Bytes /\ gen.rows \in Nat
         /\ Closing \in Seq(Bytes) /\ Len(Closing) \in Nat \ {0}
         /\ Naming \in Seq(Bytes) /\ Len(Naming) \in Nat \ {0}
<1> DEFINE W == Seq(STRING)
<1>1. W \subseteq Bytes
  <2>1. STRING \subseteq Letters
    BY DEF Letters
  <2> QED
    BY <2>1, SeqMonotonic DEF Bytes
<1>2. gen.tokens \subseteq W /\ gen.rows \in Nat
  BY TextAssumption
<1>3. Closing \in Seq(W) /\ Naming \in Seq(W) /\ Closing # <<>> /\ Naming # <<>>
  BY TextAssumption
<1> HIDE DEF W
<1>4. Seq(W) \subseteq Seq(Bytes)
  BY <1>1, SeqMonotonic
<1>5. /\ Len(Closing) \in Nat /\ Len(Closing) # 0
      /\ Len(Naming) \in Nat /\ Len(Naming) # 0
  BY <1>3, EmptySeq
<1> QED
  BY <1>1, <1>2, <1>3, <1>4, <1>5

\* The empty text.
LEMMA NoText ==
  /\ <<>> \in Bytes /\ Lossy(<<>>) = <<>>
  /\ \A t \in Bytes : t \o <<>> = t /\ <<>> \o t = t
<1>1. <<>> \in Bytes /\ \A i \in 1 .. Len(<<>>) : FALSE
  BY DEF Bytes
<1>2. WellFormed(<<>>)
  BY <1>1 DEF WellFormed
<1>3. Lossy(<<>>) = <<>>
  BY <1>1, <1>2, LossyWellFormed, CharsEmpty
<1>4. \A t \in Bytes : t \o <<>> = t /\ <<>> \o t = t
  BY ConcatEmptySeq DEF Bytes
<1> QED
  BY <1>1, <1>3, <1>4

\* A generation starts with nothing pushed, sent or waiting.
LEMMA TextInvInit == TextInit => TextInv
<1> SUFFICES ASSUME TextInit PROVE TextInv
  OBVIOUS
<1>1. /\ gen \in Generations /\ finish = "none" /\ rows = <<>>
      /\ heard = <<>> /\ sent = <<>> /\ utf8 = <<>> /\ acc = <<>>
      /\ think = [inThink |-> gen.starts, n |-> 0, at |-> 0, hold |-> <<>>]
      /\ dsml = [acc |-> <<>>, at |-> 0]
  BY DEF TextInit
<1>2. ForcesThere
  <2>1. 0 \in 0 .. Len(Closing) /\ 0 \in 0 .. Len(Naming)
    BY <1>1, TokensAreTexts
  <2> QED
    BY <1>1, <2>1 DEF ForcesThere, IsThink, IsDsml
<1>3. SentInv
  <2>1. \A y \in Bytes : Lossy(<<>> \o y) = <<>> \o Lossy(<<>> \o y)
    BY NoText, LossyIs
  <2> QED
    BY <1>1, <2>1 DEF SentInv
<1>4. StopIsTheEnd
  BY <1>1 DEF StopIsTheEnd, Places
<1>5. rows \in Seq(Bytes \cup {EOG})
  BY <1>1
<1> QED
  BY <1>1, <1>2, <1>3, <1>4, <1>5, NoText DEF TextInv

\* What is forced next is there as well.
LEMMA MaybeIs ==
  ASSUME NEW t, IsThink(t), Len(Closing) \in Nat \ {0}
  PROVE  IsThink(MaybeEndOrForce(t))
<1>1. PICK b, c, h : \E k \in 0 .. Len(Closing) : t = [inThink |-> b, n |-> c, at |-> k, hold |-> h]
  BY DEF IsThink
<1>2. PICK k \in 0 .. Len(Closing) : t = [inThink |-> b, n |-> c, at |-> k, hold |-> h]
  BY <1>1
<1> DEFINE x == From(h, Len(h) - SuffixThatIsTagPrefix(h, Ends("think")) + 1)
           i == IF c >= gen.limit THEN 1 ELSE k
<1>3. MaybeEndOrForce(t) = IF NextPhaseMarker(h, "think") # {}
                           THEN [inThink |-> FALSE, n |-> c, at |-> 0, hold |-> <<>>]
                           ELSE [inThink |-> b, n |-> c, at |-> i, hold |-> x]
  <2>1. t.hold = h /\ t.n = c /\ t.at = k /\ t.inThink = b
    BY <1>2
  <2> QED
    BY <2>1 DEF MaybeEndOrForce
<1>4. i \in 0 .. Len(Closing) /\ 0 \in 0 .. Len(Closing)
  OBVIOUS
<1> HIDE DEF x, i
<1> QED
  BY <1>3, <1>4 DEF IsThink

\* What is forced on the thinking of a generation stays there to be forced (ThinkBudget).
LEMMA ThinkIs ==
  ASSUME TextInv, NEW p
  PROVE  IsThink(ThinkOnEmit(think, p))
<1>1. Len(Closing) \in Nat \ {0}
  BY TokensAreTexts DEF TextInv
<1>2. PICK b, c, h : \E k \in 0 .. Len(Closing) : think = [inThink |-> b, n |-> c, at |-> k, hold |-> h]
  BY DEF TextInv, ForcesThere, IsThink
<1>3. PICK k \in 0 .. Len(Closing) : think = [inThink |-> b, n |-> c, at |-> k, hold |-> h]
  BY <1>2
<1> DEFINE held == h \o p
           u == [inThink |-> TRUE, n |-> c + 1, at |-> 0, hold |-> held]
           w == [inThink |-> TRUE, n |-> 0, at |-> 0, hold |-> From(held, Min(Places(held, OPEN)) + Len(OPEN))]
           x == From(held, Len(held) - SuffixThatIsTagPrefix(held, {OPEN}) + 1)
           e == [think EXCEPT !.hold = x]
           z == [inThink |-> FALSE, n |-> c, at |-> 0, hold |-> <<>>]
           f == [think EXCEPT !.at = @ + 1]
<1>4. think.hold = h /\ think.n = c /\ think.at = k /\ think.inThink = b
  BY <1>3
<1>5. ThinkOnEmit(think, p) =
        IF gen.limit = 0 THEN think
        ELSE IF k > 0 THEN IF k = Len(Closing) THEN z ELSE f
        ELSE IF b THEN MaybeEndOrForce(u)
        ELSE IF Places(held, OPEN) # {} THEN MaybeEndOrForce(w) ELSE e
  BY <1>4 DEF ThinkOnEmit
<1> HIDE DEF x
<1>6. /\ e = [inThink |-> b, n |-> c, at |-> k, hold |-> x]
      /\ f = [inThink |-> b, n |-> c, at |-> k + 1, hold |-> h]
  BY <1>3
<1>7. 0 \in 0 .. Len(Closing) /\ (k + 1 \in 0 .. Len(Closing) \/ k = Len(Closing))
  BY <1>1
<1> HIDE DEF e, f
<1>8. IsThink(u) /\ IsThink(w) /\ IsThink(e) /\ IsThink(z) /\ IsThink(think)
  <2> HIDE DEF held
  <2> QED
    BY <1>3, <1>6, <1>7 DEF IsThink
<1>9. k # Len(Closing) => IsThink(f)
  BY <1>6, <1>7 DEF IsThink
<1> HIDE DEF u, w, z, held
<1>10. IsThink(MaybeEndOrForce(u)) /\ IsThink(MaybeEndOrForce(w))
  BY <1>1, <1>8, MaybeIs
<1> QED
  BY <1>5, <1>8, <1>9, <1>10

\* What is forced on a tool call stays there to be forced (DsmlFix).
LEMMA DsmlIs ==
  ASSUME TextInv, NEW p
  PROVE  IsDsml(DsmlOnEmit(dsml, p))
<1>1. Len(Naming) \in Nat \ {0}
  BY TokensAreTexts DEF TextInv
<1>2. PICK a : \E k \in 0 .. Len(Naming) : dsml = [acc |-> a, at |-> k]
  BY DEF TextInv, ForcesThere, IsDsml
<1>3. PICK k \in 0 .. Len(Naming) : dsml = [acc |-> a, at |-> k]
  BY <1>2
<1> DEFINE i == IF k > 0 THEN (IF k = Len(Naming) THEN 0 ELSE k + 1)
                ELSE IF IsSuffix(Invoke, a \o p) THEN 1 ELSE 0
<1>4. DsmlOnEmit(dsml, p) = IF ~gen.guard THEN dsml ELSE [acc |-> a \o p, at |-> i]
  BY <1>3 DEF DsmlOnEmit
<1>5. i \in 0 .. Len(Naming)
  BY <1>1
<1> HIDE DEF i
<1> QED
  BY <1>3, <1>4, <1>5 DEF IsDsml

\* Bytes taken over several decodes.
LEMMA PushIs ==
  ASSUME TextInv, finish = "none", NEW h \in Bytes
  PROVE  LET taken == TakeValid(utf8 \o h)
         IN  /\ taken.text \in Bytes /\ taken.rest \in Bytes /\ heard \o h \in Bytes
             /\ \A y \in Bytes : Lossy((heard \o h) \o y) = (sent \o taken.text) \o Lossy(taken.rest \o y)
             /\ Lossy(heard \o h) = (sent \o taken.text) \o Lossy(taken.rest)
<1> DEFINE b == utf8 \o h
           taken == TakeValid(b)
           p == taken.text
           q == taken.rest
<1>1. /\ heard \in Bytes /\ sent \in Bytes /\ utf8 \in Bytes
      /\ \A y \in Bytes : Lossy(heard \o y) = sent \o Lossy(utf8 \o y)
  BY DEF TextInv, SentInv
<1>2. b \in Bytes /\ heard \o h \in Bytes
  BY <1>1, TwoTexts
<1> HIDE DEF b
<1>3. taken \in Takes /\ \A y \in Bytes : Lossy(b \o y) = p \o Lossy(q \o y)
  BY <1>2, TakeValidIs
<1>4. p \in Bytes /\ q \in Bytes
  BY <1>3 DEF Takes
<1> HIDE DEF taken, p, q
<1>5. ASSUME NEW y \in Bytes PROVE Lossy((heard \o h) \o y) = (sent \o p) \o Lossy(q \o y)
  <2>1. h \o y \in Bytes /\ Lossy(heard \o (h \o y)) = sent \o Lossy(utf8 \o (h \o y))
    BY <1>1, TwoTexts
  <2>2. (heard \o h) \o y = heard \o (h \o y) /\ b \o y = utf8 \o (h \o y)
    BY <1>1, ThreeTexts DEF b
  <2>3. Lossy(b \o y) = p \o Lossy(q \o y)
    BY <1>3
  <2>4. Lossy(q \o y) \in Bytes
    BY <1>4, TwoTexts, LossyIs
  <2>5. (sent \o p) \o Lossy(q \o y) = sent \o (p \o Lossy(q \o y))
    <3> DEFINE z == Lossy(q \o y)
    <3>1. sent \in Bytes /\ p \in Bytes /\ z \in Bytes
      BY <1>1, <1>4, <2>4
    <3> HIDE DEF z
    <3>2. (sent \o p) \o z = sent \o (p \o z)
      BY <3>1, ThreeTexts
    <3> QED
      BY <3>2 DEF z
  <2> QED
    BY <2>1, <2>2, <2>3, <2>5
<1>6. Lossy(heard \o h) = (sent \o p) \o Lossy(q)
  <2>1. Lossy((heard \o h) \o <<>>) = (sent \o p) \o Lossy(q \o <<>>)
    BY <1>5, NoText
  <2> QED
    BY <1>2, <1>4, <2>1, NoText
<1> QED
  BY <1>2, <1>4, <1>5, <1>6 DEF b, taken, p, q

\* Decoding rows keeps the invariant: the tokens to push are texts.
LEMMA DecodeRowsKeeps ==
  ASSUME TextInv, DecodeRows
  PROVE  TextInv'
<1> DEFINE choice == IF ForcedToken # {} THEN ForcedToken ELSE gen.tokens \cup {EOG}
           most == IF think.at > 0 THEN 1 ELSE gen.rows
<1>1. PICK k \in 1 .. most : rows' \in [1 .. k -> choice]
  BY DEF DecodeRows
<1>2. choice \subseteq Bytes \cup {EOG}
  <2>1. /\ gen.tokens \subseteq Bytes /\ Closing \in Seq(Bytes) /\ Naming \in Seq(Bytes)
        /\ Len(Closing) \in Nat /\ Len(Naming) \in Nat
    BY TokensAreTexts DEF TextInv
  <2>2. think.at \in 0 .. Len(Closing) /\ dsml.at \in 0 .. Len(Naming)
    BY DEF TextInv, ForcesThere, IsThink, IsDsml
  <2>3. think.at > 0 => Closing[think.at] \in Bytes
    BY <2>1, <2>2
  <2>4. dsml.at > 0 => Naming[dsml.at] \in Bytes
    BY <2>1, <2>2
  <2>5. ForcedToken \subseteq Bytes
    BY <2>3, <2>4 DEF ForcedToken
  <2> QED
    BY <2>1, <2>5
<1>3. k \in Nat
  <2>1. most \in Nat
    BY TokensAreTexts DEF TextInv
  <2> HIDE DEF most
  <2> QED
    BY <2>1
<1>4. rows' \in [1 .. k -> Bytes \cup {EOG}]
  <2> HIDE DEF choice
  <2> QED
    BY <1>1, <1>2
<1>5. rows' \in Seq(Bytes \cup {EOG})
  BY <1>3, <1>4, FunctionIsSeq
<1>6. finish = "none" /\ UNCHANGED <<gen, n, finish, utf8, acc, think, dsml, heard, sent>>
  BY DEF DecodeRows
<1> QED
  BY <1>5, <1>6 DEF TextInv, ForcesThere, SentInv, StopIsTheEnd

\* The end of a generation keeps the invariant: the rest of the buffer is lost (push_token).
LEMMA PushEogKeeps ==
  ASSUME TextInv, PushEog
  PROVE  TextInv'
<1>1. /\ finish' = "stop" /\ rows' = <<>> /\ utf8' = <<>>
      /\ UNCHANGED <<gen, acc, think, dsml, heard, sent>>
  BY DEF PushEog
<1>2. \E y \in Bytes : Lossy(heard) = sent \o y
  <2>1. CASE finish = "none"
    <3>1. /\ heard \in Bytes /\ utf8 \in Bytes /\ \A y \in Bytes : Lossy(heard \o y) = sent \o Lossy(utf8 \o y)
      BY <2>1 DEF TextInv, SentInv
    <3>2. Lossy(heard \o <<>>) = sent \o Lossy(utf8 \o <<>>)
      BY <3>1, NoText
    <3>3. Lossy(heard) = sent \o Lossy(utf8) /\ Lossy(utf8) \in Bytes
      BY <3>1, <3>2, NoText, LossyIs
    <3> QED
      BY <3>3
  <2>2. CASE finish = "length"
    BY <2>2, NoText DEF TextInv, SentInv
  <2>3. CASE finish = "stop"
    BY <2>3 DEF TextInv, SentInv
  <2>4. finish # "failed"
    BY DEF PushEog, TextInv
  <2> QED
    BY <2>1, <2>2, <2>3, <2>4 DEF TextInv
<1>3. SentInv'
  BY <1>1, <1>2 DEF SentInv
<1>4. rows' \in Seq(Bytes \cup {EOG})
  BY <1>1
<1>5. StopIsTheEnd'
  BY <1>1 DEF StopIsTheEnd
<1> QED
  BY <1>1, <1>3, <1>4, <1>5, NoText DEF TextInv, ForcesThere

\* So does a token without text, which ends it with nothing sent.
LEMMA PushFailsKeeps ==
  ASSUME TextInv, PushFails
  PROVE  TextInv'
<1>1. /\ finish' = "failed" /\ rows' = <<>> /\ rows # <<>>
      /\ UNCHANGED <<gen, utf8, acc, think, dsml, heard, sent>>
  BY DEF PushFails
<1>2. finish = "none"
  BY <1>1 DEF TextInv
<1>3. SentInv'
  BY <1>1, <1>2 DEF SentInv, TextInv
<1>4. rows' \in Seq(Bytes \cup {EOG})
  BY <1>1
<1>5. StopIsTheEnd'
  BY <1>1 DEF StopIsTheEnd
<1> QED
  BY <1>1, <1>3, <1>4, <1>5 DEF TextInv, ForcesThere

\* A pushed token keeps the invariant: what it adds is sent, cut at a stop string, or waits.
LEMMA PushTokenKeeps ==
  ASSUME TextInv, PushToken, finish = "none"
  PROVE  TextInv'
<1> DEFINE h == Head(rows)
           taken == TakeValid(utf8 \o h)
           p == taken.text
           q == taken.rest
           z == Lossy(q)
           last == n + 1 >= gen.max
           watched == gen.stops # {} /\ ~last
           text == acc \o p
           cut == IF watched THEN StopCutLen(gen.stops, text, Len(taken.text)) ELSE {}
           piece == IF last THEN taken.text \o Lossy(taken.rest)
                    ELSE IF cut # {} THEN Left(taken.text, CHOOSE k \in cut : TRUE)
                    ELSE taken.text
<1>1. /\ rows # <<>> /\ h # EOG
      /\ heard' = heard \o h /\ utf8' = IF last THEN <<>> ELSE taken.rest
      /\ acc' = IF watched THEN text ELSE acc
      /\ think' = ThinkOnEmit(think, taken.text) /\ dsml' = DsmlOnEmit(dsml, taken.text)
      /\ finish' = IF last THEN "length" ELSE IF cut # {} THEN "stop" ELSE "none"
      /\ rows' = IF finish' = "none" THEN Tail(rows) ELSE <<>>
      /\ sent' = sent \o piece /\ gen' = gen
  BY DEF PushToken, Emit
<1>2. /\ gen \in Generations /\ rows \in Seq(Bytes \cup {EOG})
      /\ heard \in Bytes /\ sent \in Bytes /\ utf8 \in Bytes /\ acc \in Bytes
      /\ gen.stops # {} => acc = sent
  BY DEF TextInv, SentInv
<1>3. h \in Bytes
  <2>1. h \in Bytes \cup {EOG}
    BY <1>1, <1>2
  <2> QED
    BY <1>1, <2>1
<1>4. rows' \in Seq(Bytes \cup {EOG})
  <2>1. Tail(rows) \in Seq(Bytes \cup {EOG})
    BY <1>1, <1>2
  <2> QED
    BY <1>1, <2>1
<1>5. /\ p \in Bytes /\ q \in Bytes /\ heard \o h \in Bytes
      /\ \A y \in Bytes : Lossy((heard \o h) \o y) = (sent \o p) \o Lossy(q \o y)
      /\ Lossy(heard \o h) = (sent \o p) \o Lossy(q)
  BY <1>3, PushIs
<1>6. text \in Bytes /\ Len(p) \in 0 .. Len(text)
  <2> HIDE DEF p
  <2>1. acc \o p \in Bytes /\ Len(acc \o p) = Len(acc) + Len(p) /\ Len(acc) \in Nat /\ Len(p) \in Nat
    BY <1>2, <1>5, TwoTexts
  <2> QED
    BY <2>1
<1>7. /\ cut = {} /\ watched => \A s \in gen.stops : Places(text, s) = {}
      /\ \A k \in cut : k \in 0 .. Len(p)
  <2>1. /\ StopCutLen(gen.stops, text, Len(p)) = {} => \A s \in gen.stops : Places(text, s) = {}
        /\ \A k \in StopCutLen(gen.stops, text, Len(p)) : k \in 0 .. Len(p)
    <3> HIDE DEF text, p
    <3> QED
      BY <1>6, CutIs
  <2> QED
    BY <2>1
<1>8. z \in Bytes /\ Lossy(heard \o h) = sent \o (p \o z) /\ p \o z \in Bytes
  <2>1. z \in Bytes
    BY <1>5, LossyIs
  <2>2. Lossy(heard \o h) = (sent \o p) \o z
    BY <1>5
  <2>3. sent \in Bytes /\ p \in Bytes
    BY <1>2, <1>5
  <2> HIDE DEF p, q, z
  <2>4. (sent \o p) \o z = sent \o (p \o z)
    BY <2>1, <2>3, ThreeTexts
  <2> QED
    BY <1>5, <2>1, <2>2, <2>4, TwoTexts
<1>9. ForcesThere'
  BY <1>1, ThinkIs, DsmlIs DEF ForcesThere
<1> HIDE DEF h, taken, p, q, z, last, text, watched
<1>10. piece \in Bytes /\ acc' \in Bytes /\ utf8' \in Bytes /\ sent' \in Bytes /\ heard' \in Bytes
       /\ (cut # {} /\ ~last => \E y \in Bytes : p = piece \o y)
  <2>1. cut # {} => (CHOOSE k \in cut : TRUE) \in 0 .. Len(p)
    <3> HIDE DEF cut
    <3> QED
      BY <1>7
  <2> DEFINE c == CHOOSE k \in cut : TRUE
  <2>2. cut # {} => Left(p, c) \in Bytes /\ From(p, c + 1) \in Bytes /\ Left(p, c) \o From(p, c + 1) = p
    <3> HIDE DEF cut, c
    <3> QED
      BY <1>5, <2>1, TwoParts DEF c
  <2> HIDE DEF cut, c
  <2>3. piece \in Bytes /\ (cut # {} /\ ~last => \E y \in Bytes : p = piece \o y)
    BY <1>5, <1>8, <2>2 DEF p, q, z, c
  <2> HIDE DEF piece
  <2> QED
    BY <1>1, <1>2, <1>5, <1>6, <2>3, NoText, TwoTexts DEF q
<1>11. CASE last
  <2>1. finish' = "length" /\ utf8' = <<>> /\ piece = p \o z
    BY <1>1, <1>11 DEF p, q, z
  <2>2. sent' = Lossy(heard')
    BY <1>1, <1>8, <2>1
  <2> HIDE DEF piece
  <2>3. SentInv' /\ StopIsTheEnd'
    BY <2>1, <2>2 DEF SentInv, StopIsTheEnd
  <2> QED
    BY <1>1, <1>2, <1>4, <1>9, <1>10, <2>1, <2>3 DEF TextInv
<1>12. CASE ~last /\ cut # {}
  <2>1. finish' = "stop"
    BY <1>1, <1>12
  <2>2. \E y \in Bytes : Lossy(heard') = sent' \o y
    <3> HIDE DEF piece
    <3>1. PICK y \in Bytes : p = piece \o y
      BY <1>10, <1>12
    <3>2. y \o z \in Bytes
      BY <1>8, TwoTexts
    <3>3. piece \in Bytes /\ z \in Bytes /\ sent \in Bytes
      BY <1>2, <1>8, <1>10
    <3>4. (piece \o y) \o z = piece \o (y \o z)
      BY <3>3, ThreeTexts
    <3>5. sent \o (piece \o (y \o z)) = (sent \o piece) \o (y \o z)
      BY <3>2, <3>3, ThreeTexts
    <3> QED
      BY <1>1, <1>8, <3>1, <3>2, <3>4, <3>5
  <2>3. SentInv' /\ StopIsTheEnd'
    BY <2>1, <2>2 DEF SentInv, StopIsTheEnd
  <2> HIDE DEF piece
  <2> QED
    BY <1>1, <1>2, <1>4, <1>9, <1>10, <2>1, <2>3 DEF TextInv
<1>13. CASE ~last /\ cut = {}
  <2>1. finish' = "none" /\ utf8' = q /\ sent' = sent \o p
    BY <1>1, <1>13 DEF p, q
  <2>2. gen.stops # {} => watched /\ acc' = text /\ text = acc \o p
    BY <1>1, <1>13 DEF watched, text, p
  <2>3. SentInv'
    <3>1. \A y \in Bytes : Lossy(heard' \o y) = sent' \o Lossy(utf8' \o y)
      BY <1>1, <1>5, <2>1
    <3>2. gen'.stops # {} => acc' = sent'
      BY <1>1, <1>2, <2>1, <2>2
    <3> QED
      BY <2>1, <3>1, <3>2 DEF SentInv
  <2>4. StopIsTheEnd'
    <3>1. \A s \in gen.stops : Places(sent', s) = {}
      BY <1>2, <1>7, <1>13, <2>1, <2>2
    <3> QED
      BY <1>1, <3>1 DEF StopIsTheEnd
  <2> HIDE DEF piece
  <2> QED
    BY <1>1, <1>2, <1>4, <1>9, <1>10, <2>1, <2>3, <2>4 DEF TextInv
<1> QED
  BY <1>11, <1>12, <1>13

\* What was sent begins the text of what was pushed.
LEMMA PrefixIs ==
  ASSUME NEW a \in Bytes, NEW y \in Bytes
  PROVE  IsPrefix(a, a \o y)
<1>1. a \in Seq(Letters) /\ y \in Seq(Letters)
  BY DEF Bytes
<1>2. Len(a) \in Nat /\ Len(y) \in Nat /\ Len(a \o y) = Len(a) + Len(y)
  BY <1>1
<1>3. SubSeq(a, 1, Len(a)) = a
  BY <1>1, SubSeqFull
<1>4. SubSeq(a \o y, 1, Len(a)) = a
  BY <1>1
<1> QED
  BY <1>2, <1>3, <1>4 DEF IsPrefix

\* Each step keeps the invariant, whatever the tokens.
THEOREM TextInvAlways == TextInit /\ [][TextNext]_textVars => []TextInv
<1>1. TextInv /\ [TextNext]_textVars => TextInv'
  <2> SUFFICES ASSUME TextInv, [TextNext]_textVars PROVE TextInv'
    OBVIOUS
  <2>1. CASE DecodeRows
    BY <2>1, DecodeRowsKeeps
  <2>2. CASE PushEog
    BY <2>2, PushEogKeeps
  <2>3. CASE PushToken
    <3>1. finish = "none"
      BY <2>3 DEF TextInv, PushToken
    <3> QED
      BY <2>3, <3>1, PushTokenKeeps
  <2>4. CASE Finished
    <3>1. UNCHANGED <<gen, rows, n, finish, utf8, acc, think, dsml, heard, sent, thought>>
      BY <2>4 DEF Finished
    <3> QED
      BY <3>1 DEF TextInv, ForcesThere, SentInv, StopIsTheEnd
  <2>5. CASE UNCHANGED textVars
    BY <2>5 DEF textVars, TextInv, ForcesThere, SentInv, StopIsTheEnd
  <2>6. CASE PushFails
    BY <2>6, PushFailsKeeps
  <2> QED
    BY <2>1, <2>2, <2>3, <2>4, <2>5, <2>6 DEF TextNext
<1> QED
  BY <1>1, TextInvInit, PTL

\* However the tokens cut the characters, the text sent is the text of all the
\* bytes; only a character the generation ends in is lost (Utf8Buf).
THEOREM TextIsWholeAlways == TextInit /\ [][TextNext]_textVars => []TextIsWhole
<1>1. TextInv => TextIsWhole
  <2> SUFFICES ASSUME TextInv PROVE TextIsWhole
    OBVIOUS
  <2>1. heard \in Bytes /\ sent \in Bytes /\ utf8 \in Bytes
    BY DEF TextInv
  <2>2. finish = "none" => sent \o Lossy(utf8) = Lossy(heard)
    <3> SUFFICES ASSUME finish = "none" PROVE sent \o Lossy(utf8) = Lossy(heard)
      OBVIOUS
    <3>1. Lossy(heard \o <<>>) = sent \o Lossy(utf8 \o <<>>)
      BY NoText DEF TextInv, SentInv
    <3> QED
      BY <2>1, <3>1, NoText
  <2>3. finish = "length" => sent \o Lossy(utf8) = Lossy(heard)
    BY <2>1, NoText DEF TextInv, SentInv
  <2>6. finish = "failed" => sent \o Lossy(utf8) = Lossy(heard)
    <3> SUFFICES ASSUME finish = "failed" PROVE sent \o Lossy(utf8) = Lossy(heard)
      OBVIOUS
    <3>1. Lossy(heard \o <<>>) = sent \o Lossy(utf8 \o <<>>)
      BY NoText DEF TextInv, SentInv
    <3> QED
      BY <2>1, <3>1, NoText
  <2>4. \E y \in Bytes : Lossy(heard) = sent \o y
    <3>1. Lossy(utf8) \in Bytes
      BY <2>1, LossyIs
    <3> QED
      BY <2>2, <2>3, <2>6, <3>1 DEF TextInv, SentInv
  <2>5. IsPrefix(sent, Lossy(heard))
    BY <2>1, <2>4, PrefixIs
  <2> QED
    BY <2>2, <2>3, <2>5, <2>6 DEF TextIsWhole, TextInv
<1> QED
  BY <1>1, TextInvAlways, PTL

\* A generation that goes on has told no stop string: the token that completes
\* one is the last, also when it began several tokens ago (stop_cut_len).
THEOREM StopIsTheEndAlways == TextInit /\ [][TextNext]_textVars => []StopIsTheEnd
<1>1. TextInv => StopIsTheEnd
  BY DEF TextInv
<1> QED
  BY <1>1, TextInvAlways, PTL

=============================================================================
