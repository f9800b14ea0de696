----------------------------- MODULE RingProofs -----------------------------
(***************************************************************************)
(* What the list operators of RingOps do to the threads in a list: which   *)
(* they are, who is first, and that nobody is in it twice.                 *)
(***************************************************************************)
EXTENDS RingOps, Integers, Functions, TLAPS

\* The threads of a list are threads.
LEMMA RangeIn == \A S : \A s \in Seq(S) : Range(s) \subseteq S
<1> SUFFICES ASSUME NEW S, NEW s \in Seq(S), NEW i \in DOMAIN s PROVE s[i] \in S
  BY Zenon DEF Range
<1> QED
  OBVIOUS

\* The whole of a list, and the nothing behind its end.
LEMMA WholeAndRest ==
    ASSUME NEW S, NEW s \in Seq(S)
    PROVE  SubSeq(s, 1, Len(s)) = s /\ SubSeq(s, Len(s) + 1, Len(s)) = <<>>
<1>1. Len(s) \in Nat /\ DOMAIN s = 1 .. Len(s) /\ s = [i \in 1 .. Len(s) |-> s[i]]
  OBVIOUS
<1>2. SubSeq(s, 1, Len(s)) = s
  BY <1>1
<1>3. SubSeq(s, Len(s) + 1, Len(s)) = <<>>
  BY <1>1
<1> QED
  BY <1>2, <1>3, Zenon

\* Nonempty sequences, as the provers like them.
LEMMA HeadTailFacts ==
    ASSUME NEW S, NEW s \in Seq(S), Len(s) > 0
    PROVE  /\ s # <<>> /\ Len(s) \in Nat
           /\ Head(s) \in S /\ Head(s) = s[1] /\ 1 \in DOMAIN s
           /\ Tail(s) \in Seq(S) /\ Len(Tail(s)) = Len(s) - 1
           /\ Range(s) = {Head(s)} \cup Range(Tail(s))
<1>1. s # <<>> /\ Len(s) \in Nat \ {0} /\ DOMAIN s = 1 .. Len(s)
  OBVIOUS
<1>2. /\ Tail(s) \in Seq(S) /\ Len(Tail(s)) = Len(s) - 1
      /\ \A i \in 1 .. Len(Tail(s)) : Tail(s)[i] = s[i + 1]
      /\ Head(s) \in S
  BY <1>1
<1>3. DOMAIN Tail(s) = 1 .. Len(s) - 1
  BY <1>2
<1>4. Head(s) = s[1]
  OBVIOUS
<1>5. ASSUME NEW x \in Range(s) PROVE x \in {Head(s)} \cup Range(Tail(s))
  <2>1. PICK i \in 1 .. Len(s) : x = s[i]
    BY <1>1, Zenon DEF Range
  <2>2. CASE i = 1
    BY <2>1, <2>2, <1>4, Zenon
  <2>3. CASE i # 1
    <3>1. i - 1 \in 1 .. Len(s) - 1 /\ Tail(s)[i - 1] = s[i]
      BY <1>1, <1>2, <2>3
    <3> QED
      BY <3>1, <2>1, <1>3, Zenon DEF Range
  <2> QED
    BY <2>2, <2>3, Zenon
<1>6. ASSUME NEW x \in Range(Tail(s)) PROVE x \in Range(s)
  <2>1. PICK i \in 1 .. Len(s) - 1 : x = s[i + 1]
    BY <1>2, <1>3, Zenon DEF Range
  <2>2. i + 1 \in 1 .. Len(s)
    BY <1>1
  <2> QED
    BY <2>1, <2>2, <1>1, Zenon DEF Range
<1>7. Head(s) \in Range(s)
  BY <1>1, <1>4 DEF Range
<1> QED
  BY <1>1, <1>2, <1>4, <1>5, <1>6, <1>7

\* Concatenation behind a nonempty sequence.
LEMMA ConcatFacts ==
    ASSUME NEW S, NEW a \in Seq(S), NEW b \in Seq(S), Len(a) > 0
    PROVE  /\ a \o b \in Seq(S) /\ Len(a \o b) = Len(a) + Len(b)
           /\ (a \o b)[1] = a[1] /\ Range(a \o b) = Range(a) \cup Range(b)
<1>1. a \o b \in Seq(S) /\ Len(a \o b) = Len(a) + Len(b)
  OBVIOUS
<1>2. (a \o b)[1] = a[1]
  OBVIOUS
<1>3. Range(a \o b) = Range(a) \cup Range(b)
  <2>1. /\ Len(a) \in Nat /\ Len(b) \in Nat
        /\ DOMAIN a = 1 .. Len(a) /\ DOMAIN b = 1 .. Len(b)
        /\ DOMAIN (a \o b) = 1 .. Len(a) + Len(b)
    BY <1>1
  <2>2. /\ \A i \in 1 .. Len(a) : (a \o b)[i] = a[i]
        /\ \A i \in 1 .. Len(b) : (a \o b)[Len(a) + i] = b[i]
    OBVIOUS
  <2>3. ASSUME NEW x \in Range(a \o b) PROVE x \in Range(a) \cup Range(b)
    <3>1. PICK i \in 1 .. Len(a) + Len(b) : x = (a \o b)[i]
      BY <2>1, Zenon DEF Range
    <3>2. CASE i \in 1 .. Len(a)
      BY <3>1, <3>2, <2>1, <2>2, Zenon DEF Range
    <3>3. CASE i \notin 1 .. Len(a)
      <4>1. i - Len(a) \in 1 .. Len(b) /\ Len(a) + (i - Len(a)) = i
        BY <3>3, <2>1
      <4> QED
        BY <3>1, <4>1, <2>1, <2>2, Zenon DEF Range
    <3> QED
      BY <3>2, <3>3, Zenon
  <2>4. ASSUME NEW x \in Range(a) PROVE x \in Range(a \o b)
    BY <2>1, <2>2 DEF Range
  <2>5. ASSUME NEW x \in Range(b) PROVE x \in Range(a \o b)
    <3>1. PICK i \in 1 .. Len(b) : x = b[i]
      BY <2>1, Zenon DEF Range
    <3>2. Len(a) + i \in 1 .. Len(a) + Len(b)
      BY <2>1
    <3> QED
      BY <3>1, <3>2, <2>1, <2>2, Zenon DEF Range
  <2> QED
    BY <2>3, <2>4, <2>5, Zenon
<1> QED
  BY <1>1, <1>2, <1>3, Zenon

\* A sequence and one more element at its end: the wait queues of block().
LEMMA AppendFacts ==
    ASSUME NEW S, NEW s \in Seq(S), NEW e \in S
    PROVE  /\ Append(s, e) \in Seq(S) /\ Len(Append(s, e)) = Len(s) + 1
           /\ Range(Append(s, e)) = Range(s) \cup {e}
<1>1. Append(s, e) \in Seq(S) /\ Len(Append(s, e)) = Len(s) + 1
  OBVIOUS
<1>2. DOMAIN s = 1 .. Len(s) /\ DOMAIN Append(s, e) = 1 .. Len(s) + 1 /\ Len(s) \in Nat
  BY <1>1
<1>3. /\ \A i \in 1 .. Len(s) : Append(s, e)[i] = s[i]
      /\ Append(s, e)[Len(s) + 1] = e
  OBVIOUS
<1>4. 1 .. Len(s) + 1 = (1 .. Len(s)) \cup {Len(s) + 1}
  BY <1>2
<1>5. Range(Append(s, e)) = Range(s) \cup {e}
  BY <1>2, <1>3, <1>4 DEF Range
<1> QED
  BY <1>1, <1>5, Zenon

\* Rotating the ring keeps its threads.
LEMMA RotatedFacts ==
    ASSUME NEW S, NEW r \in Seq(S), Len(r) > 0
    PROVE  /\ Rotated(r) \in Seq(S) /\ Len(Rotated(r)) = Len(r)
           /\ Range(Rotated(r)) = Range(r)
<1> DEFINE e == Head(r)
           u == Tail(r)
<1>1. /\ e \in S /\ u \in Seq(S) /\ Len(u) = Len(r) - 1
      /\ Len(r) \in Nat /\ Range(r) = {e} \cup Range(u)
  BY HeadTailFacts, Zenon
<1>2. Rotated(r) = Append(u, e)
  BY Zenon DEF Rotated
<1> HIDE DEF e, u
<1>3. /\ Append(u, e) \in Seq(S) /\ Len(Append(u, e)) = Len(u) + 1
      /\ Range(Append(u, e)) = Range(u) \cup {e}
  BY <1>1, AppendFacts
<1> QED
  BY <1>1, <1>2, <1>3

\* unblock() adds one thread behind the head of the ring.
LEMMA WokenFacts ==
    ASSUME NEW S, NEW r \in Seq(S), Len(r) > 0, NEW x \in S
    PROVE  /\ Woken(r, x) \in Seq(S) /\ Len(Woken(r, x)) = Len(r) + 1
           /\ Head(Woken(r, x)) = Head(r)
           /\ Range(Woken(r, x)) = Range(r) \cup {x}
<1> DEFINE p == <<Head(r), x>>
<1>1. /\ Head(r) \in S /\ Tail(r) \in Seq(S) /\ Len(Tail(r)) = Len(r) - 1
      /\ Len(r) \in Nat /\ Range(r) = {Head(r)} \cup Range(Tail(r))
  BY HeadTailFacts, Zenon
<1>2. /\ p \in Seq(S) /\ Len(p) = 2 /\ Len(p) > 0
      /\ p[1] = Head(r) /\ Range(p) = {Head(r), x}
  BY <1>1 DEF Range
<1>3. Woken(r, x) = p \o Tail(r)
  BY Zenon DEF Woken
<1> HIDE DEF p
<1>4. /\ p \o Tail(r) \in Seq(S) /\ Len(p \o Tail(r)) = Len(p) + Len(Tail(r))
      /\ (p \o Tail(r))[1] = p[1]
      /\ Range(p \o Tail(r)) = Range(p) \cup Range(Tail(r))
  BY <1>1, <1>2, ConcatFacts, Zenon
<1>5. /\ Woken(r, x) \in Seq(S) /\ Len(Woken(r, x)) = Len(p) + Len(Tail(r))
      /\ Woken(r, x)[1] = Head(r)
      /\ Range(Woken(r, x)) = {Head(r), x} \cup Range(Tail(r))
  BY <1>2, <1>3, <1>4, Zenon
<1>6. Len(Woken(r, x)) = Len(r) + 1 /\ Len(Woken(r, x)) > 0
  BY <1>1, <1>2, <1>5
<1>7. Head(Woken(r, x)) = Woken(r, x)[1]
  BY <1>5, <1>6, HeadTailFacts, Zenon
<1> QED
  BY <1>1, <1>5, <1>6, <1>7, Zenon

\* The loop of unblock() adds a whole wait queue behind the head of the ring.
LEMMA WokenAllFacts ==
    ASSUME NEW S, NEW r \in Seq(S), Len(r) > 0, NEW q \in Seq(S)
    PROVE  /\ WokenAll(r, q) \in Seq(S) /\ Len(WokenAll(r, q)) > 0
           /\ Head(WokenAll(r, q)) = Head(r)
           /\ Range(WokenAll(r, q)) = Range(r) \cup Range(q)
<1> DEFINE n == Len(q)
           rev == [i \in 1 .. n |-> q[n + 1 - i]]
           h == <<Head(r)>>
<1>1. n \in Nat /\ DOMAIN q = 1 .. n /\ \A i \in 1 .. n : q[i] \in S
  OBVIOUS
<1>2. /\ Head(r) \in S /\ Tail(r) \in Seq(S) /\ Len(Tail(r)) = Len(r) - 1
      /\ Len(r) \in Nat /\ Range(r) = {Head(r)} \cup Range(Tail(r))
  BY HeadTailFacts, Zenon
<1>3. rev \in Seq(S)
  <2>1. \A i \in 1 .. n : n + 1 - i \in 1 .. n
    BY <1>1
  <2>2. rev \in [1 .. n -> S]
    BY <2>1, <1>1, Zenon
  <2> QED
    BY <2>2, <1>1
<1>4. Range(rev) = Range(q)
  <2>1. \A i \in 1 .. n : n + 1 - i \in 1 .. n /\ n + 1 - (n + 1 - i) = i
    BY <1>1
  <2> QED
    BY <2>1, <1>1, Zenon DEF Range
<1>5. /\ h \in Seq(S) /\ Len(h) = 1 /\ Len(h) > 0
      /\ h[1] = Head(r) /\ Range(h) = {Head(r)}
  BY <1>2 DEF Range
<1>6. WokenAll(r, q) = (h \o rev) \o Tail(r)
  BY Zenon DEF WokenAll
<1> HIDE DEF rev, h, n
<1>7. /\ h \o rev \in Seq(S) /\ Len(h \o rev) = Len(h) + Len(rev)
      /\ (h \o rev)[1] = h[1] /\ Range(h \o rev) = Range(h) \cup Range(rev)
  BY <1>3, <1>5, ConcatFacts, Zenon
<1>8. Len(h \o rev) > 0
  BY <1>3, <1>5, <1>7
<1>9. /\ WokenAll(r, q) \in Seq(S)
      /\ Len(WokenAll(r, q)) = Len(h \o rev) + Len(Tail(r))
      /\ WokenAll(r, q)[1] = Head(r)
      /\ Range(WokenAll(r, q)) = ({Head(r)} \cup Range(q)) \cup Range(Tail(r))
  <2> DEFINE hr == h \o rev
  <2>1. hr \in Seq(S) /\ Len(hr) > 0 /\ Tail(r) \in Seq(S)
    BY <1>2, <1>7, <1>8, Zenon
  <2> HIDE DEF hr
  <2>2. /\ hr \o Tail(r) \in Seq(S) /\ Len(hr \o Tail(r)) = Len(hr) + Len(Tail(r))
        /\ (hr \o Tail(r))[1] = hr[1]
        /\ Range(hr \o Tail(r)) = Range(hr) \cup Range(Tail(r))
    BY ONLY <2>1, ConcatFacts, ZenonT(30)
  <2>3. WokenAll(r, q) = hr \o Tail(r)
    BY <1>6, Zenon DEF hr
  <2>4. hr[1] = Head(r) /\ Range(hr) = {Head(r)} \cup Range(q)
    BY <1>4, <1>5, <1>7, Zenon DEF hr
  <2>5. Len(hr) = Len(h \o rev)
    BY Zenon DEF hr
  <2> QED
    BY <2>2, <2>3, <2>4, <2>5, Zenon
<1>10. Len(WokenAll(r, q)) > 0
  BY <1>2, <1>7, <1>8, <1>9
<1>11. Head(WokenAll(r, q)) = WokenAll(r, q)[1]
  BY <1>9, <1>10, HeadTailFacts, Zenon
<1> QED
  BY <1>2, <1>9, <1>10, <1>11, Zenon
-----------------------------------------------------------------------------
\* Without repetitions the head is not in the tail.
LEMMA TailDistinct ==
    ASSUME NEW S, NEW s \in Seq(S), Len(s) > 0, IsInjective(s)
    PROVE  IsInjective(Tail(s)) /\ Head(s) \notin Range(Tail(s))
<1>1. /\ Len(s) \in Nat /\ DOMAIN s = 1 .. Len(s) /\ DOMAIN Tail(s) = 1 .. Len(s) - 1
      /\ Tail(s) \in Seq(S) /\ Len(Tail(s)) = Len(s) - 1 /\ Head(s) = s[1] /\ s # <<>>
  <2>1. /\ Tail(s) \in Seq(S) /\ Len(Tail(s)) = Len(s) - 1 /\ Head(s) = s[1]
        /\ Len(s) \in Nat /\ s # <<>>
    BY HeadTailFacts, Zenon
  <2> QED
    BY <2>1
<1>2. \A i \in 1 .. Len(s) - 1 : Tail(s)[i] = s[i + 1]
  BY <1>1
<1>3. \A i, k \in 1 .. Len(s) : s[i] = s[k] => i = k
  BY <1>1, Zenon DEF IsInjective
<1>4. \A i \in 1 .. Len(s) - 1 : i + 1 \in 1 .. Len(s) /\ i + 1 # 1
  BY <1>1
<1>5. IsInjective(Tail(s))
  <2> SUFFICES ASSUME NEW i \in 1 .. Len(s) - 1, NEW k \in 1 .. Len(s) - 1,
                      Tail(s)[i] = Tail(s)[k]
               PROVE  i = k
    BY <1>1, Zenon DEF IsInjective
  <2>1. s[i + 1] = s[k + 1]
    BY <1>2, Zenon
  <2> QED
    BY <2>1, <1>1, <1>3, <1>4
<1>6. Head(s) \notin Range(Tail(s))
  BY <1>1, <1>2, <1>3, <1>4 DEF Range
<1> QED
  BY <1>5, <1>6, Zenon

\* Joining a wait queue (block) keeps it free of duplicates.
LEMMA AppendDistinct ==
    ASSUME NEW S, NEW s \in Seq(S), NEW e \in S, IsInjective(s), e \notin Range(s)
    PROVE  IsInjective(Append(s, e))
<1>1. Append(s, e) \in Seq(S) /\ Len(Append(s, e)) = Len(s) + 1
  BY AppendFacts, Zenon
<1>2. /\ Len(s) \in Nat /\ DOMAIN s = 1 .. Len(s)
      /\ DOMAIN Append(s, e) = 1 .. Len(s) + 1
  BY <1>1
<1>3. /\ \A i \in 1 .. Len(s) : Append(s, e)[i] = s[i]
      /\ Append(s, e)[Len(s) + 1] = e
  OBVIOUS
<1>4. \A i \in 1 .. Len(s) + 1 : i \in 1 .. Len(s) \/ i = Len(s) + 1
  BY <1>2
<1>5. /\ \A i, k \in 1 .. Len(s) : s[i] = s[k] => i = k
      /\ \A i \in 1 .. Len(s) : s[i] # e
  BY <1>2, Zenon DEF IsInjective, Range
<1> SUFFICES ASSUME NEW i \in 1 .. Len(s) + 1, NEW k \in 1 .. Len(s) + 1,
                    Append(s, e)[i] = Append(s, e)[k]
             PROVE  i = k
  BY <1>2, Zenon DEF IsInjective
<1> QED
  BY <1>3, <1>4, <1>5, Zenon

\* Two sequences without duplicates and without common elements, one behind the other.
LEMMA ConcatDistinct ==
    ASSUME NEW S, NEW a \in Seq(S), NEW b \in Seq(S),
           IsInjective(a), IsInjective(b), Range(a) \cap Range(b) = {}
    PROVE  IsInjective(a \o b)
<1> DEFINE c == a \o b
           m == Len(a)
           n == Len(b)
<1>1. /\ c \in Seq(S) /\ Len(c) = m + n
      /\ \A i \in 1 .. m + n : c[i] = IF i <= m THEN a[i] ELSE b[i - m]
  OBVIOUS
<1>2. /\ m \in Nat /\ n \in Nat /\ DOMAIN a = 1 .. m /\ DOMAIN b = 1 .. n
  OBVIOUS
<1>3. DOMAIN c = 1 .. m + n
  BY <1>1
<1>4. /\ \A i, k \in 1 .. m : a[i] = a[k] => i = k
      /\ \A i, k \in 1 .. n : b[i] = b[k] => i = k
      /\ \A i \in 1 .. m, k \in 1 .. n : a[i] # b[k]
  <2>1. \A i, k \in 1 .. m : a[i] = a[k] => i = k
    BY <1>2, Zenon DEF IsInjective
  <2>2. \A i, k \in 1 .. n : b[i] = b[k] => i = k
    BY <1>2, Zenon DEF IsInjective
  <2>3. \A i \in 1 .. m, k \in 1 .. n : a[i] \in Range(a) /\ b[k] \in Range(b)
    BY <1>2, Zenon DEF Range
  <2> QED
    BY <2>1, <2>2, <2>3, Zenon
<1> HIDE DEF c, m, n
<1>5. IsInjective(c)
  <2> SUFFICES ASSUME NEW i \in 1 .. m + n, NEW k \in 1 .. m + n, c[i] = c[k]
               PROVE  i = k
    BY <1>3, Zenon DEF IsInjective
  <2>1. CASE i <= m /\ k <= m
    BY <1>1, <1>2, <1>4, <2>1
  <2>2. CASE ~(i <= m) /\ ~(k <= m)
    <3>1. i - m \in 1 .. n /\ k - m \in 1 .. n /\ b[i - m] = b[k - m]
      BY <1>1, <1>2, <2>2
    <3>2. i - m = k - m
      BY <3>1, <1>4, Zenon
    <3> QED
      BY <3>2, <1>2
  <2>3. CASE i <= m /\ ~(k <= m)
    <3>1. i \in 1 .. m /\ k - m \in 1 .. n /\ a[i] = b[k - m]
      BY <1>1, <1>2, <2>3
    <3> QED
      BY <3>1, <1>4, Zenon
  <2>4. CASE ~(i <= m) /\ k <= m
    <3>1. k \in 1 .. m /\ i - m \in 1 .. n /\ a[k] = b[i - m]
      BY <1>1, <1>2, <2>4
    <3> QED
      BY <3>1, <1>4, Zenon
  <2> QED
    BY <2>1, <2>2, <2>3, <2>4, Zenon
<1> QED
  BY <1>5, Zenon DEF c

\* The round-robin step of scheduler() keeps the ready queue free of duplicates.
LEMMA RotatedDistinct ==
    ASSUME NEW S, NEW r \in Seq(S), Len(r) > 0, IsInjective(r)
    PROVE  IsInjective(Rotated(r))
<1>1. Head(r) \in S /\ Tail(r) \in Seq(S)
  BY HeadTailFacts, Zenon
<1>2. IsInjective(Tail(r)) /\ Head(r) \notin Range(Tail(r))
  BY TailDistinct, Zenon
<1> QED
  BY <1>1, <1>2, AppendDistinct, Zenon DEF Rotated

\* So does unblock() of a thread that is not in it,
LEMMA WokenDistinct ==
    ASSUME NEW S, NEW r \in Seq(S), Len(r) > 0, IsInjective(r),
           NEW x \in S, x \notin Range(r)
    PROVE  IsInjective(Woken(r, x))
<1> DEFINE p == <<Head(r), x>>
<1>1. Head(r) \in S /\ Tail(r) \in Seq(S) /\ Range(r) = {Head(r)} \cup Range(Tail(r))
  BY HeadTailFacts, Zenon
<1>2. IsInjective(Tail(r)) /\ Head(r) \notin Range(Tail(r))
  BY TailDistinct, Zenon
<1>3. Head(r) # x /\ x \notin Range(Tail(r))
  BY <1>1, Zenon
<1>4. /\ p \in Seq(S) /\ DOMAIN p = {1, 2} /\ p[1] = Head(r) /\ p[2] = x
  BY <1>1
<1>5. Woken(r, x) = p \o Tail(r)
  BY Zenon DEF Woken
<1> HIDE DEF p
<1>6. IsInjective(p) /\ Range(p) = {Head(r), x}
  BY <1>3, <1>4 DEF IsInjective, Range
<1>7. Range(p) \cap Range(Tail(r)) = {}
  BY <1>2, <1>3, <1>6, Zenon
<1>8. IsInjective(p \o Tail(r))
  BY <1>1, <1>2, <1>4, <1>6, <1>7, ConcatDistinct, Zenon
<1> QED
  BY <1>5, <1>8, Zenon

\* and the loop of broadcast over a whole wait queue.
LEMMA WokenAllDistinct ==
    ASSUME NEW S, NEW r \in Seq(S), Len(r) > 0, IsInjective(r),
           NEW q \in Seq(S), IsInjective(q), Range(q) \cap Range(r) = {}
    PROVE  IsInjective(WokenAll(r, q))
<1> DEFINE n == Len(q)
           rev == [i \in 1 .. n |-> q[n + 1 - i]]
           h == <<Head(r)>>
<1>1. n \in Nat /\ DOMAIN q = 1 .. n /\ \A i \in 1 .. n : q[i] \in S
  OBVIOUS
<1>2. Head(r) \in S /\ Tail(r) \in Seq(S) /\ Range(r) = {Head(r)} \cup Range(Tail(r))
  BY HeadTailFacts, Zenon
<1>3. IsInjective(Tail(r)) /\ Head(r) \notin Range(Tail(r))
  BY TailDistinct, Zenon
<1>4. \A i \in 1 .. n : n + 1 - i \in 1 .. n /\ n + 1 - (n + 1 - i) = i
  BY <1>1
<1>5. rev \in Seq(S) /\ Range(rev) = Range(q)
  <2>1. rev \in [1 .. n -> S]
    BY <1>1, <1>4, Zenon
  <2>2. rev \in Seq(S)
    BY <2>1, <1>1
  <2>3. Range(rev) = Range(q)
    BY <1>1, <1>4, Zenon DEF Range
  <2> QED
    BY <2>2, <2>3, Zenon
<1>6. IsInjective(rev)
  <2> SUFFICES ASSUME NEW i \in 1 .. n, NEW k \in 1 .. n, q[n + 1 - i] = q[n + 1 - k]
               PROVE  i = k
    BY Zenon DEF IsInjective
  <2>1. n + 1 - i = n + 1 - k
    BY <1>1, <1>4, Zenon DEF IsInjective
  <2> QED
    BY <2>1, <1>1
<1>7. h \in Seq(S) /\ Len(h) > 0 /\ Range(h) = {Head(r)} /\ IsInjective(h)
  BY <1>2 DEF Range, IsInjective
<1>8. WokenAll(r, q) = (h \o rev) \o Tail(r)
  BY Zenon DEF WokenAll
<1> HIDE DEF rev, h, n
<1>9. Range(h) \cap Range(rev) = {}
  BY <1>2, <1>5, <1>7, Zenon
<1>10. h \o rev \in Seq(S) /\ Range(h \o rev) = Range(h) \cup Range(rev)
  <2>1. rev \in Seq(S) /\ h \in Seq(S) /\ Len(h) > 0
    BY <1>5, <1>7, Zenon
  <2> QED
    BY ONLY <2>1, ConcatFacts, ZenonT(30)
<1>11. IsInjective(h \o rev)
  BY <1>5, <1>6, <1>7, <1>9, ConcatDistinct, Zenon
<1>12. Range(h \o rev) \cap Range(Tail(r)) = {}
  BY <1>2, <1>3, <1>5, <1>7, <1>10, Zenon
<1>13. IsInjective((h \o rev) \o Tail(r))
  <2> DEFINE hr == h \o rev
  <2>1. hr \in Seq(S) /\ IsInjective(hr) /\ Range(hr) \cap Range(Tail(r)) = {}
    BY <1>10, <1>11, <1>12, Zenon
  <2> HIDE DEF hr
  <2>2. IsInjective(hr \o Tail(r))
    BY <1>2, <1>3, <2>1, ConcatDistinct, Zenon
  <2> QED
    BY <2>2, Zenon DEF hr
<1> QED
  BY <1>8, <1>13, Zenon
=============================================================================
