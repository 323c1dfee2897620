---------------------------- MODULE ExecReplyProofs ----------------------------
(***************************************************************************)
(* Proofs about ExecReply, for every base, length of words, reply, way to   *)
(* cut it and size of the buffers.                                         *)
(*                                                                         *)
(* The argument: a message is read back from its bytes (Sequences to Fields *)
(* of an ErrorResponse), whatever stands before and behind them; so a       *)
(* caller that stands at the beginning of a message reads that message and  *)
(* then stands at the beginning of the next (ReplyInv).  What rows() does   *)
(* with the text is a second reading, of lines and columns.                *)
(***************************************************************************)
EXTENDS ExecReply, BoundedInduction, SequenceTheorems, FiniteSetTheorems, TLAPS

--------------------------------------------------------------------------------
(***************************************************************************)
(* Sequences.                                                              *)
(***************************************************************************)
\* A function that joins one sequence after the other ends where FlattenSeq does.
LEMMA FlattenBy ==
  ASSUME NEW T, NEW ss \in Seq(Seq(T)), NEW f \in [0..Len(ss) -> Seq(T)],
         f[0] = <<>>, \A i \in 1..Len(ss) : f[i] = f[i - 1] \o ss[i]
  PROVE  FlattenSeq(ss) = f[Len(ss)]
<1> DEFINE n == Len(ss)
           fl == CHOOSE fl : fl = [i \in 1..n |-> IF i = 1 THEN ss[1] ELSE fl[i - 1] \o ss[i]]
<1>1. n \in Nat
  BY LenProperties
<1>2. CASE n = 0
  BY <1>2, EmptySeq DEF FlattenSeq
<1>3. CASE n # 0
  <2> DEFINE g == [i \in 1..n |-> f[i]]
  <2>1. g = [i \in 1..n |-> IF i = 1 THEN ss[1] ELSE g[i - 1] \o ss[i]]
    <3>1. ASSUME NEW i \in 1..n
          PROVE  f[i] = IF i = 1 THEN ss[1] ELSE g[i - 1] \o ss[i]
      <4>1. CASE i = 1
        <5>1. f[1] = f[0] \o ss[1] /\ ss[1] \in Seq(T)
          <6>1. 1 \in 1..n /\ 1 - 1 = 0
            BY <1>1, <1>3
          <6>2. QED BY <6>1, ElementOfSeq
        <5>2. <<>> \o ss[1] = ss[1]
          BY <5>1, ConcatEmptySeq
        <5>3. QED BY <4>1, <5>1, <5>2
      <4>2. CASE i # 1
        <5>1. i - 1 \in 1..n
          BY <1>1, <4>2
        <5>2. QED BY <4>2, <5>1
      <4>3. QED BY <4>1, <4>2
    <3>2. QED BY <3>1
  <2>2. fl = [i \in 1..n |-> IF i = 1 THEN ss[1] ELSE fl[i - 1] \o ss[i]]
    BY <2>1
  <2>3. FlattenSeq(ss) = fl[n]
    BY <1>3 DEF FlattenSeq
  <2> HIDE DEF fl
  <2>4. \A i \in 0..n : i \in { j \in 0..n : j > 0 => fl[j] = f[j] }
    <3> DEFINE P == { j \in 0..n : j > 0 => fl[j] = f[j] }
    <3>1. 0 \in P
      BY <1>1
    <3>2. ASSUME NEW i \in 1..n, i - 1 \in P PROVE i \in P
      <4>1. CASE i = 1
        <5>1. fl[1] = ss[1] /\ g[1] = ss[1]
          <6> HIDE DEF g
          <6>1. 1 \in 1..n
            BY <1>1, <1>3
          <6>2. QED BY <2>1, <2>2, <6>1
        <5>2. QED BY <4>1, <5>1
      <4>2. CASE i # 1
        <5>1. i - 1 > 0 /\ fl[i - 1] = f[i - 1]
          BY <1>1, <3>2, <4>2
        <5>2. fl[i] = fl[i - 1] \o ss[i]
          BY <2>2, <4>2
        <5>3. fl[i] = f[i]
          BY <5>1, <5>2
        <5>4. QED BY <5>3
      <4>3. QED BY <4>1, <4>2
    <3> HIDE DEF P
    <3>3. \A i \in 0..n : i \in P
      BY <1>1, <3>1, <3>2, Induction
    <3>4. QED BY <3>3 DEF P
  <2>5. QED BY <1>1, <1>3, <2>3, <2>4
<1>4. QED BY <1>2, <1>3

\* There is such a function.
LEMMA FlattenFunction ==
  ASSUME NEW T, NEW ss \in Seq(Seq(T))
  PROVE  \E f \in [0..Len(ss) -> Seq(T)] :
           f[0] = <<>> /\ \A i \in 1..Len(ss) : f[i] = f[i - 1] \o ss[i]
<1> DEFINE n == Len(ss)
           step == [i \in 1..n |-> [x \in Seq(T) |-> x \o ss[i]]]
<1>1. n \in Nat /\ <<>> \in Seq(T) /\ \A i \in 1..n : ss[i] \in Seq(T)
  BY LenProperties, ElementOfSeq, EmptySeq
<1>2. step \in [1..n -> [Seq(T) -> Seq(T)]]
  BY <1>1, ConcatProperties
<1>3. \E f \in [0..n -> Seq(T)] : Unfolds(f, n, <<>>, step)
  <2> HIDE DEF n, step
  <2>1. QED BY <1>1, <1>2, Recursion
<1>4. PICK f \in [0..n -> Seq(T)] : Unfolds(f, n, <<>>, step)
  BY <1>3
<1>5. \A i \in 1..n : f[i] = f[i - 1] \o ss[i]
  <2>1. TAKE i \in 1..n
  <2>2. i - 1 \in 0..n
    BY <1>1
  <2>3. f[i - 1] \in Seq(T) /\ f[i] = step[i][f[i - 1]]
    BY <1>4, <2>2 DEF Unfolds
  <2>4. QED BY <2>3
<1>6. QED BY <1>4, <1>5 DEF Unfolds

LEMMA FlattenEmpty == FlattenSeq(<<>>) = <<>>
BY EmptySeq DEF FlattenSeq

LEMMA FlattenAppend ==
  ASSUME NEW T, NEW ss \in Seq(Seq(T)), NEW t \in Seq(T)
  PROVE  /\ FlattenSeq(ss) \in Seq(T)
         /\ FlattenSeq(Append(ss, t)) = FlattenSeq(ss) \o t
<1> DEFINE us == Append(ss, t)
           n == Len(ss)
<1>1. /\ us \in Seq(Seq(T)) /\ n \in Nat /\ Len(us) = n + 1
      /\ \A i \in 1..n : us[i] = ss[i]
      /\ us[n + 1] = t
  BY AppendProperties, LenProperties
<1>2. PICK f \in [0..(n + 1) -> Seq(T)] :
        f[0] = <<>> /\ \A i \in 1..(n + 1) : f[i] = f[i - 1] \o us[i]
  <2> HIDE DEF us
  <2>1. \E f \in [0..Len(us) -> Seq(T)] :
           f[0] = <<>> /\ \A i \in 1..Len(us) : f[i] = f[i - 1] \o us[i]
    BY <1>1, FlattenFunction
  <2>2. QED BY <1>1, <2>1
<1> HIDE DEF us
<1>3. FlattenSeq(us) = f[n + 1]
  BY <1>1, <1>2, FlattenBy
<1>4. FlattenSeq(ss) = f[n]
  <2> DEFINE g == [i \in 0..n |-> f[i]]
  <2>1. g \in [0..n -> Seq(T)] /\ g[0] = <<>> /\ g[n] = f[n]
    BY <1>1, <1>2
  <2>2. \A i \in 1..n : g[i] = g[i - 1] \o ss[i]
    <3>1. TAKE i \in 1..n
    <3>2. i \in 1..(n + 1) /\ i \in 0..n /\ i - 1 \in 0..n
      BY <1>1
    <3>3. f[i] = f[i - 1] \o us[i] /\ us[i] = ss[i]
      BY <1>1, <1>2, <3>2
    <3>4. QED BY <3>2, <3>3
  <2> HIDE DEF g
  <2>3. FlattenSeq(ss) = g[n]
    BY <2>1, <2>2, FlattenBy
  <2>4. QED BY <2>1, <2>3
<1>5. f[n + 1] = f[n] \o t /\ f[n] \in Seq(T)
  <2>1. n + 1 \in 1..(n + 1) /\ n \in 0..(n + 1) /\ (n + 1) - 1 = n
    BY <1>1
  <2>2. QED BY <1>1, <1>2, <2>1
<1>6. QED BY <1>3, <1>4, <1>5 DEF us

\* The first k sequences joined.
Upto(ss, k) == FlattenSeq(SubSeq(ss, 1, k))

\* The first k of a sequence, one at a time.
LEMMA Firsts ==
  ASSUME NEW T, NEW s \in Seq(T)
  PROVE  /\ Len(s) \in Nat
         /\ \A k \in 0..Len(s) :
              /\ SubSeq(s, 1, k) \in Seq(T) /\ Len(SubSeq(s, 1, k)) = k
              /\ \A i \in 1..k : SubSeq(s, 1, k)[i] = s[i]
         /\ \A k \in 1..Len(s) :
              s[k] \in T /\ SubSeq(s, 1, k) = Append(SubSeq(s, 1, k - 1), s[k])
         /\ SubSeq(s, 1, 0) = <<>> /\ SubSeq(s, 1, Len(s)) = s
<1>1. Len(s) \in Nat /\ \A k \in 1..Len(s) : s[k] \in T
  BY LenProperties, ElementOfSeq
<1>2. ASSUME NEW k \in 0..Len(s)
      PROVE  /\ SubSeq(s, 1, k) \in Seq(T) /\ Len(SubSeq(s, 1, k)) = k
             /\ \A i \in 1..k : SubSeq(s, 1, k)[i] = s[i]
  <2>1. k \in Int /\ \A i \in 1..k : s[i] \in T
    BY <1>1
  <2>2. /\ SubSeq(s, 1, k) \in Seq(T)
        /\ Len(SubSeq(s, 1, k)) = IF 1 <= k THEN k - 1 + 1 ELSE 0
        /\ \A i \in 1..(k - 1 + 1) : SubSeq(s, 1, k)[i] = s[1 + i - 1]
    BY <2>1, SubSeqProperties
  <2>3. QED BY <1>1, <2>2
<1>3. ASSUME NEW k \in 1..Len(s)
      PROVE  SubSeq(s, 1, k) = Append(SubSeq(s, 1, k - 1), s[k])
  <2> DEFINE a == SubSeq(s, 1, k)
             b == SubSeq(s, 1, k - 1)
             c == Append(b, s[k])
  <2>1. /\ a \in Seq(T) /\ Len(a) = k /\ \A i \in 1..k : a[i] = s[i]
        /\ b \in Seq(T) /\ Len(b) = k - 1 /\ \A i \in 1..(k - 1) : b[i] = s[i]
    BY <1>1, <1>2
  <2> HIDE DEF a, b
  <2>2. /\ c \in Seq(T) /\ Len(c) = k
        /\ \A i \in 1..(k - 1) : c[i] = b[i]
        /\ c[k] = s[k]
    BY <1>1, <2>1, AppendProperties
  <2> HIDE DEF c
  <2>3. \A i \in 1..k : a[i] = c[i]
    BY <1>1, <2>1, <2>2
  <2>4. a = c
    BY <2>1, <2>2, <2>3, SeqEqual
  <2>5. QED BY <2>4 DEF a, b, c
<1>4. SubSeq(s, 1, 0) = <<>> /\ SubSeq(s, 1, Len(s)) = s
  BY SubSeqEmpty, SubSeqFull
<1>5. QED BY <1>1, <1>2, <1>3, <1>4

\* A sequence that stands in another one is cut out of it.
LEMMA Slice ==
  ASSUME NEW T, NEW b \in Seq(T), NEW v \in Seq(T), NEW a \in Nat,
         a + Len(v) <= Len(b), \A i \in 1..Len(v) : b[a + i] = v[i]
  PROVE  SubSeq(b, a + 1, a + Len(v)) = v
<1> DEFINE d == Len(v)
           p == a + 1
           q == a + d
           z == SubSeq(b, p, q)
<1>1. d \in Nat /\ Len(b) \in Nat /\ \A i \in 1..Len(b) : b[i] \in T
  BY LenProperties, ElementOfSeq
<1>2. \A i \in 1..d : b[a + i] = v[i]
  OBVIOUS
<1>3. q <= Len(b)
  OBVIOUS
<1> HIDE DEF d
<1>4. p \in Int /\ q \in Int /\ q - p + 1 = d /\ (p <= q <=> 1 <= d)
      /\ (\A i \in p..q : i \in 1..Len(b)) /\ \A i \in 1..d : p + i - 1 = a + i
  BY <1>1, <1>3
<1> HIDE DEF p, q
<1>5. /\ z \in Seq(T) /\ Len(z) = IF p <= q THEN q - p + 1 ELSE 0
      /\ \A i \in 1..(q - p + 1) : z[i] = b[p + i - 1]
  BY <1>1, <1>4, SubSeqProperties
<1> HIDE DEF z
<1>6. Len(z) = d /\ \A i \in 1..d : z[i] = v[i]
  <2>1. q - p + 1 = d /\ \A i \in 1..d : p + i - 1 = a + i
    BY <1>4
  <2>2. \A i \in 1..d : z[i] = v[i]
    BY <1>2, <1>5, <2>1
  <2>3. Len(z) = IF 1 <= d THEN d ELSE 0
    BY <1>4, <1>5
  <2>4. QED BY <1>1, <2>2, <2>3
<1>7. z = v
  BY <1>5, <1>6, SeqEqual DEF d
<1>8. QED BY <1>7 DEF z, p, q, d

\* Sequences joined one after the other: each begins where the one before ends.
LEMMA UptoIs ==
  ASSUME NEW T, NEW ss \in Seq(Seq(T))
  PROVE  /\ Len(ss) \in Nat /\ FlattenSeq(ss) \in Seq(T)
         /\ \A k \in 0..Len(ss) : Upto(ss, k) \in Seq(T)
         /\ Upto(ss, 0) = <<>> /\ Upto(ss, Len(ss)) = FlattenSeq(ss)
         /\ \A k \in 1..Len(ss) : Upto(ss, k) = Upto(ss, k - 1) \o ss[k]
<1>1. /\ Len(ss) \in Nat
      /\ \A k \in 0..Len(ss) : SubSeq(ss, 1, k) \in Seq(Seq(T))
      /\ \A k \in 1..Len(ss) :
           ss[k] \in Seq(T) /\ SubSeq(ss, 1, k) = Append(SubSeq(ss, 1, k - 1), ss[k])
      /\ SubSeq(ss, 1, 0) = <<>> /\ SubSeq(ss, 1, Len(ss)) = ss
  BY Firsts
<1>2. \A us \in Seq(Seq(T)) : FlattenSeq(us) \in Seq(T)
  BY EmptySeq, FlattenAppend
<1>3. \A us \in Seq(Seq(T)), t \in Seq(T) :
        FlattenSeq(Append(us, t)) = FlattenSeq(us) \o t
  BY FlattenAppend
<1>4. \A k \in 1..Len(ss) : Upto(ss, k) = Upto(ss, k - 1) \o ss[k]
  <2>1. TAKE k \in 1..Len(ss)
  <2>2. k - 1 \in 0..Len(ss)
    BY <1>1
  <2>3. SubSeq(ss, 1, k - 1) \in Seq(Seq(T)) /\ ss[k] \in Seq(T)
    BY <1>1, <2>2
  <2>4. FlattenSeq(Append(SubSeq(ss, 1, k - 1), ss[k]))
          = FlattenSeq(SubSeq(ss, 1, k - 1)) \o ss[k]
    BY <1>3, <2>3
  <2>5. QED BY <1>1, <2>4 DEF Upto
<1>5. QED BY <1>1, <1>2, <1>4, FlattenEmpty DEF Upto

\* What is joined first stays where it is.
LEMMA UptoStays ==
  ASSUME NEW T, NEW ss \in Seq(Seq(T))
  PROVE  \A j \in 0..Len(ss) : \A k \in 0..j :
           /\ Len(Upto(ss, k)) <= Len(Upto(ss, j))
           /\ \A i \in 1..Len(Upto(ss, k)) : Upto(ss, j)[i] = Upto(ss, k)[i]
<1> DEFINE n == Len(ss)
           u == [k \in 0..n |-> Upto(ss, k)]
           Stays(k, j) == /\ Len(u[k]) <= Len(u[j])
                          /\ \A i \in 1..Len(u[k]) : u[j][i] = u[k][i]
           P == { j \in 0..n : \A k \in 0..j : Stays(k, j) }
<1>1. /\ n \in Nat
      /\ \A k \in 0..n : u[k] \in Seq(T) /\ Len(u[k]) \in Nat
      /\ \A k \in 1..n : u[k] = u[k - 1] \o ss[k] /\ ss[k] \in Seq(T)
  <2>1. \A k \in 1..n : ss[k] \in Seq(T) /\ k - 1 \in 0..n
    BY ElementOfSeq, UptoIs
  <2>2. \A k \in 0..n : Upto(ss, k) \in Seq(T) /\ Len(Upto(ss, k)) \in Nat
    BY UptoIs, LenProperties
  <2>3. \A k \in 1..n : Upto(ss, k) = Upto(ss, k - 1) \o ss[k]
    BY UptoIs
  <2>4. n \in Nat
    BY LenProperties
  <2>5. \A k \in 0..n : u[k] = Upto(ss, k)
    OBVIOUS
  <2>6. \A k \in 1..n : k \in 0..n
    OBVIOUS
  <2> HIDE DEF u, n
  <2>7. \A k \in 1..n : u[k] = u[k - 1] \o ss[k]
    BY <2>1, <2>3, <2>5, <2>6
  <2>8. QED BY <2>1, <2>2, <2>4, <2>5, <2>7
<1> HIDE DEF u, n
<1>2. 0 \in P
  BY <1>1
<1>3. ASSUME NEW j \in 1..n, j - 1 \in P PROVE j \in P
  <2>1. j - 1 \in 0..n /\ j \in 0..n
    BY <1>1
  <2>2. /\ Len(u[j]) = Len(u[j - 1]) + Len(ss[j]) /\ Len(ss[j]) \in Nat
        /\ \A i \in 1..Len(u[j - 1]) : u[j][i] = u[j - 1][i]
    <3> DEFINE a == u[j - 1]
               b == ss[j]
               c == u[j]
    <3>1. a \in Seq(T) /\ b \in Seq(T) /\ c = a \o b
      BY <1>1, <2>1
    <3> HIDE DEF a, b, c
    <3>2. /\ Len(c) = Len(a) + Len(b)
          /\ \A i \in 1..(Len(a) + Len(b)) :
               c[i] = IF i <= Len(a) THEN a[i] ELSE b[i - Len(a)]
      BY <3>1, ConcatProperties
    <3>3. Len(a) \in Nat /\ Len(b) \in Nat
      BY <3>1, LenProperties
    <3>4. \A i \in 1..Len(a) : c[i] = a[i]
      BY <3>2, <3>3
    <3>5. QED BY <3>2, <3>3, <3>4 DEF a, b, c
  <2>3. Stays(j - 1, j) /\ Stays(j, j)
    <3> DEFINE a == Len(u[j - 1])
               b == Len(ss[j])
               c == Len(u[j])
    <3>1. a \in Nat /\ b \in Nat /\ c \in Nat /\ c = a + b
      BY <1>1, <2>1, <2>2
    <3> HIDE DEF a, b, c
    <3>2. a <= c /\ c <= c
      BY <3>1
    <3>3. QED BY <2>2, <3>2 DEF a, c
  <2>4. ASSUME NEW k \in 0..(j - 1) PROVE Stays(k, j)
    <3>1. Stays(k, j - 1)
      BY <1>3
    <3>2. Len(u[k]) \in Nat /\ Len(u[j - 1]) \in Nat /\ Len(u[j]) \in Nat
      BY <1>1, <2>1
    <3>3. QED BY <2>3, <3>1, <3>2
  <2>5. \A k \in 0..j : k = j \/ k \in 0..(j - 1)
    OBVIOUS
  <2> HIDE DEF Stays
  <2>6. \A k \in 0..j : Stays(k, j)
    BY <2>3, <2>4, <2>5
  <2>7. QED BY <2>1, <2>6
<1> HIDE DEF P
<1>4. \A j \in 0..n : j \in P
  BY <1>1, <1>2, <1>3, Induction
<1>5. \A j \in 0..n : \A k \in 0..j : Stays(k, j)
  BY <1>4 DEF P
<1>6. \A j \in 0..n : \A k \in 0..j : k \in 0..n
  BY <1>1
<1>7. QED BY <1>5, <1>6 DEF u, n

\* Where a sequence is in what is joined.
LEMMA BlockIs ==
  ASSUME NEW T, NEW ss \in Seq(Seq(T))
  PROVE  /\ Len(ss) \in Nat /\ FlattenSeq(ss) \in Seq(T) /\ Len(FlattenSeq(ss)) \in Nat
         /\ Len(Upto(ss, 0)) = 0 /\ Len(Upto(ss, Len(ss))) = Len(FlattenSeq(ss))
         /\ \A k \in 0..Len(ss) : Len(Upto(ss, k)) \in 0..Len(FlattenSeq(ss))
         /\ \A k \in 1..Len(ss) :
              /\ ss[k] \in Seq(T) /\ Len(ss[k]) \in Nat
              /\ Len(Upto(ss, k)) = Len(Upto(ss, k - 1)) + Len(ss[k])
              /\ \A i \in 1..Len(ss[k]) :
                   FlattenSeq(ss)[Len(Upto(ss, k - 1)) + i] = ss[k][i]
<1> DEFINE n == Len(ss)
           r == FlattenSeq(ss)
<1>1. /\ n \in Nat /\ r \in Seq(T) /\ Len(r) \in Nat
      /\ \A k \in 0..n : Upto(ss, k) \in Seq(T) /\ Len(Upto(ss, k)) \in Nat
      /\ Upto(ss, 0) = <<>> /\ Upto(ss, n) = r
      /\ \A k \in 1..n : Upto(ss, k) = Upto(ss, k - 1) \o ss[k]
  BY UptoIs, LenProperties
<1>2. \A k \in 1..n : ss[k] \in Seq(T) /\ Len(ss[k]) \in Nat
  BY ElementOfSeq, LenProperties
<1>3. \A k \in 0..n : /\ Len(Upto(ss, k)) <= Len(r)
                      /\ \A i \in 1..Len(Upto(ss, k)) : r[i] = Upto(ss, k)[i]
  <2>1. n \in 0..n
    BY <1>1
  <2>2. \A k \in 0..n : /\ Len(Upto(ss, k)) <= Len(Upto(ss, n))
                        /\ \A i \in 1..Len(Upto(ss, k)) : Upto(ss, n)[i] = Upto(ss, k)[i]
    BY <2>1, UptoStays
  <2>3. QED BY <1>1, <2>2
<1> HIDE DEF n, r
<1>4. ASSUME NEW k \in 1..n
      PROVE  /\ Len(Upto(ss, k)) = Len(Upto(ss, k - 1)) + Len(ss[k])
             /\ \A i \in 1..Len(ss[k]) : r[Len(Upto(ss, k - 1)) + i] = ss[k][i]
  <2> DEFINE a == Upto(ss, k - 1)
             f == ss[k]
             c == Upto(ss, k)
  <2>1. k - 1 \in 0..n /\ k \in 0..n
    BY <1>1
  <2>2. a \in Seq(T) /\ f \in Seq(T) /\ c = a \o f /\ Len(a) \in Nat /\ Len(f) \in Nat
    BY <1>1, <1>2, <2>1
  <2>3. \A i \in 1..Len(c) : r[i] = c[i]
    BY <1>3, <2>1
  <2> HIDE DEF a, f, c
  <2>4. /\ Len(c) = Len(a) + Len(f)
        /\ \A i \in 1..(Len(a) + Len(f)) :
             c[i] = IF i <= Len(a) THEN a[i] ELSE f[i - Len(a)]
    BY <2>2, ConcatProperties
  <2>5. ASSUME NEW i \in 1..Len(f) PROVE r[Len(a) + i] = f[i]
    <3>1. Len(a) + i \in 1..(Len(a) + Len(f)) /\ ~(Len(a) + i <= Len(a))
          /\ (Len(a) + i) - Len(a) = i
      BY <2>2
    <3>2. QED BY <2>3, <2>4, <3>1
  <2>6. QED BY <2>4, <2>5 DEF a, f, c
<1>5. Len(Upto(ss, 0)) = 0
  BY <1>1, EmptySeq
<1>6. \A k \in 0..n : Len(Upto(ss, k)) \in 0..Len(r)
  BY <1>1, <1>3
<1>7. QED BY <1>1, <1>2, <1>4, <1>5, <1>6 DEF n, r

--------------------------------------------------------------------------------
(***************************************************************************)
(* The text that fits a buffer.                                            *)
(***************************************************************************)
LEMMA UpToIs ==
  ASSUME NEW T, NEW t \in Seq(T), NEW n \in Nat
  PROVE  /\ UpTo(t, n) \in Seq(T)
         /\ Len(UpTo(t, n)) = IF Len(t) < n THEN Len(t) ELSE n
         /\ \A i \in 1..Len(UpTo(t, n)) : UpTo(t, n)[i] = t[i]
         /\ Len(t) <= n => UpTo(t, n) = t
<1> DEFINE k == IF Len(t) < n THEN Len(t) ELSE n
<1>1. Len(t) \in Nat /\ k \in 0..Len(t) /\ UpTo(t, n) = SubSeq(t, 1, k)
  BY LenProperties DEF UpTo
<1>2. Len(t) <= n => k = Len(t)
  BY <1>1
<1> HIDE DEF k
<1>3. QED BY <1>1, <1>2, Firsts DEF k

\* sappend cuts the text where it would have been cut when appended to all of
\* what came before.
LEMMA SappendIs ==
  ASSUME NEW T, outcap \in Nat \ {0}, NEW x \in Seq(T), NEW t \in Seq(T)
  PROVE  Sappend(UpTo(x, outcap - 1), t) = UpTo(x \o t, outcap - 1)
<1> DEFINE c == outcap - 1
           o == UpTo(x, c)
           a == Len(x)
           b == Len(t)
           k == IF Len(o) + Len(t) >= outcap THEN outcap - Len(o) - 1 ELSE Len(t)
           p == SubSeq(t, 1, k)
           y == x \o t
           l == Sappend(o, t)
           r == UpTo(y, c)
<1>1. c \in Nat /\ a \in Nat /\ b \in Nat /\ outcap = c + 1
  BY LenProperties
<1> HIDE DEF c
<1>2. /\ o \in Seq(T) /\ Len(o) = IF a < c THEN a ELSE c
      /\ \A i \in 1..Len(o) : o[i] = x[i]
  BY <1>1, UpToIs
<1>3. /\ y \in Seq(T) /\ Len(y) = a + b
      /\ \A i \in 1..(a + b) : y[i] = IF i <= a THEN x[i] ELSE t[i - a]
  BY ConcatProperties
<1> HIDE DEF o, y, a, b
<1>4. k \in 0..b /\ k = IF Len(o) + b >= c + 1 THEN c - Len(o) ELSE b
  BY <1>1, <1>2 DEF b
<1> HIDE DEF k
<1>5. p \in Seq(T) /\ Len(p) = k /\ \A i \in 1..k : p[i] = t[i]
  BY <1>4, Firsts DEF b
<1>6. l = o \o p
  BY DEF Sappend, k
<1> HIDE DEF p, l
<1>7. /\ l \in Seq(T) /\ Len(l) = Len(o) + k
      /\ \A i \in 1..(Len(o) + k) :
           l[i] = IF i <= Len(o) THEN o[i] ELSE p[i - Len(o)]
  BY <1>2, <1>5, <1>6, ConcatProperties, ZenonT(60)
<1>8. /\ r \in Seq(T) /\ Len(r) = IF Len(y) < c THEN Len(y) ELSE c
      /\ \A i \in 1..Len(r) : r[i] = y[i]
  BY <1>1, <1>3, UpToIs
<1> HIDE DEF r
<1>9. Len(l) = Len(r)
  BY <1>1, <1>2, <1>3, <1>4, <1>7, <1>8
<1>10. \A i \in 1..Len(l) : l[i] = r[i]
  <2>1. TAKE i \in 1..Len(l)
  <2>2. i \in 1..(a + b) /\ i \in 1..(Len(o) + k) /\ r[i] = y[i]
    BY <1>1, <1>2, <1>3, <1>7, <1>8, <1>9
  <2>3. CASE i <= Len(o)
    <3>1. i <= a /\ l[i] = o[i] /\ o[i] = x[i]
      BY <1>1, <1>2, <1>7, <2>2, <2>3
    <3>2. QED BY <1>3, <2>2, <3>1
  <2>4. CASE ~(i <= Len(o))
    <3>1. Len(o) = a
      BY <1>1, <1>2, <1>4, <2>2, <2>4
    <3>2. ~(i <= a) /\ i - a \in 1..k
      BY <1>1, <1>2, <1>4, <2>2, <2>4, <3>1
    <3>3. l[i] = p[i - a] /\ p[i - a] = t[i - a]
      BY <1>5, <1>7, <2>2, <2>4, <3>1, <3>2
    <3>4. QED BY <1>3, <2>2, <3>2, <3>3
  <2>5. QED BY <2>3, <2>4
<1>11. l = r
  BY <1>7, <1>8, <1>9, <1>10, SeqEqual
<1>12. QED BY <1>11 DEF l, r, o, y, c

LEMMA SappendFirst ==
  ASSUME NEW T, outcap \in Nat \ {0}, NEW t \in Seq(T)
  PROVE  Sappend(<<>>, t) = UpTo(t, outcap - 1)
<1>1. outcap - 1 \in Nat /\ <<>> \in Seq(T) /\ Len(<<>>) = 0
  BY EmptySeq
<1>2. UpTo(<<>>, outcap - 1) = <<>>
  <2> DEFINE n == outcap - 1
  <2>1. n \in Nat /\ Len(<<>>) <= n
    BY <1>1
  <2> HIDE DEF n
  <2>2. UpTo(<<>>, n) = <<>>
    BY <1>1, <2>1, UpToIs
  <2>3. QED BY <2>2 DEF n
<1>3. <<>> \o t = t
  BY ConcatEmptySeq
<1>4. Sappend(UpTo(<<>>, outcap - 1), t) = UpTo(<<>> \o t, outcap - 1)
  BY <1>1, SappendIs
<1>5. QED BY <1>2, <1>3, <1>4

--------------------------------------------------------------------------------
(***************************************************************************)
(* Numbers and their bytes.                                                *)
(***************************************************************************)
LEMMA PowerIs ==
  /\ Power[0] = 1
  /\ \A k \in 1..WordLen : Power[k] = Base * Power[k - 1]
  /\ \A k \in 0..WordLen : Power[k] \in Nat \ {0}
  /\ Words \in Nat /\ Words > 14
<1> DEFINE P == { i \in 0..WordLen : Power[i] \in Nat \ {0} }
<1>1. WordLen \in Nat \ {0} /\ Base \in Nat /\ Base > 15
  BY ExecReplyAssumption
<1> DEFINE step == [i \in 1..WordLen |-> [x \in Nat |-> Base * x]]
<1>2. \E f \in [0..WordLen -> Nat] : Unfolds(f, WordLen, 1, step)
  <2>1. step \in [1..WordLen -> [Nat -> Nat]]
    BY <1>1
  <2> HIDE DEF step
  <2>2. QED BY <1>1, <2>1, Recursion
<1>3. PICK f \in [0..WordLen -> Nat] : Unfolds(f, WordLen, 1, step)
  BY <1>2
<1>4. f = [k \in 0..WordLen |-> IF k = 0 THEN 1 ELSE Base * f[k - 1]]
  <2>1. ASSUME NEW k \in 0..WordLen
        PROVE  f[k] = IF k = 0 THEN 1 ELSE Base * f[k - 1]
    <3>1. CASE k = 0
      BY <1>3, <3>1 DEF Unfolds
    <3>2. CASE k # 0
      <4>1. k \in 1..WordLen /\ k - 1 \in 0..WordLen
        BY <1>1, <3>2
      <4>2. f[k] = step[k][f[k - 1]] /\ f[k - 1] \in Nat
        BY <1>3, <4>1 DEF Unfolds
      <4>3. QED BY <3>2, <4>1, <4>2
    <3>3. QED BY <3>1, <3>2
  <2>2. QED BY <2>1
<1>5. Power = [k \in 0..WordLen |-> IF k = 0 THEN 1 ELSE Base * Power[k - 1]]
  BY <1>4 DEF Power
<1>6. Power[0] = 1 /\ \A k \in 1..WordLen : Power[k] = Base * Power[k - 1]
  <2>1. 0 \in 0..WordLen /\ \A k \in 1..WordLen : k \in 0..WordLen /\ k # 0
    BY <1>1
  <2>2. QED BY <1>5, <2>1
<1>7. \A i \in 0..WordLen : i \in P
  <2>1. 0 \in P
    BY <1>1, <1>6
  <2>2. ASSUME NEW i \in 1..WordLen, i - 1 \in P PROVE i \in P
    <3>1. Power[i] = Base * Power[i - 1] /\ Power[i - 1] \in Nat \ {0}
      BY <1>6, <2>2
    <3>2. \A x \in Nat \ {0} : Base * x \in Nat \ {0}
      BY <1>1
    <3>3. QED BY <3>1, <3>2
  <2> HIDE DEF P
  <2>3. QED BY <1>1, <2>1, <2>2, Induction
<1>8. Words > 14
  <2>1. WordLen \in 1..WordLen /\ WordLen - 1 \in 0..WordLen
    BY <1>1
  <2>2. Power[WordLen] = Base * Power[WordLen - 1] /\ Power[WordLen - 1] \in Nat \ {0}
    BY <1>6, <1>7, <2>1
  <2>3. \A x \in Nat \ {0} : Base * x > 14
    BY <1>1
  <2>4. QED BY <2>2, <2>3 DEF Words
<1>9. QED BY <1>1, <1>6, <1>7, <1>8 DEF Words

LEMMA DivMod ==
  ASSUME NEW b \in Nat \ {0}, NEW n \in Nat
  PROVE  n = b * (n \div b) + (n % b)
OBVIOUS

\* A byte less is a number less than Base times smaller.
LEMMA Shift ==
  ASSUME NEW b \in Nat \ {0}, NEW p \in Nat, NEW n \in Nat, n < b * p
  PROVE  /\ n \div b \in Nat /\ n \div b < p /\ n % b \in 0..(b - 1)
         /\ n = b * (n \div b) + (n % b)
<1>1. n \div b \in Nat
  OBVIOUS
<1>2. n % b \in 0..(b - 1)
  OBVIOUS
<1>3. n = b * (n \div b) + (n % b)
  BY DivMod
<1>4. ASSUME NEW q \in Nat, NEW r \in Nat, n = b * q + r PROVE q < p
  <2>1. ASSUME q >= p PROVE b * q >= b * p
    BY <2>1
  <2>2. b * q \in Nat /\ b * p \in Nat
    OBVIOUS
  <2> DEFINE x == b * q
             y == b * p
  <2> HIDE DEF x, y
  <2>3. ~(x >= y)
    <3>1. x \in Nat /\ y \in Nat /\ n < y /\ n = x + r
      BY <1>4, <2>2 DEF x, y
    <3>2. QED BY <3>1
  <2>4. QED BY <2>1, <2>3 DEF x, y
<1>5. n \div b < p
  BY <1>1, <1>2, <1>3, <1>4
<1>6. QED BY <1>1, <1>2, <1>3, <1>5

\* be32 and rd32 are inverse for what fits, wherever the bytes stand.
LEMMA WordIs ==
  ASSUME NEW n \in 0..(Words - 1)
  PROVE  /\ Word(n) \in Seq(Byte) /\ Len(Word(n)) = WordLen
         /\ \A s : \A at : (\A i \in 1..WordLen : s[at + i] = Word(n)[i])
                             => Rd(s, at) = n
<1> DEFINE W == WordLen
           sh == CHOOSE sh : sh = [k \in 0..W |-> IF k = 0 THEN n
                                                  ELSE sh[k - 1] \div Base]
<1>1. W \in Nat \ {0} /\ Base \in Nat \ {0} /\ n \in Nat
  BY ExecReplyAssumption, PowerIs
<1>2. /\ sh[0] = n
      /\ \A k \in 1..W : sh[k] = sh[k - 1] \div Base
  <2> DEFINE step == [i \in 1..W |-> [x \in Nat |-> x \div Base]]
  <2>1. step \in [1..W -> [Nat -> Nat]]
    <3>1. \A x \in Nat : x \div Base \in Nat
      BY <1>1
    <3>2. QED BY <3>1
  <2>2. \E f \in [0..W -> Nat] : Unfolds(f, W, n, step)
    <3> HIDE DEF step
    <3>1. QED BY <1>1, <2>1, Recursion
  <2>3. PICK f \in [0..W -> Nat] : Unfolds(f, W, n, step)
    BY <2>2
  <2>4. f = [k \in 0..W |-> IF k = 0 THEN n ELSE f[k - 1] \div Base]
    <3>1. ASSUME NEW k \in 0..W PROVE f[k] = IF k = 0 THEN n ELSE f[k - 1] \div Base
      <4>1. CASE k = 0
        BY <2>3, <4>1 DEF Unfolds
      <4>2. CASE k # 0
        <5>1. k \in 1..W /\ k - 1 \in 0..W
          BY <1>1, <4>2
        <5>2. f[k] = step[k][f[k - 1]] /\ f[k - 1] \in Nat
          BY <2>3, <5>1 DEF Unfolds
        <5>3. step[k][f[k - 1]] = f[k - 1] \div Base
          BY <5>1, <5>2
        <5>4. QED BY <4>2, <5>2, <5>3
      <4>3. QED BY <4>1, <4>2
    <3>2. QED BY <3>1
  <2>5. sh = [k \in 0..W |-> IF k = 0 THEN n ELSE sh[k - 1] \div Base]
    BY <2>4
  <2>6. 0 \in 0..W /\ \A k \in 1..W : k \in 0..W /\ k # 0
    BY <1>1
  <2> HIDE DEF sh
  <2>7. QED BY <2>5, <2>6
<1>3. Word(n) = [i \in 1..W |-> sh[W - i] % Base]
  BY DEF Word
<1> HIDE DEF sh
<1>4. \A k \in 0..W : sh[k] \in Nat /\ sh[k] < Power[W - k]
  <2> DEFINE P == { k \in 0..W : sh[k] \in Nat /\ sh[k] < Power[W - k] }
  <2>1. 0 \in P
    BY <1>1, <1>2, PowerIs DEF Words
  <2>2. ASSUME NEW k \in 1..W, k - 1 \in P PROVE k \in P
    <3> DEFINE x == sh[k - 1]
               p == Power[W - k]
    <3>1. W - k \in 0..W /\ W - (k - 1) \in 1..W /\ (W - (k - 1)) - 1 = W - k
      BY <1>1
    <3>2. Power[W - (k - 1)] = Base * p /\ p \in Nat
      BY <3>1, PowerIs
    <3>3. x \in Nat /\ x < Base * p
      BY <2>2, <3>2
    <3> HIDE DEF x, p
    <3>4. x \div Base \in Nat /\ x \div Base < p
      BY <1>1, <3>2, <3>3, Shift
    <3>5. sh[k] = x \div Base
      BY <1>2 DEF x
    <3>6. QED BY <3>4, <3>5 DEF p
  <2> HIDE DEF P
  <2>3. \A k \in 0..W : k \in P
    BY <1>1, <2>1, <2>2, Induction
  <2>4. QED BY <2>3 DEF P
<1>5. ASSUME NEW k \in 1..W
      PROVE  /\ sh[k - 1] % Base \in Byte
             /\ sh[k - 1] = Base * sh[k] + (sh[k - 1] % Base)
  <2> DEFINE x == sh[k - 1]
             p == x + 1
  <2>1. x \in Nat /\ sh[k] = x \div Base
    <3>1. k - 1 \in 0..W
      BY <1>1
    <3>2. QED BY <1>2, <1>4, <3>1
  <2> HIDE DEF x
  <2>2. p \in Nat /\ x < Base * p
    BY <1>1, <2>1
  <2>3. x % Base \in 0..(Base - 1) /\ x = Base * (x \div Base) + (x % Base)
    BY <1>1, <2>1, <2>2, Shift
  <2>4. QED BY <2>1, <2>3 DEF x, Byte
<1>6. Word(n) \in Seq(Byte) /\ Len(Word(n)) = WordLen
  <2>1. \A i \in 1..W : sh[W - i] % Base \in Byte
    <3>1. TAKE i \in 1..W
    <3>2. W - i + 1 \in 1..W /\ (W - i + 1) - 1 = W - i
      BY <1>1
    <3>3. QED BY <1>5, <3>2
  <2>2. Word(n) \in [1..W -> Byte]
    BY <1>3, <2>1
  <2>3. QED BY <1>1, <2>2
<1>7. ASSUME NEW s, NEW at, \A i \in 1..W : s[at + i] = Word(n)[i]
      PROVE  Rd(s, at) = n
  <2> DEFINE v == CHOOSE v : v = [k \in 0..W |-> IF k = 0 THEN 0
                                       ELSE Base * v[k - 1] + s[at + k]]
             g == [k \in 0..W |-> sh[W - k]]
  <2>1. sh[W] = 0
    BY <1>1, <1>4, PowerIs
  <2>2. ASSUME NEW k \in 1..W PROVE sh[W - k] = Base * sh[W - k + 1] + s[at + k]
    <3>1. W - k + 1 \in 1..W /\ (W - k + 1) - 1 = W - k
      BY <1>1
    <3>2. sh[W - k] = Base * sh[W - k + 1] + (sh[W - k] % Base)
      BY <1>5, <3>1
    <3>3. s[at + k] = sh[W - k] % Base
      <4>1. Word(n)[k] = sh[W - k] % Base
        BY <1>3
      <4>2. QED BY <1>7, <4>1
    <3> DEFINE x == sh[W - k] % Base
    <3>4. sh[W - k] = Base * sh[W - k + 1] + x
      BY <3>2
    <3>5. s[at + k] = x
      BY <3>3
    <3> HIDE DEF x
    <3>6. QED BY <3>4, <3>5
  <2>3. g = [k \in 0..W |-> IF k = 0 THEN 0 ELSE Base * g[k - 1] + s[at + k]]
    <3>1. ASSUME NEW k \in 0..W
          PROVE  sh[W - k] = IF k = 0 THEN 0 ELSE Base * g[k - 1] + s[at + k]
      <4>1. CASE k = 0
        BY <1>1, <2>1, <4>1
      <4>2. CASE k # 0
        <5>1. k \in 1..W /\ k - 1 \in 0..W /\ W - (k - 1) = W - k + 1
          BY <1>1, <4>2
        <5>2. g[k - 1] = sh[W - k + 1]
          BY <5>1
        <5> HIDE DEF g
        <5>3. QED BY <2>2, <4>2, <5>1, <5>2
      <4>3. QED BY <4>1, <4>2
    <3>2. QED BY <3>1
  <2>4. v = [k \in 0..W |-> IF k = 0 THEN 0 ELSE Base * v[k - 1] + s[at + k]]
    BY <2>3
  <2>5. Rd(s, at) = v[W]
    BY DEF Rd
  <2> HIDE DEF v
  <2>6. \A k \in 0..W : v[k] = sh[W - k]
    <3> DEFINE P == { k \in 0..W : v[k] = sh[W - k] }
    <3>1. 0 \in P
      BY <1>1, <2>1, <2>4
    <3>2. ASSUME NEW k \in 1..W, k - 1 \in P PROVE k \in P
      <4>1. W - (k - 1) = W - k + 1 /\ k \in 0..W /\ k # 0
        BY <1>1
      <4>2. v[k - 1] = sh[W - k + 1]
        BY <3>2, <4>1
      <4>3. v[k] = Base * v[k - 1] + s[at + k]
        BY <2>4, <4>1
      <4>4. v[k] = sh[W - k]
        BY <2>2, <4>2, <4>3
      <4>5. QED BY <4>1, <4>4
    <3> HIDE DEF P
    <3>3. \A k \in 0..W : k \in P
      BY <1>1, <3>1, <3>2, Induction
    <3>4. QED BY <3>3 DEF P
  <2>7. QED BY <1>1, <1>2, <2>5, <2>6
<1>8. QED BY <1>6, <1>7

--------------------------------------------------------------------------------
(***************************************************************************)
(* The bytes of a message.                                                 *)
(***************************************************************************)
LEMMA Sizes ==
  /\ WordLen \in Nat \ {0} /\ Base \in Nat /\ Base > 15
  /\ 0..14 \subseteq Byte /\ Byte \subseteq Nat /\ Words \in Nat /\ Words > 14
BY ExecReplyAssumption, PowerIs DEF Byte

LEMMA ColumnIs ==
  ASSUME NEW v, v = NoValue \/ (v \in Seq(Byte) /\ 2 * Len(v) < Words)
  PROVE  Column(v) \in Seq(Byte)
<1>1. CASE v = NoValue
  <2>1. Words - 1 \in 0..(Words - 1)
    BY Sizes
  <2>2. QED BY <1>1, <2>1, WordIs DEF Column
<1>2. CASE v # NoValue
  <2>1. Len(v) \in Nat
    BY <1>2, LenProperties
  <2>2. Len(v) \in 0..(Words - 1)
    BY <1>2, <2>1, Sizes
  <2>3. Word(Len(v)) \in Seq(Byte)
    BY <2>2, WordIs
  <2>4. QED BY <1>2, <2>3, ConcatProperties DEF Column
<1>3. QED BY <1>1, <1>2

\* The fields of a message by its type.
LEMMA MessageIs ==
  ASSUME NEW m \in Message
  PROVE  /\ m.type \in Byte
         /\ m.type = D => m.row \in Seq({NoValue} \cup Seq(Byte))
         /\ m.type = C => m.tag \in Tags
         /\ m.type = E => m.fields \in Seq([kind : Byte \ {0}, text : Text])
         /\ m.type = R => m.code \in Nat /\ m.salt \in Seq(Byte)
         /\ m.type \notin {D, C, E, R} => m.body \in Seq(Byte)
BY Sizes, SMTT(60) DEF Message, D, C, E, R

LEMMA TextIs ==
  /\ \A t \in Text : t \in Seq(Byte) /\ \A i \in 1..Len(t) : t[i] \in Byte /\ t[i] # 0
  /\ Tags \subseteq Text
<1>1. Text \subseteq Seq(Byte) /\ Tags \subseteq Text
  BY SeqMonotonic DEF Text, Tags
<1>2. \A t \in Text : \A i \in 1..Len(t) : t[i] \in Byte \ {0}
  BY ElementOfSeq DEF Text
<1>3. QED BY <1>1, <1>2

LEMMA FieldIs ==
  ASSUME NEW f \in [kind : Byte \ {0}, text : Text]
  PROVE  Field(f) \in Seq(Byte)
<1>1. <<f.kind>> \in Seq(Byte) /\ <<0>> \in Seq(Byte) /\ f.text \in Seq(Byte)
  BY Sizes, TextIs
<1>2. QED BY <1>1, ConcatProperties DEF Field

Cols(m) == [i \in 1..Len(m.row) |-> Column(m.row[i])]
Flds(m) == [i \in 1..Len(m.fields) |-> Field(m.fields[i])]

LEMMA BodyIs ==
  ASSUME NEW m \in Message, Fits(m)
  PROVE  /\ Body(m) \in Seq(Byte) /\ Len(Body(m)) \in Nat
         /\ m.type = D => /\ Cols(m) \in Seq(Seq(Byte)) /\ Len(Cols(m)) = Len(m.row)
                          /\ Body(m) = <<Len(m.row)>> \o FlattenSeq(Cols(m))
         /\ m.type = C => Body(m) = m.tag \o <<0>>
         /\ m.type = E => /\ Flds(m) \in Seq(Seq(Byte)) /\ Len(Flds(m)) = Len(m.fields)
                          /\ Body(m) = FlattenSeq(Flds(m)) \o <<0>>
         /\ m.type = R => Body(m) = Word(m.code) \o m.salt /\ Word(m.code) \in Seq(Byte)
<1>1. CASE m.type = D
  <2>1. m.row \in Seq({NoValue} \cup Seq(Byte)) /\ Len(m.row) \in Nat /\ Len(m.row) < Base
    BY <1>1, MessageIs, LenProperties DEF Fits
  <2>2. \A i \in 1..Len(m.row) : Column(m.row[i]) \in Seq(Byte)
    <3>1. TAKE i \in 1..Len(m.row)
    <3>2. m.row[i] \in {NoValue} \cup Seq(Byte)
      BY <2>1, ElementOfSeq
    <3>3. m.row[i] # NoValue => 2 * Len(m.row[i]) < Words
      BY <1>1 DEF Fits
    <3> DEFINE v == m.row[i]
    <3> HIDE DEF v
    <3>4. v = NoValue \/ (v \in Seq(Byte) /\ 2 * Len(v) < Words)
      BY <3>2, <3>3 DEF v
    <3>5. Column(v) \in Seq(Byte)
      BY <3>4, ColumnIs
    <3>6. QED BY <3>5 DEF v
  <2>3. Cols(m) \in Seq(Seq(Byte)) /\ Len(Cols(m)) = Len(m.row)
    BY <2>1, <2>2 DEF Cols
  <2>4. Body(m) = <<Len(m.row)>> \o FlattenSeq(Cols(m))
    BY <1>1 DEF Body, Cols, D, C, E, R
  <2>5. FlattenSeq(Cols(m)) \in Seq(Byte)
    BY <2>3, UptoIs
  <2>6. <<Len(m.row)>> \in Seq(Byte)
    BY <2>1, Sizes DEF Byte
  <2>7. Body(m) \in Seq(Byte)
    BY <2>4, <2>5, <2>6, ConcatProperties
  <2>8. QED BY <1>1, <2>3, <2>4, <2>7, LenProperties DEF D, C, E, R
<1>2. CASE m.type = C
  <2>1. m.tag \in Seq(Byte) /\ <<0>> \in Seq(Byte)
    BY <1>2, MessageIs, TextIs, Sizes
  <2>2. Body(m) = m.tag \o <<0>>
    BY <1>2 DEF Body, D, C, E, R
  <2>3. Body(m) \in Seq(Byte)
    BY <2>1, <2>2, ConcatProperties
  <2>4. QED BY <1>2, <2>2, <2>3, LenProperties DEF D, C, E, R
<1>3. CASE m.type = E
  <2>1. m.fields \in Seq([kind : Byte \ {0}, text : Text]) /\ Len(m.fields) \in Nat
    BY <1>3, MessageIs, LenProperties
  <2>2. \A i \in 1..Len(m.fields) : Field(m.fields[i]) \in Seq(Byte)
    BY <2>1, ElementOfSeq, FieldIs
  <2>3. Flds(m) \in Seq(Seq(Byte)) /\ Len(Flds(m)) = Len(m.fields)
    BY <2>1, <2>2 DEF Flds
  <2>4. Body(m) = FlattenSeq(Flds(m)) \o <<0>>
    BY <1>3 DEF Body, Flds, D, C, E, R
  <2>5. FlattenSeq(Flds(m)) \in Seq(Byte) /\ <<0>> \in Seq(Byte)
    <3>1. FlattenSeq(Flds(m)) \in Seq(Byte)
      BY <2>3, UptoIs
    <3>2. QED BY <3>1, Sizes
  <2>6. Body(m) \in Seq(Byte)
    BY <2>4, <2>5, ConcatProperties
  <2>7. QED BY <1>3, <2>3, <2>4, <2>6, LenProperties DEF D, C, E, R
<1>4. CASE m.type = R
  <2>1. m.code \in 0..(Words - 1) /\ m.salt \in Seq(Byte)
    <3> DEFINE c == m.code
    <3>1. c \in Nat /\ m.salt \in Seq(Byte)
      BY <1>4, MessageIs
    <3>2. c < Words
      BY <1>4 DEF Fits
    <3> HIDE DEF c
    <3>3. c \in 0..(Words - 1)
      BY <3>1, <3>2, Sizes
    <3>4. QED BY <3>1, <3>3 DEF c
  <2>2. Word(m.code) \in Seq(Byte)
    BY <2>1, WordIs
  <2>3. Body(m) = Word(m.code) \o m.salt
    <3>1. m.type # D /\ m.type # C /\ m.type # E
      BY <1>4 DEF D, C, E, R
    <3>2. QED BY <1>4, <3>1 DEF Body
  <2>4. Body(m) \in Seq(Byte)
    BY <2>1, <2>2, <2>3, ConcatProperties
  <2>5. Len(Body(m)) \in Nat
    BY <2>4, LenProperties
  <2>6. m.type # D /\ m.type # C /\ m.type # E
    BY <1>4 DEF D, C, E, R
  <2>7. QED BY <2>2, <2>3, <2>4, <2>5, <2>6
<1>5. CASE m.type \notin {D, C, E, R}
  <2>1. Body(m) = m.body
    BY <1>5 DEF Body
  <2>2. QED BY <1>5, <2>1, MessageIs, LenProperties
<1>6. QED BY <1>1, <1>2, <1>3, <1>4, <1>5

LEMMA FrameIs ==
  ASSUME NEW m \in Message, Fits(m)
  PROVE  /\ Frame(m) \in Seq(Byte)
         /\ Len(Frame(m)) = 1 + WordLen + Len(Body(m))
         /\ Frame(m)[1] = m.type
         /\ \A i \in 1..WordLen :
              Frame(m)[1 + i] = Word(WordLen + Len(Body(m)))[i]
         /\ \A i \in 1..Len(Body(m)) : Frame(m)[1 + WordLen + i] = Body(m)[i]
<1> DEFINE b == Body(m)
           l == Len(b)
           w == Word(WordLen + l)
           h == <<m.type>>
           a == h \o w
           f == a \o b
<1>1. b \in Seq(Byte) /\ l \in Nat /\ WordLen \in Nat /\ WordLen + l < Words /\ m.type \in Byte
  BY BodyIs, Sizes, MessageIs DEF Fits
<1>2. w \in Seq(Byte) /\ Len(w) = WordLen
  <2>1. WordLen + l \in 0..(Words - 1)
    BY <1>1, Sizes
  <2> HIDE DEF l
  <2>2. QED BY <2>1, WordIs
<1>3. h \in Seq(Byte) /\ Len(h) = 1 /\ h[1] = m.type
  BY <1>1
<1>4. Frame(m) = f
  BY DEF Frame
<1> HIDE DEF w, h
<1>5. /\ a \in Seq(Byte) /\ Len(a) = 1 + WordLen
      /\ \A i \in 1..(1 + WordLen) : a[i] = IF i <= 1 THEN h[i] ELSE w[i - 1]
  BY <1>2, <1>3, ConcatProperties, SMTT(60)
<1> HIDE DEF a, b
<1>6. /\ f \in Seq(Byte) /\ Len(f) = 1 + WordLen + l
      /\ \A i \in 1..(1 + WordLen + l) :
           f[i] = IF i <= 1 + WordLen THEN a[i] ELSE b[i - (1 + WordLen)]
  BY <1>1, <1>5, ConcatProperties
<1> HIDE DEF f, l
<1>7. f[1] = m.type
  <2>1. 1 \in 1..(1 + WordLen + l) /\ 1 \in 1..(1 + WordLen) /\ 1 <= 1 + WordLen
    BY <1>1
  <2>2. QED BY <1>3, <1>5, <1>6, <2>1
<1>8. \A i \in 1..WordLen : f[1 + i] = w[i]
  <2>1. TAKE i \in 1..WordLen
  <2>2. 1 + i \in 1..(1 + WordLen + l) /\ 1 + i \in 1..(1 + WordLen) /\ 1 + i <= 1 + WordLen
        /\ ~(1 + i <= 1) /\ (1 + i) - 1 = i
    BY <1>1
  <2>3. QED BY <1>5, <1>6, <2>2
<1>9. \A i \in 1..l : f[1 + WordLen + i] = b[i]
  <2>1. TAKE i \in 1..l
  <2>2. 1 + WordLen + i \in 1..(1 + WordLen + l) /\ ~(1 + WordLen + i <= 1 + WordLen)
        /\ (1 + WordLen + i) - (1 + WordLen) = i
    BY <1>1
  <2>3. QED BY <1>6, <2>2
<1>10. QED BY <1>4, <1>6, <1>7, <1>8, <1>9 DEF w, l, b


--------------------------------------------------------------------------------
(***************************************************************************)
(* The bytes of a reply, and where its frames are in them.                 *)
(***************************************************************************)
Good(ms) == ms \in Seq(Message) /\ \A i \in 1..Len(ms) : Fits(ms[i])

\* Where the k-th message ends.
Ends(ms, k) == Len(Bytes(SubSeq(ms, 1, k)))

Frames(ms) == [i \in 1..Len(ms) |-> Frame(ms[i])]

LEMMA GoodIs ==
  ASSUME NEW ms, Good(ms)
  PROVE  /\ Len(ms) \in Nat
         /\ \A k \in 1..Len(ms) : ms[k] \in Message /\ Fits(ms[k])
         /\ Frames(ms) \in Seq(Seq(Byte)) /\ Len(Frames(ms)) = Len(ms)
         /\ \A k \in 1..Len(ms) : Frames(ms)[k] = Frame(ms[k])
<1>1. Len(ms) \in Nat /\ \A k \in 1..Len(ms) : ms[k] \in Message /\ Fits(ms[k])
  BY LenProperties, ElementOfSeq DEF Good
<1>2. \A k \in 1..Len(ms) : Frame(ms[k]) \in Seq(Byte)
  BY <1>1, FrameIs
<1>3. QED BY <1>1, <1>2 DEF Frames

LEMMA FirstGood ==
  ASSUME NEW ms, Good(ms), NEW k \in 0..Len(ms)
  PROVE  /\ Good(SubSeq(ms, 1, k)) /\ Len(SubSeq(ms, 1, k)) = k
         /\ \A i \in 1..k : SubSeq(ms, 1, k)[i] = ms[i]
         /\ Frames(SubSeq(ms, 1, k)) = SubSeq(Frames(ms), 1, k)
<1> DEFINE s == SubSeq(ms, 1, k)
           a == Frames(s)
           b == SubSeq(Frames(ms), 1, k)
<1>1. /\ s \in Seq(Message) /\ Len(s) = k /\ k \in Nat
      /\ \A i \in 1..k : s[i] = ms[i]
  BY Firsts DEF Good
<1>2. Good(s)
  <2>1. \A i \in 1..k : i \in 1..Len(ms)
    BY GoodIs
  <2>2. QED BY <1>1, <2>1 DEF Good
<1> HIDE DEF s
<1>3. a \in Seq(Seq(Byte)) /\ Len(a) = k /\ \A i \in 1..k : a[i] = Frame(s[i])
  BY <1>1, <1>2, GoodIs
<1>4. b \in Seq(Seq(Byte)) /\ Len(b) = k /\ \A i \in 1..k : b[i] = Frames(ms)[i]
  <2> DEFINE f == Frames(ms)
  <2>1. f \in Seq(Seq(Byte)) /\ Len(f) = Len(ms)
    BY GoodIs
  <2> HIDE DEF f
  <2>2. k \in 0..Len(f)
    BY <2>1
  <2>3. SubSeq(f, 1, k) \in Seq(Seq(Byte)) /\ Len(SubSeq(f, 1, k)) = k
        /\ \A i \in 1..k : SubSeq(f, 1, k)[i] = f[i]
    BY <2>1, <2>2, Firsts
  <2>4. QED BY <2>3 DEF f
<1>5. \A i \in 1..k : a[i] = b[i]
  <2>1. TAKE i \in 1..k
  <2>2. i \in 1..Len(ms)
    BY GoodIs
  <2>3. Frames(ms)[i] = Frame(ms[i])
    BY <2>2, GoodIs
  <2>4. QED BY <1>1, <1>3, <1>4, <2>3
<1> HIDE DEF a, b
<1>6. a = b
  BY <1>3, <1>4, <1>5, SeqEqual
<1>7. QED BY <1>1, <1>2, <1>6 DEF a, b, s

\* Each message begins where the one before ends, and its frame is there.
LEMMA BytesIs ==
  ASSUME NEW ms, Good(ms)
  PROVE  /\ Bytes(ms) \in Seq(Byte) /\ Ends(ms, 0) = 0 /\ Ends(ms, Len(ms)) = Len(Bytes(ms))
         /\ \A k \in 0..Len(ms) : Ends(ms, k) \in 0..Len(Bytes(ms))
         /\ \A k \in 1..Len(ms) :
              /\ Ends(ms, k) = Ends(ms, k - 1) + 1 + WordLen + Len(Body(ms[k]))
              /\ \A i \in 1..Len(Frame(ms[k])) :
                   Bytes(ms)[Ends(ms, k - 1) + i] = Frame(ms[k])[i]
<1> DEFINE fs == Frames(ms)
           n == Len(ms)
           u == [k \in 0..n |-> Upto(fs, k)]
<1>1. n \in Nat /\ fs \in Seq(Seq(Byte)) /\ Len(fs) = n
      /\ \A k \in 1..n : fs[k] = Frame(ms[k]) /\ ms[k] \in Message /\ Fits(ms[k])
  BY GoodIs
<1>2. \A k \in 0..n : Bytes(SubSeq(ms, 1, k)) = Upto(fs, k)
  <2>1. TAKE k \in 0..n
  <2>2. Frames(SubSeq(ms, 1, k)) = SubSeq(fs, 1, k)
    BY FirstGood
  <2>3. Bytes(SubSeq(ms, 1, k)) = FlattenSeq(Frames(SubSeq(ms, 1, k)))
    BY DEF Bytes, Frames
  <2>4. QED BY <2>2, <2>3 DEF Upto
<1>3. Bytes(ms) = FlattenSeq(fs)
  BY DEF Bytes, Frames
<1> HIDE DEF fs, n
<1>4. /\ Bytes(ms) \in Seq(Byte) /\ Len(Upto(fs, 0)) = 0
      /\ Len(Upto(fs, n)) = Len(Bytes(ms))
      /\ \A k \in 0..n : Len(Upto(fs, k)) \in 0..Len(Bytes(ms))
      /\ \A k \in 1..n :
           /\ Len(Upto(fs, k)) = Len(Upto(fs, k - 1)) + Len(fs[k])
           /\ \A i \in 1..Len(fs[k]) : Bytes(ms)[Len(Upto(fs, k - 1)) + i] = fs[k][i]
  <2> DEFINE r == FlattenSeq(fs)
  <2>1. /\ r \in Seq(Byte) /\ Len(Upto(fs, 0)) = 0 /\ Len(Upto(fs, Len(fs))) = Len(r)
        /\ \A k \in 0..Len(fs) : Len(Upto(fs, k)) \in 0..Len(r)
        /\ \A k \in 1..Len(fs) :
             /\ Len(Upto(fs, k)) = Len(Upto(fs, k - 1)) + Len(fs[k])
             /\ \A i \in 1..Len(fs[k]) : r[Len(Upto(fs, k - 1)) + i] = fs[k][i]
    BY <1>1, BlockIs
  <2> HIDE DEF r
  <2>2. Bytes(ms) = r /\ Len(fs) = n
    BY <1>1, <1>3 DEF r
  <2>3. QED BY <2>1, <2>2
<1>5. \A k \in 0..n : Ends(ms, k) = Len(Upto(fs, k))
  BY <1>2 DEF Ends
<1>6. ASSUME NEW k \in 1..n
      PROVE  /\ Ends(ms, k) = Ends(ms, k - 1) + 1 + WordLen + Len(Body(ms[k]))
             /\ \A i \in 1..Len(Frame(ms[k])) :
                   Bytes(ms)[Ends(ms, k - 1) + i] = Frame(ms[k])[i]
  <2> DEFINE a == Ends(ms, k - 1)
             d == Len(Body(ms[k]))
  <2>1. k - 1 \in 0..n /\ k \in 0..n
    BY <1>1
  <2>2. a \in 0..Len(Bytes(ms)) /\ Ends(ms, k) = a + Len(fs[k])
        /\ \A i \in 1..Len(fs[k]) : Bytes(ms)[a + i] = fs[k][i]
    BY <1>4, <1>5, <2>1
  <2>3. fs[k] = Frame(ms[k]) /\ Len(Frame(ms[k])) = 1 + WordLen + d /\ d \in Nat
    BY <1>1, FrameIs, BodyIs
  <2> HIDE DEF a, d
  <2>4. Ends(ms, k) = a + 1 + WordLen + d
    BY <2>2, <2>3, Sizes
  <2>5. QED BY <2>2, <2>3, <2>4 DEF a, d
<1>7. Ends(ms, 0) = 0 /\ Ends(ms, n) = Len(Bytes(ms))
  <2>1. 0 \in 0..n /\ n \in 0..n
    BY <1>1
  <2>2. QED BY <1>4, <1>5, <2>1
<1>8. QED BY <1>4, <1>5, <1>6, <1>7 DEF n

\* A later message ends later.
LEMMA EndsGrow ==
  ASSUME NEW ms, Good(ms)
  PROVE  \A k \in 0..Len(ms) : \A j \in 0..k :
           /\ Ends(ms, j) <= Ends(ms, k) /\ (j < k => Ends(ms, j) < Ends(ms, k))
           /\ k <= Ends(ms, k)
<1> DEFINE n == Len(ms)
           e == [k \in 0..n |-> Ends(ms, k)]
           P == { k \in 0..n : \A j \in 0..k : j + e[k] >= e[j] + k }
<1>1. n \in Nat
  BY GoodIs
<1>2. /\ e[0] = 0 /\ e \in [0..n -> Nat]
      /\ \A k \in 1..n : e[k - 1] + 1 <= e[k]
  <2>1. 0 \in 0..n /\ \A k \in 0..n : e[k] = Ends(ms, k) /\ Ends(ms, k) \in Nat
    BY <1>1, BytesIs
  <2>2. ASSUME NEW k \in 1..n PROVE e[k - 1] + 1 <= e[k]
    <3>1. k - 1 \in 0..n /\ k \in 0..n
      BY <1>1
    <3>2. Len(Body(ms[k])) \in Nat
      BY GoodIs, BodyIs
    <3>3. Ends(ms, k) = Ends(ms, k - 1) + 1 + WordLen + Len(Body(ms[k]))
      BY BytesIs
    <3> DEFINE l == Len(Body(ms[k]))
               x == Ends(ms, k - 1)
    <3>4. x \in Nat /\ l \in Nat /\ Ends(ms, k) = x + 1 + WordLen + l
          /\ e[k] = Ends(ms, k) /\ e[k - 1] = x
      BY <2>1, <3>1, <3>2, <3>3
    <3> HIDE DEF l, x, e
    <3>5. QED BY <3>4, Sizes
  <2>3. QED BY <2>1, <2>2, BytesIs
<1>3. \A k \in 0..n : \A j \in 0..k : j \in 0..n
  BY <1>1
<1>4. \A k \in 0..n : e[k] = Ends(ms, k)
  OBVIOUS
<1> HIDE DEF e, n
<1>5. 0 \in P
  BY <1>1, <1>2
<1>6. ASSUME NEW k \in 1..n, k - 1 \in P PROVE k \in P
  <2>1. k - 1 \in 0..n /\ k \in 0..n
    BY <1>1
  <2>2. ASSUME NEW j \in 0..k PROVE j + e[k] >= e[j] + k
    <3>1. CASE j = k
      BY <1>2, <2>1, <3>1
    <3>2. CASE j # k
      <4>1. j \in 0..(k - 1) /\ j \in 0..n
        BY <1>1, <2>1, <3>2
      <4>2. j + e[k - 1] >= e[j] + (k - 1)
        BY <1>6, <4>1
      <4>3. e[k - 1] + 1 <= e[k] /\ e[k] \in Nat /\ e[k - 1] \in Nat /\ e[j] \in Nat
        BY <1>2, <2>1, <4>1
      <4>4. QED BY <2>1, <4>1, <4>2, <4>3
    <3>3. QED BY <3>1, <3>2
  <2>3. QED BY <2>1, <2>2
<1> HIDE DEF P
<1>7. \A k \in 0..n : k \in P
  BY <1>1, <1>5, <1>6, Induction
<1>8. ASSUME NEW k \in 0..n, NEW j \in 0..k
      PROVE  e[j] <= e[k] /\ (j < k => e[j] < e[k]) /\ k <= e[k]
  <2>1. 0 \in 0..k /\ \A i \in 0..k : i + e[k] >= e[i] + k
    BY <1>1, <1>7 DEF P
  <2>2. j + e[k] >= e[j] + k /\ 0 + e[k] >= e[0] + k /\ e[0] = 0
    BY <1>2, <2>1
  <2>3. e[j] \in Nat /\ e[k] \in Nat
    BY <1>2, <1>3
  <2>4. QED BY <1>1, <2>2, <2>3
<1>9. QED BY <1>3, <1>4, <1>8 DEF n


\* The bytes that have come are the first of the reply's.
Came(b, ms) ==
  /\ b \in Seq(Byte) /\ Len(b) <= Len(Bytes(ms))
  /\ \A i \in 1..Len(b) : b[i] = Bytes(ms)[i]

\* Behind a message the next one is found when all of it has come, and its length,
\* type and body are read as they were sent.
LEMMA FrameAt ==
  ASSUME NEW ms, Good(ms), NEW b, Came(b, ms), NEW k \in 0..Len(ms),
         Ends(ms, k) <= Len(b)
  PROVE  /\ IsFrame(b, Ends(ms, k)) <=> k < Len(ms) /\ Ends(ms, k + 1) <= Len(b)
         /\ k < Len(ms) /\ Ends(ms, k + 1) <= Len(b) =>
              /\ After(b, Ends(ms, k)) = Ends(ms, k + 1)
              /\ b[Ends(ms, k) + 1] = ms[k + 1].type
              /\ SubSeq(b, Ends(ms, k) + 1 + WordLen + 1, After(b, Ends(ms, k)))
                   = Body(ms[k + 1])
<1> DEFINE n == Len(ms)
           e == Ends(ms, k)
           l == Len(b)
<1>1. n \in Nat /\ k \in 0..n /\ e \in Nat /\ l \in Nat /\ e <= l /\ WordLen \in Nat
      /\ b \in Seq(Byte) /\ \A i \in 1..l : b[i] = Bytes(ms)[i] /\ b[i] \in Byte
  <2>1. e \in 0..Len(Bytes(ms))
    BY BytesIs
  <2>2. b \in Seq(Byte) /\ \A i \in 1..l : b[i] = Bytes(ms)[i]
    BY DEF Came
  <2>3. l \in Nat /\ \A i \in 1..l : b[i] \in Byte
    BY <2>2, LenProperties, ElementOfSeq
  <2>4. QED BY <2>1, <2>2, <2>3, GoodIs, Sizes, SMTT(60)
<1>2. CASE k = n
  <2>1. Ends(ms, n) = Len(Bytes(ms)) /\ l <= Len(Bytes(ms)) /\ Len(Bytes(ms)) \in Nat
    BY BytesIs, LenProperties DEF Came
  <2>2. ~(l - e >= 1 + WordLen) /\ ~(k < n)
    <3> HIDE DEF n, l
    <3>1. QED BY <1>1, <1>2, <2>1
  <2>3. QED BY <2>2 DEF IsFrame
<1>3. CASE k < n
  <2> DEFINE m == ms[k + 1]
             f == Frame(m)
             y == Body(m)
             d == Len(y)
             g == Ends(ms, k + 1)
  <2>1. k + 1 \in 1..n /\ (k + 1) - 1 = k
    BY <1>1, <1>3
  <2>2. /\ m \in Message /\ Fits(m) /\ y \in Seq(Byte) /\ d \in Nat
        /\ g = e + 1 + WordLen + d
        /\ \A i \in 1..Len(f) : Bytes(ms)[e + i] = f[i]
    <3>1. m \in Message /\ Fits(m)
      BY <2>1, GoodIs
    <3>2. y \in Seq(Byte) /\ d \in Nat
      BY <3>1, BodyIs
    <3>3. /\ g = e + 1 + WordLen + d
          /\ \A i \in 1..Len(f) : Bytes(ms)[e + i] = f[i]
      <4>1. \A j \in 1..n :
              /\ Ends(ms, j) = Ends(ms, j - 1) + 1 + WordLen + Len(Body(ms[j]))
              /\ \A i \in 1..Len(Frame(ms[j])) :
                   Bytes(ms)[Ends(ms, j - 1) + i] = Frame(ms[j])[i]
        BY BytesIs
      <4> HIDE DEF n
      <4>2. QED BY <2>1, <4>1
    <3>4. QED BY <3>1, <3>2, <3>3
  <2>3. /\ Len(f) = 1 + WordLen + d /\ f[1] = m.type
        /\ \A i \in 1..WordLen : f[1 + i] = Word(WordLen + d)[i]
        /\ \A i \in 1..d : f[1 + WordLen + i] = y[i]
    BY <2>2, FrameIs
  <2>4. WordLen + d \in 0..(Words - 1)
    <3>1. WordLen + d < Words
      BY <2>2 DEF Fits
    <3>2. d \in Nat
      BY <2>2
    <3> HIDE DEF d
    <3>3. QED BY <3>1, <3>2, Sizes
  <2> HIDE DEF m, f, y, d, e, g, l, n
  <2>5. ASSUME NEW i \in 1..(1 + WordLen + d), e + i <= l
        PROVE  b[e + i] = f[i]
    <3>1. e + i \in 1..l
      BY <1>1, <2>2, <2>5
    <3>2. QED BY <1>1, <2>2, <2>3, <3>1
  <2>6. ASSUME l - e >= 1 + WordLen PROVE Rd(b, e + 1) = WordLen + d
    <3>1. \A i \in 1..WordLen : b[(e + 1) + i] = Word(WordLen + d)[i]
      <4>1. TAKE i \in 1..WordLen
      <4>2. 1 + i \in 1..(1 + WordLen + d) /\ e + (1 + i) <= l /\ (e + 1) + i = e + (1 + i)
        BY <1>1, <2>2, <2>6
      <4>3. b[e + (1 + i)] = f[1 + i]
        BY <2>5, <4>2
      <4>4. QED BY <2>3, <4>2, <4>3
    <3> DEFINE w == WordLen + d
               x == e + 1
    <3> HIDE DEF w, x
    <3>2. w \in 0..(Words - 1) /\ \A i \in 1..WordLen : b[x + i] = Word(w)[i]
      BY <2>4, <3>1 DEF w, x
    <3>3. Rd(b, x) = w
      BY <3>2, WordIs
    <3>4. QED BY <3>3 DEF w, x
  <2>7. IsFrame(b, e) <=> g <= l
    <3>1. CASE l - e >= 1 + WordLen
      <4>1. Rd(b, e + 1) >= WordLen
        BY <1>1, <2>2, <2>6, <3>1
      <4>2. e + 1 + Rd(b, e + 1) <= l <=> g <= l
        BY <1>1, <2>2, <2>6, <3>1
      <4>3. QED BY <3>1, <4>1, <4>2 DEF IsFrame, l
    <3>2. CASE ~(l - e >= 1 + WordLen)
      <4>1. ~(g <= l)
        BY <1>1, <2>2, <3>2
      <4>2. QED BY <3>2, <4>1 DEF IsFrame, l
    <3>3. QED BY <3>1, <3>2
  <2>8. ASSUME g <= l
        PROVE  /\ After(b, e) = g /\ b[e + 1] = m.type
               /\ SubSeq(b, e + 1 + WordLen + 1, After(b, e)) = y
    <3>1. l - e >= 1 + WordLen
      BY <1>1, <2>2, <2>8
    <3>2. After(b, e) = g
      <4>1. Rd(b, e + 1) = WordLen + d
        BY <2>6, <3>1
      <4>2. e + 1 + (WordLen + d) = g
        BY <1>1, <2>2
      <4>3. QED BY <4>1, <4>2 DEF After
    <3>3. b[e + 1] = m.type
      <4>1. 1 \in 1..(1 + WordLen + d) /\ e + 1 <= l
        BY <1>1, <2>2, <3>1
      <4>2. QED BY <2>3, <2>5, <4>1
    <3> DEFINE p == e + 1 + WordLen
    <3>4. p \in Nat /\ p + d = g /\ p + d <= l
      BY <1>1, <2>2, <2>8
    <3>5. \A i \in 1..d : b[p + i] = y[i]
      <4>1. TAKE i \in 1..d
      <4>2. /\ 1 + WordLen + i \in 1..(1 + WordLen + d) /\ e + (1 + WordLen + i) <= l
            /\ p + i = e + (1 + WordLen + i)
        BY <1>1, <2>2, <2>8
      <4>3. QED BY <2>3, <2>5, <4>2
    <3> HIDE DEF p
    <3>6. SubSeq(b, p + 1, p + d) = y
      BY <1>1, <2>2, <3>4, <3>5, Slice DEF d, l
    <3>7. QED BY <3>2, <3>3, <3>4, <3>6 DEF p
  <2>9. QED BY <1>3, <2>7, <2>8 DEF m, y, e, g, l, n
<1>4. k = n \/ k < n
  BY <1>1
<1>5. QED BY <1>2, <1>3, <1>4


\* k messages are whole in the first n bytes.
Whole(ms, n, k) ==
  k \in 0..Len(ms) /\ Ends(ms, k) <= n /\ (k < Len(ms) => Ends(ms, k + 1) > n)

LEMMA WholeIs ==
  ASSUME Good(sent), NEW n \in Nat
  PROVE  /\ \E k : Whole(sent, n, k)
         /\ \A k : Whole(sent, n, k) =>
              /\ WholeIn(n) = SubSeq(sent, 1, k) /\ Len(WholeIn(n)) = k
              /\ \A j \in 0..Len(sent) : Ends(sent, j) <= n <=> j <= k
<1> DEFINE N == Len(sent)
           e(k) == Ends(sent, k)
<1>1. N \in Nat /\ e(0) = 0 /\ \A k \in 0..N : e(k) \in Nat
  <2>1. \A k \in 0..N : e(k) \in 0..Len(Bytes(sent))
    BY BytesIs
  <2>2. QED BY <2>1, BytesIs, GoodIs
<1>2. \A k \in 0..N : \A j \in 0..k : e(j) <= e(k)
  BY EndsGrow
<1>3. \E k : Whole(sent, n, k)
  <2> DEFINE K == { k \in 0..N : e(k) <= n }
  <2>1. K \in SUBSET (0..N) /\ 0 \in K
    BY <1>1
  <2>2. PICK k \in K : \A j \in K : j <= k
    <3> HIDE DEF K, N
    <3>1. K # {}
      BY <2>1
    <3>2. QED BY <1>1, <2>1, <3>1, Greatest
  <2>3. ASSUME k < N PROVE e(k + 1) > n
    <3>1. k + 1 \in 0..N /\ ~(k + 1 <= k)
      BY <1>1, <2>3
    <3>2. k + 1 \notin K
      BY <2>2, <3>1
    <3>3. e(k + 1) \in Nat /\ ~(e(k + 1) <= n)
      BY <1>1, <3>1, <3>2
    <3>4. QED BY <3>3
  <2>4. QED BY <2>2, <2>3 DEF Whole
<1>4. ASSUME NEW k, Whole(sent, n, k), NEW j \in 0..N
      PROVE  e(j) <= n <=> j <= k
  <2>1. k \in 0..N /\ e(k) <= n /\ (k < N => e(k + 1) > n)
    BY <1>4 DEF Whole
  <2> HIDE DEF N
  <2>2. CASE j <= k
    <3>1. j \in 0..k /\ e(j) \in Nat /\ e(k) \in Nat
      BY <1>1, <2>1, <2>2
    <3>2. e(j) <= e(k)
      BY <1>2, <2>1, <3>1
    <3> HIDE DEF e
    <3>3. QED BY <2>1, <2>2, <3>1, <3>2
  <2>3. CASE ~(j <= k)
    <3>1. k < N /\ k + 1 \in 0..j /\ k + 1 \in 0..N
      BY <1>1, <2>1, <2>3
    <3>2. e(k + 1) <= e(j) /\ e(k + 1) \in Nat /\ e(j) \in Nat /\ e(k + 1) > n
      BY <1>1, <1>2, <2>1, <3>1
    <3> HIDE DEF e
    <3>3. QED BY <2>3, <3>2
  <2>4. QED BY <2>2, <2>3
<1>5. ASSUME NEW k, Whole(sent, n, k)
      PROVE  WholeIn(n) = SubSeq(sent, 1, k)
  <2> DEFINE Q(i) == e(i) <= n /\ (i < N => e(i + 1) > n)
             c == CHOOSE i \in 0..N : Q(i)
  <2>1. WholeIn(n) = SubSeq(sent, 1, c)
    BY DEF WholeIn, Ends
  <2>2. k \in 0..N /\ Q(k)
    BY <1>5 DEF Whole
  <2>3. c \in 0..N /\ Q(c)
    <3> HIDE DEF Q, N
    <3>1. QED BY <2>2
  <2>4. Whole(sent, n, c)
    BY <2>3 DEF Whole
  <2> HIDE DEF c, N
  <2>5. c <= k /\ k <= c
    BY <1>4, <1>5, <2>2, <2>3, <2>4
  <2>6. c = k
    BY <1>1, <2>2, <2>3, <2>5
  <2>7. QED BY <2>1, <2>6
<1>6. ASSUME NEW k, Whole(sent, n, k)
      PROVE  Len(WholeIn(n)) = k
  <2>1. k \in 0..Len(sent)
    BY <1>6 DEF Whole
  <2>2. QED BY <1>5, <1>6, <2>1, FirstGood
<1>7. QED BY <1>3, <1>4, <1>5, <1>6

\* The loop over the frames of what has come goes from message to message until
\* it is at one that is not whole.
LEMMA StartIs ==
  ASSUME NEW ms, Good(ms), NEW b, Came(b, ms), NEW w, Whole(ms, Len(b), w)
  PROVE  /\ w \in 0..Len(b)
         /\ \A k \in 0..Len(b) :
              Start(b)[k] = Ends(ms, IF k < w THEN k ELSE w)
<1> DEFINE l == Len(b)
           n == Len(ms)
           to(k) == IF k < w THEN k ELSE w
           st == CHOOSE st : st = [k \in 0..l |->
                   IF k = 0 THEN 0
                   ELSE LET at == st[k - 1]
                        IN IF IsFrame(b, at) THEN After(b, at) ELSE at]
           g == [k \in 0..l |-> Ends(ms, to(k))]
<1>1. Start(b) = st
  BY DEF Start
<1>2. l \in Nat /\ n \in Nat /\ w \in 0..n /\ Ends(ms, w) <= l
      /\ (w < n => Ends(ms, w + 1) > l)
  BY GoodIs, LenProperties DEF Came, Whole
<1>3. w \in 0..l
  <2>1. w \in 0..w
    BY <1>2
  <2>2. w <= Ends(ms, w) /\ Ends(ms, w) \in 0..Len(Bytes(ms))
    BY <1>2, <2>1, EndsGrow, BytesIs
  <2>3. QED BY <1>2, <2>2
<1>4. ASSUME NEW k \in 0..n, Ends(ms, k) <= l
      PROVE  /\ IsFrame(b, Ends(ms, k)) <=> k < n /\ Ends(ms, k + 1) <= l
             /\ k < n /\ Ends(ms, k + 1) <= l => After(b, Ends(ms, k)) = Ends(ms, k + 1)
  BY <1>4, FrameAt
<1>5. ASSUME NEW k \in 0..n, k <= w PROVE Ends(ms, k) <= l /\ Ends(ms, k) \in Nat
  <2>1. k \in 0..w /\ w \in 0..n
    BY <1>2, <1>5
  <2>2. Ends(ms, k) <= Ends(ms, w) /\ Ends(ms, k) \in 0..Len(Bytes(ms))
        /\ Ends(ms, w) \in 0..Len(Bytes(ms))
    BY <2>1, EndsGrow, BytesIs
  <2>3. QED BY <1>2, <2>2
<1> HIDE DEF l, n
<1>6. ASSUME NEW k \in 1..l
      PROVE  g[k] = IF IsFrame(b, g[k - 1]) THEN After(b, g[k - 1]) ELSE g[k - 1]
  <2>1. k - 1 \in 0..l /\ k \in 0..l
    BY <1>2
  <2>2. g[k] = Ends(ms, to(k)) /\ g[k - 1] = Ends(ms, to(k - 1))
    BY <2>1
  <2>3. CASE k <= w
    <3>1. to(k - 1) = k - 1 /\ to(k) = k /\ k - 1 \in 0..n /\ k - 1 <= w /\ k \in 0..n
          /\ k - 1 < n /\ (k - 1) + 1 = k
      BY <1>2, <2>3
    <3>2. Ends(ms, k - 1) <= l /\ Ends(ms, k) <= l
      BY <1>5, <2>3, <3>1
    <3>3. IsFrame(b, Ends(ms, k - 1)) /\ After(b, Ends(ms, k - 1)) = Ends(ms, k)
      BY <1>4, <3>1, <3>2
    <3>4. QED BY <2>2, <3>1, <3>3
  <2>4. CASE ~(k <= w)
    <3>1. to(k - 1) = w /\ to(k) = w /\ w \in 0..n /\ w <= w
      BY <1>2, <2>4
    <3>2. Ends(ms, w) <= l
      BY <1>2
    <3>3. ~(w < n /\ Ends(ms, w + 1) <= l)
      <4>1. ASSUME w < n PROVE ~(Ends(ms, w + 1) <= l)
        <5>1. w + 1 \in 0..n
          BY <1>2, <4>1
        <5>2. Ends(ms, w + 1) > l /\ Ends(ms, w + 1) \in 0..Len(Bytes(ms))
          BY <1>2, <4>1, <5>1, BytesIs DEF n
        <5>3. QED BY <1>2, <5>2
      <4>2. QED BY <4>1
    <3>4. ~IsFrame(b, Ends(ms, w))
      BY <1>4, <3>1, <3>2, <3>3
    <3>5. QED BY <2>2, <3>1, <3>4
  <2>5. QED BY <2>3, <2>4
<1>7. g[0] = 0
  <2>1. 0 \in 0..l /\ to(0) = 0
    BY <1>2
  <2>2. QED BY <2>1, BytesIs
<1>8. g = [k \in 0..l |-> IF k = 0 THEN 0
                          ELSE LET at == g[k - 1]
                               IN IF IsFrame(b, at) THEN After(b, at) ELSE at]
  <2>1. ASSUME NEW k \in 0..l
        PROVE  Ends(ms, to(k)) = IF k = 0 THEN 0
                           ELSE IF IsFrame(b, g[k - 1]) THEN After(b, g[k - 1]) ELSE g[k - 1]
    <3>1. g[k] = Ends(ms, to(k))
      OBVIOUS
    <3>2. k # 0 => k \in 1..l
      BY <1>2
    <3> HIDE DEF g, to
    <3>3. QED BY <1>6, <1>7, <3>1, <3>2
  <2> HIDE DEF to
  <2>2. QED BY <2>1
<1>9. st = [k \in 0..l |-> IF k = 0 THEN 0
                           ELSE LET at == st[k - 1]
                                IN IF IsFrame(b, at) THEN After(b, at) ELSE at]
  BY <1>8 DEF l
<1> HIDE DEF st, g
<1>10. \A k \in 0..l : st[k] = g[k]
  <2> DEFINE P == { k \in 0..l : st[k] = g[k] }
  <2>1. 0 \in P
    <3>1. 0 \in 0..l
      BY <1>2
    <3>2. QED BY <1>7, <1>9, <3>1
  <2>2. ASSUME NEW k \in 1..l, k - 1 \in P PROVE k \in P
    <3>1. k \in 0..l /\ k # 0
      BY <1>2
    <3>2. st[k] = IF IsFrame(b, st[k - 1]) THEN After(b, st[k - 1]) ELSE st[k - 1]
      BY <1>9, <3>1
    <3>3. st[k - 1] = g[k - 1]
      BY <2>2
    <3>4. QED BY <1>6, <3>1, <3>2, <3>3
  <2> HIDE DEF P
  <2>3. \A k \in 0..l : k \in P
    BY <1>2, <2>1, <2>2, Induction
  <2>4. QED BY <2>3 DEF P
<1>11. QED BY <1>1, <1>3, <1>10 DEF g, l

LEMMA RfqFound ==
  ASSUME Good(sent), Came(buf, sent)
  PROVE  ReadyIsFound
<1> DEFINE l == Len(buf)
           n == Len(sent)
<1>1. l \in Nat /\ n \in Nat
  BY GoodIs, LenProperties DEF Came
<1>2. PICK w : Whole(sent, l, w)
  BY <1>1, WholeIs
<1>3. Len(WholeIn(l)) = w /\ w \in 0..n /\ w \in 0..l
      /\ \A j \in 0..n : Ends(sent, j) <= l <=> j <= w
  BY <1>1, <1>2, WholeIs, StartIs DEF Whole
<1>4. \A k \in 0..l : Start(buf)[k] = Ends(sent, IF k < w THEN k ELSE w)
  BY <1>2, StartIs
<1>5. ASSUME NEW k \in 0..n, k <= w
      PROVE  /\ IsFrame(buf, Ends(sent, k)) <=> k < w
             /\ k < w => buf[Ends(sent, k) + 1] = sent[k + 1].type
  <2>1. Ends(sent, k) <= l
    BY <1>3, <1>5
  <2>2. /\ IsFrame(buf, Ends(sent, k)) <=> k < n /\ Ends(sent, k + 1) <= l
        /\ k < n /\ Ends(sent, k + 1) <= l => buf[Ends(sent, k) + 1] = sent[k + 1].type
    BY <2>1, FrameAt
  <2>3. k < n /\ Ends(sent, k + 1) <= l <=> k < w
    <3>1. CASE k < n
      <4>1. k + 1 \in 0..n
        BY <1>1, <3>1
      <4>2. Ends(sent, k + 1) <= l <=> k + 1 <= w
        BY <1>3, <4>1
      <4>3. k + 1 <= w <=> k < w
        BY <1>1, <1>3
      <4>4. QED BY <3>1, <4>2, <4>3
    <3>2. CASE ~(k < n)
      BY <1>1, <1>3, <3>2
    <3>3. QED BY <3>1, <3>2
  <2>4. QED BY <2>2, <2>3
<1> HIDE DEF l, n
<1>6. ASSUME HasRfq(buf) PROVE \E i \in 1..w : sent[i].type = Z
  <2>1. PICK k \in 0..l : IsFrame(buf, Start(buf)[k]) /\ buf[Start(buf)[k] + 1] = Z
    BY <1>6 DEF HasRfq, l
  <2> DEFINE j == IF k < w THEN k ELSE w
  <2>2. j \in 0..n /\ j <= w /\ Start(buf)[k] = Ends(sent, j)
    BY <1>1, <1>3, <1>4
  <2> HIDE DEF j
  <2>3. j < w /\ sent[j + 1].type = Z
    BY <1>5, <2>1, <2>2
  <2>4. j + 1 \in 1..w
    BY <1>1, <1>3, <2>2, <2>3
  <2>5. QED BY <2>3, <2>4
<1>7. ASSUME NEW i \in 1..w, sent[i].type = Z PROVE HasRfq(buf)
  <2> DEFINE k == i - 1
  <2>1. k \in 0..n /\ k <= w /\ k < w /\ k \in 0..l /\ k + 1 = i
    BY <1>1, <1>3
  <2> HIDE DEF k
  <2>2. Start(buf)[k] = Ends(sent, k)
    BY <1>4, <2>1
  <2>3. IsFrame(buf, Ends(sent, k)) /\ buf[Ends(sent, k) + 1] = Z
    BY <1>5, <1>7, <2>1
  <2>4. QED BY <2>1, <2>2, <2>3 DEF HasRfq, l
<1>8. QED BY <1>3, <1>6, <1>7 DEF ReadyIsFound, l


\* Doubling gets there.
LEMMA GrownIs ==
  ASSUME NEW c \in Nat, NEW need \in Nat
  PROVE  Grown(c, need) \in Nat /\ need <= Grown(c, need)
<1> DEFINE first == IF c = 0 THEN FirstCap ELSE c
           d == CHOOSE d : d = [k \in 0..need |-> IF k > 0 THEN 2 * d[k - 1] ELSE first]
           Least(k) == d[k] >= need /\ \A j \in 0..(k - 1) : d[j] < need
<1>1. first \in Nat /\ first > 0
  BY ExecReplyAssumption
<1> HIDE DEF first
<1>2. d[0] = first /\ \A k \in 1..need : d[k] = 2 * d[k - 1]
  <2> DEFINE step == [i \in 1..need |-> [x \in Nat |-> 2 * x]]
  <2>1. step \in [1..need -> [Nat -> Nat]]
    OBVIOUS
  <2>2. \E f \in [0..need -> Nat] : Unfolds(f, need, first, step)
    <3> HIDE DEF step
    <3>1. QED BY <1>1, <2>1, Recursion
  <2>3. PICK f \in [0..need -> Nat] : Unfolds(f, need, first, step)
    BY <2>2
  <2>4. f = [k \in 0..need |-> IF k > 0 THEN 2 * f[k - 1] ELSE first]
    <3>1. ASSUME NEW k \in 0..need PROVE f[k] = IF k > 0 THEN 2 * f[k - 1] ELSE first
      <4>1. CASE k = 0
        BY <2>3, <4>1 DEF Unfolds
      <4>2. CASE k # 0
        <5>1. k \in 1..need /\ k - 1 \in 0..need /\ k > 0
          BY <4>2
        <5>2. f[k] = step[k][f[k - 1]] /\ f[k - 1] \in Nat
          BY <2>3, <5>1 DEF Unfolds
        <5>3. step[k][f[k - 1]] = 2 * f[k - 1]
          BY <5>1, <5>2
        <5>4. QED BY <5>1, <5>2, <5>3
      <4>3. QED BY <4>1, <4>2
    <3>2. QED BY <3>1
  <2>5. d = [k \in 0..need |-> IF k > 0 THEN 2 * d[k - 1] ELSE first]
    BY <2>4
  <2>6. 0 \in 0..need /\ \A k \in 1..need : k \in 0..need /\ k > 0
    OBVIOUS
  <2> HIDE DEF d
  <2>7. QED BY <2>5, <2>6
<1> HIDE DEF d
<1>3. \A k \in 0..need : d[k] \in Nat /\ d[k] > k
  <2> DEFINE P == { k \in 0..need : d[k] \in Nat /\ d[k] > k }
  <2>1. 0 \in P
    BY <1>1, <1>2
  <2>2. \A k \in 1..need : k - 1 \in P => k \in P
    BY <1>2
  <2> HIDE DEF P
  <2>3. \A k \in 0..need : k \in P
    BY <2>1, <2>2, Induction
  <2>4. QED BY <2>3 DEF P
<1>4. \E k \in 0..need : Least(k)
  <2> DEFINE K == { k \in 0..need : d[k] >= need }
  <2>1. K \in SUBSET Nat /\ need \in K
    BY <1>3
  <2>2. PICK k \in K : \A j \in K : k <= j
    <3> HIDE DEF K
    <3>1. K # {}
      BY <2>1
    <3>2. QED BY <2>1, <3>1, NatLeast
  <2>3. ASSUME NEW j \in 0..(k - 1) PROVE d[j] < need
    <3>1. j \in 0..need /\ ~(k <= j)
      OBVIOUS
    <3>2. ~(d[j] >= need) /\ d[j] \in Nat
      BY <1>3, <2>2, <3>1
    <3>3. QED BY <3>2
  <2>4. QED BY <2>2, <2>3
<1> DEFINE k == CHOOSE k \in 0..need : Least(k)
<1>5. k \in 0..need /\ Least(k)
  <2> HIDE DEF Least
  <2>1. QED BY <1>4
<1>6. Grown(c, need) = IF c >= need THEN c ELSE d[k]
  BY DEF Grown, d, first
<1> HIDE DEF k
<1>7. d[k] \in Nat /\ d[k] >= need
  BY <1>3, <1>5
<1>8. QED BY <1>6, <1>7


--------------------------------------------------------------------------------
(***************************************************************************)
(* The columns of a DataRow.                                               *)
(***************************************************************************)
Value(v) == v = NoValue \/ (v \in Seq(Byte) /\ 2 * Len(v) < Words)

LEMMA ShownIs ==
  ASSUME NEW v, Value(v)
  PROVE  Shown(v) \in Seq(Byte)
<1>1. NullText \in Seq(Byte)
  BY Sizes DEF NullText
<1>2. QED BY <1>1 DEF Value, Shown

\* A column is read as it was written, NULL told from the empty string by the sign
\* of its length.
LEMMA NextColumnIs ==
  ASSUME NEW b \in Seq(Byte), NEW a \in Nat, NEW v, Value(v),
         a + Len(Column(v)) <= Len(b),
         \A i \in 1..Len(Column(v)) : b[a + i] = Column(v)[i],
         NEW o, NEW c \in Nat
  PROVE  NextColumn(b, c, [at |-> a, out |-> o, on |-> TRUE]) =
           [at  |-> a + Len(Column(v)), on |-> TRUE,
            out |-> Sappend(IF c > 1 THEN Sappend(o, <<Tab>>) ELSE o, Shown(v))]
<1> DEFINE l == Len(b)
           r == Rd(b, a)
           sep == IF c > 1 THEN Sappend(o, <<Tab>>) ELSE o
           was == [at |-> a, out |-> o, on |-> TRUE]
           at == a + WordLen
<1>1. WordLen \in Nat /\ l \in Nat /\ \A i \in 1..l : b[i] \in Byte
  BY Sizes, LenProperties, ElementOfSeq
<1>2. NextColumn(b, c, was) =
        IF at > l THEN [at |-> at, out |-> sep, on |-> FALSE]
        ELSE IF Signed(r) < 0
        THEN [at |-> at, out |-> Sappend(sep, NullText), on |-> TRUE]
        ELSE [at  |-> at + Signed(r), on |-> TRUE,
              out |-> Sappend(sep, SubSeq(b, at + 1, at + Signed(r)))]
  BY DEF NextColumn
<1>3. CASE v = NoValue
  <2> DEFINE w == Words - 1
  <2>1. w \in 0..(Words - 1) /\ Column(v) = Word(w)
    BY <1>3, Sizes, SMTT(60) DEF Column
  <2>2. 2 * w >= Words /\ w - Words < 0
    BY Sizes, SMTT(60)
  <2> HIDE DEF w
  <2>3. Len(Column(v)) = WordLen
    BY <2>1, WordIs
  <2>4. r = w
    <3>1. \A i \in 1..WordLen : b[a + i] = Word(w)[i]
      BY <2>1, <2>3
    <3>2. QED BY <2>1, <3>1, WordIs
  <2>5. Signed(r) < 0
    BY <2>2, <2>4 DEF Signed
  <2>6. ~(at > l) /\ at = a + Len(Column(v))
    BY <1>1, <2>3
  <2>7. Shown(v) = NullText
    BY <1>3 DEF Shown
  <2> HIDE DEF r, l, at, sep, was
  <2>8. QED BY <1>2, <2>5, <2>6, <2>7 DEF was, sep
<1>4. CASE v # NoValue
  <2> DEFINE d == Len(v)
  <2>1. v \in Seq(Byte) /\ 2 * d < Words /\ d \in Nat
    BY <1>4, LenProperties DEF Value
  <2>2. d \in 0..(Words - 1)
    BY <2>1, Sizes
  <2> HIDE DEF d
  <2>3. Word(d) \in Seq(Byte) /\ Len(Word(d)) = WordLen
    BY <2>2, WordIs
  <2>4. Column(v) = Word(d) \o v
    BY <1>4 DEF Column, d
  <2>5. /\ Len(Column(v)) = WordLen + d
        /\ \A i \in 1..(WordLen + d) :
             Column(v)[i] = IF i <= WordLen THEN Word(d)[i] ELSE v[i - WordLen]
    <3> DEFINE w == Word(d)
    <3>1. w \in Seq(Byte) /\ Len(w) = WordLen
      BY <2>3
    <3> HIDE DEF w
    <3>2. /\ Len(w \o v) = Len(w) + Len(v)
          /\ \A i \in 1..(Len(w) + Len(v)) :
               (w \o v)[i] = IF i <= Len(w) THEN w[i] ELSE v[i - Len(w)]
      BY <2>1, <3>1, ConcatProperties
    <3>3. QED BY <2>4, <3>1, <3>2 DEF w, d
  <2>6. \A i \in 1..(WordLen + d) : b[a + i] = Column(v)[i]
    BY <2>5
  <2>7. r = d
    <3>1. \A i \in 1..WordLen : b[a + i] = Word(d)[i]
      <4>1. TAKE i \in 1..WordLen
      <4>2. i \in 1..(WordLen + d) /\ i <= WordLen
        BY <1>1, <2>1
      <4>3. QED BY <2>5, <2>6, <4>2
    <3>2. QED BY <2>2, <3>1, WordIs
  <2>8. Signed(r) = d /\ ~(d < 0)
    BY <2>1, <2>7, Sizes DEF Signed
  <2>9. ~(at > l) /\ at + d = a + Len(Column(v)) /\ at + d <= l /\ at \in Nat
    BY <1>1, <2>1, <2>5
  <2>10. SubSeq(b, at + 1, at + d) = v
    <3>1. \A i \in 1..d : b[at + i] = v[i]
      <4>1. TAKE i \in 1..d
      <4>2. at + i = a + (WordLen + i) /\ WordLen + i \in 1..(WordLen + d)
            /\ ~(WordLen + i <= WordLen) /\ (WordLen + i) - WordLen = i
        BY <1>1, <2>1
      <4>3. QED BY <2>5, <2>6, <4>2
    <3> HIDE DEF at
    <3>2. QED BY <2>1, <2>9, <3>1, Slice DEF d, l
  <2>11. Shown(v) = v
    BY <1>4 DEF Shown
  <2> HIDE DEF r, l, at, sep, was
  <2>12. QED BY <1>2, <2>8, <2>9, <2>10, <2>11 DEF was, sep
<1>5. QED BY <1>3, <1>4


LEMMA Assoc ==
  ASSUME NEW s \in Seq(Byte), NEW t \in Seq(Byte), NEW u \in Seq(Byte)
  PROVE  s \o (t \o u) = (s \o t) \o u
BY ConcatAssociative, SMTT(60)

\* What goes into the text for each of a row's columns.
Shows(row) ==
  [i \in 1..Len(row) |-> IF i = 1 THEN Shown(row[1]) ELSE <<Tab>> \o Shown(row[i])]

Row(row) ==
  row \in Seq({NoValue} \cup Seq(Byte)) /\ \A i \in 1..Len(row) : Value(row[i])

LEMMA RowIs ==
  ASSUME NEW m \in Message, Fits(m), m.type = D
  PROVE  Row(m.row)
<1>1. m.row \in Seq({NoValue} \cup Seq(Byte))
  BY MessageIs
<1>2. ASSUME NEW i \in 1..Len(m.row) PROVE Value(m.row[i])
  <2>1. m.row[i] \in {NoValue} \cup Seq(Byte)
    BY <1>1, ElementOfSeq
  <2>2. m.row[i] # NoValue => 2 * Len(m.row[i]) < Words
    BY DEF Fits
  <2>3. QED BY <2>1, <2>2 DEF Value
<1>3. QED BY <1>1, <1>2 DEF Row

LEMMA ShowsIs ==
  ASSUME NEW row, Row(row)
  PROVE  /\ Len(row) \in Nat /\ \A i \in 1..Len(row) : Shown(row[i]) \in Seq(Byte)
         /\ Shows(row) \in Seq(Seq(Byte)) /\ Len(Shows(row)) = Len(row)
         /\ \A i \in 1..Len(row) : Shows(row)[i] =
              IF i = 1 THEN Shown(row[i]) ELSE <<Tab>> \o Shown(row[i])
         /\ Joined(row) = FlattenSeq(Shows(row))
<1>1. Len(row) \in Nat /\ \A i \in 1..Len(row) : Shown(row[i]) \in Seq(Byte)
  BY LenProperties, ShownIs DEF Row
<1>2. <<Tab>> \in Seq(Byte)
  BY Sizes DEF Tab
<1>3. \A i \in 1..Len(row) :
        (IF i = 1 THEN Shown(row[1]) ELSE <<Tab>> \o Shown(row[i])) \in Seq(Byte)
  <2>1. TAKE i \in 1..Len(row)
  <2>2. 1 \in 1..Len(row)
    BY <1>1
  <2>3. <<Tab>> \o Shown(row[i]) \in Seq(Byte)
    BY <1>1, <1>2, ConcatProperties
  <2>4. QED BY <1>1, <2>2, <2>3
<1>4. Shows(row) \in Seq(Seq(Byte)) /\ Len(Shows(row)) = Len(row)
  BY <1>1, <1>3 DEF Shows
<1>5. QED BY <1>1, <1>4 DEF Shows, Joined

\* pgl_exec's columns are the row's, tab-separated, cut where the buffer is full.
LEMMA ColumnsIs ==
  ASSUME NEW m \in Message, Fits(m), m.type = D,
         outcap \in Nat \ {0}, NEW x \in Seq(Byte)
  PROVE  Columns(UpTo(x, outcap - 1), Body(m)) = UpTo(x \o Joined(m.row), outcap - 1)
<1> DEFINE row == m.row
           n == Len(row)
           cs == Cols(m)
           js == Shows(row)
           b == Body(m)
           F == FlattenSeq(cs)
           la(k) == Len(Upto(cs, k))
           at(k) == 1 + la(k)
           lim == outcap - 1
           tx(k) == UpTo(x \o Upto(js, k), lim)
           o == UpTo(x, lim)
           col == CHOOSE col : col = [c \in 0..b[1] |->
                    IF c = 0 THEN [at |-> 1, out |-> o, on |-> TRUE]
                             ELSE NextColumn(b, c, col[c - 1])]
           g == [c \in 0..n |-> [at |-> at(c), out |-> tx(c), on |-> TRUE]]
<1>1. /\ Row(row) /\ n \in Nat /\ cs \in Seq(Seq(Byte)) /\ Len(cs) = n
      /\ b = <<n>> \o F /\ b \in Seq(Byte) /\ Len(b) \in Nat
      /\ \A i \in 1..n : cs[i] = Column(row[i]) /\ Value(row[i])
  <2>1. Row(row) /\ n \in Nat /\ \A i \in 1..n : Value(row[i])
    BY RowIs, LenProperties DEF Row
  <2>2. \A i \in 1..n : cs[i] = Column(row[i])
    BY DEF Cols
  <2>3. QED BY <2>1, <2>2, BodyIs
<1>2. /\ n \in Nat /\ \A i \in 1..n : Shown(row[i]) \in Seq(Byte)
      /\ js \in Seq(Seq(Byte)) /\ Len(js) = n
      /\ \A i \in 1..n : js[i] = IF i = 1 THEN Shown(row[i]) ELSE <<Tab>> \o Shown(row[i])
      /\ Joined(row) = FlattenSeq(js)
  BY <1>1, ShowsIs
<1>3. Columns(o, b) = col[b[1]].out
  BY DEF Columns
<1> HIDE DEF row, n, cs, js, b
<1>4. /\ F \in Seq(Byte) /\ Len(F) \in Nat /\ la(0) = 0
      /\ \A k \in 0..n : la(k) \in 0..Len(F)
      /\ \A k \in 1..n : /\ la(k) = la(k - 1) + Len(cs[k]) /\ Len(cs[k]) \in Nat
                         /\ \A i \in 1..Len(cs[k]) : F[la(k - 1) + i] = cs[k][i]
  BY <1>1, BlockIs, ZenonT(60)
<1>5. /\ \A k \in 0..n : Upto(js, k) \in Seq(Byte)
      /\ Upto(js, 0) = <<>> /\ Upto(js, n) = Joined(row)
      /\ \A k \in 1..n : Upto(js, k) = Upto(js, k - 1) \o js[k]
  BY <1>2, UptoIs
<1>6. lim \in Nat /\ <<Tab>> \in Seq(Byte)
  BY Sizes DEF Tab
<1> HIDE DEF F, la, lim
<1>7. b[1] = n /\ Len(b) = 1 + Len(F) /\ \A i \in 1..Len(F) : b[1 + i] = F[i]
  <2> DEFINE h == <<n>>
  <2>1. h \in Seq(Nat) /\ Len(h) = 1 /\ h[1] = n
    BY <1>1
  <2>2. F \in Seq(Nat)
    BY <1>4, Sizes, SeqMonotonic
  <2> HIDE DEF h
  <2>3. /\ Len(h \o F) = 1 + Len(F)
        /\ \A i \in 1..(1 + Len(F)) : (h \o F)[i] = IF i <= 1 THEN h[i] ELSE F[i - 1]
    <3>1. /\ Len(h \o F) = Len(h) + Len(F)
          /\ \A i \in 1..(Len(h) + Len(F)) :
               (h \o F)[i] = IF i <= Len(h) THEN h[i] ELSE F[i - Len(h)]
      BY <2>1, <2>2, ConcatProperties
    <3>2. QED BY <2>1, <3>1
  <2>4. b = h \o F
    BY <1>1 DEF h
  <2>5. 1 \in 1..(1 + Len(F)) /\ \A i \in 1..Len(F) : 1 + i \in 1..(1 + Len(F)) /\ ~(1 + i <= 1)
                                 /\ (1 + i) - 1 = i
    BY <1>4
  <2>6. QED BY <2>1, <2>3, <2>4, <2>5
<1>8. ASSUME NEW c \in 1..n
      PROVE  NextColumn(b, c, g[c - 1]) = g[c]
  <2> DEFINE v == row[c]
             a == at(c - 1)
             t == tx(c - 1)
             y == x \o Upto(js, c - 1)
             s == Shown(v)
             sep == IF c > 1 THEN Sappend(t, <<Tab>>) ELSE t
  <2>1. c - 1 \in 0..n /\ c \in 0..n /\ c \in Nat
    BY <1>1
  <2>2. g[c - 1] = [at |-> a, out |-> t, on |-> TRUE]
        /\ g[c] = [at |-> at(c), out |-> tx(c), on |-> TRUE]
    BY <2>1
  <2>3. Value(v) /\ cs[c] = Column(v) /\ s \in Seq(Byte)
    BY <1>1, <1>2
  <2>4. /\ a \in Nat /\ at(c) = a + Len(Column(v)) /\ a + Len(Column(v)) <= Len(b)
        /\ \A i \in 1..Len(Column(v)) : b[a + i] = Column(v)[i]
    <3> DEFINE p == la(c - 1)
               d == Len(Column(v))
    <3>1. p \in 0..Len(F) /\ la(c) \in 0..Len(F) /\ la(c) = p + d /\ d \in Nat
          /\ \A i \in 1..d : F[p + i] = Column(v)[i]
      BY <1>4, <2>1, <2>3
    <3>2. a = 1 + p /\ at(c) = 1 + la(c)
      OBVIOUS
    <3> HIDE DEF p, d, a, at
    <3>3. \A i \in 1..d : a + i = 1 + (p + i) /\ p + i \in 1..Len(F)
      BY <1>4, <3>1, <3>2
    <3>4. \A i \in 1..d : b[a + i] = Column(v)[i]
      BY <1>7, <3>1, <3>3
    <3>5. a \in Nat /\ at(c) = a + d /\ a + d <= Len(b)
      BY <1>4, <1>7, <3>1, <3>2
    <3>6. QED BY <3>4, <3>5 DEF d
  <2>5. y \in Seq(Byte) /\ t = UpTo(y, lim)
    <3>1. Upto(js, c - 1) \in Seq(Byte)
      BY <1>5, <2>1
    <3>2. QED BY <3>1, ConcatProperties
  <2>6. tx(c) = Sappend(sep, s)
    <3>1. CASE c > 1
      <4>1. Upto(js, c - 1) \in Seq(Byte) /\ Upto(js, c) = Upto(js, c - 1) \o (<<Tab>> \o s)
        <5>1. js[c] = <<Tab>> \o s
          BY <1>2, <2>1, <3>1
        <5>2. QED BY <1>5, <2>1, <5>1
      <4>2. x \o Upto(js, c) = (y \o <<Tab>>) \o s
        <5> DEFINE u == Upto(js, c - 1)
                   h == <<Tab>>
        <5>1. u \in Seq(Byte) /\ h \in Seq(Byte) /\ y = x \o u /\ y \in Seq(Byte)
              /\ h \o s \in Seq(Byte)
          BY <1>6, <2>3, <2>5, <4>1, ConcatProperties
        <5> HIDE DEF u, h, y, s
        <5>2. x \o (u \o (h \o s)) = (x \o u) \o (h \o s)
          BY <2>3, <5>1, Assoc, ZenonT(60)
        <5>3. y \o (h \o s) = (y \o h) \o s
          BY <2>3, <5>1, Assoc, SMTT(60)
        <5>4. QED BY <4>1, <5>1, <5>2, <5>3 DEF u, h
      <4>3. y \o <<Tab>> \in Seq(Byte)
        BY <1>6, <2>5, ConcatProperties
      <4> HIDE DEF y, s, t
      <4>4. sep = UpTo(y \o <<Tab>>, lim)
        BY <1>6, <2>5, <3>1, SappendIs DEF lim
      <4>5. Sappend(sep, s) = UpTo((y \o <<Tab>>) \o s, lim)
        BY <2>3, <4>3, <4>4, SappendIs DEF lim
      <4>6. QED BY <4>2, <4>5
    <3>2. CASE ~(c > 1)
      <4>1. c = 1
        BY <2>1, <3>2
      <4>2. Upto(js, c) = Upto(js, c - 1) \o s /\ Upto(js, c - 1) \in Seq(Byte)
        BY <1>2, <1>5, <2>1, <4>1
      <4>3. x \o Upto(js, c) = y \o s
        BY <2>3, <4>2, Assoc, SMTT(60)
      <4> HIDE DEF y, s, t
      <4>4. Sappend(t, s) = UpTo(y \o s, lim)
        BY <2>3, <2>5, SappendIs DEF lim
      <4>5. QED BY <3>2, <4>3, <4>4
    <3>3. QED BY <3>1, <3>2
  <2> HIDE DEF a, t, s, v, at, tx, y, g
  <2>7. NextColumn(b, c, [at |-> a, out |-> t, on |-> TRUE]) =
          [at |-> a + Len(Column(v)), on |-> TRUE,
           out |-> Sappend(IF c > 1 THEN Sappend(t, <<Tab>>) ELSE t, Shown(v))]
    <3>1. b \in Seq(Byte) /\ a \in Nat /\ Value(v) /\ a + Len(Column(v)) <= Len(b)
          /\ c \in Nat /\ \A i \in 1..Len(Column(v)) : b[a + i] = Column(v)[i]
      BY <1>1, <2>1, <2>3, <2>4
    <3>2. QED BY <3>1, NextColumnIs
  <2>8. QED BY <2>2, <2>4, <2>6, <2>7 DEF s
<1>9. g[0] = [at |-> 1, out |-> o, on |-> TRUE]
  <2>1. 0 \in 0..n
    BY <1>1
  <2>2. x \o Upto(js, 0) = x
    BY <1>5, ConcatEmptySeq
  <2>3. at(0) = 1
    BY <1>4
  <2>4. QED BY <2>1, <2>2, <2>3
<1>10. \A c \in 0..n : g[c] = IF c = 0 THEN [at |-> 1, out |-> o, on |-> TRUE]
                             ELSE NextColumn(b, c, g[c - 1])
  <2>1. TAKE c \in 0..n
  <2>2. c # 0 => c \in 1..n
    BY <1>1
  <2> HIDE DEF g, o
  <2>3. QED BY <1>8, <1>9, <2>2
<1>11. g = [c \in 0..b[1] |-> IF c = 0 THEN [at |-> 1, out |-> o, on |-> TRUE]
                             ELSE NextColumn(b, c, g[c - 1])]
  <2> DEFINE f(c) == [at |-> at(c), out |-> tx(c), on |-> TRUE]
  <2>1. g = [c \in 0..n |-> f(c)] /\ \A c \in 0..n : g[c] = f(c)
    OBVIOUS
  <2> HIDE DEF f, g, o
  <2>2. QED BY <1>7, <1>10, <2>1
<1>12. col = [c \in 0..n |-> IF c = 0 THEN [at |-> 1, out |-> o, on |-> TRUE]
                             ELSE NextColumn(b, c, col[c - 1])]
  <2> HIDE DEF g, o
  <2>1. QED BY <1>7, <1>11
<1>13. g[n].out = UpTo(x \o Joined(row), lim)
  <2>1. n \in 0..n
    BY <1>1
  <2>2. QED BY <1>5, <2>1
<1> HIDE DEF col, g, o
<1>14. \A c \in 0..n : col[c] = g[c]
  <2> DEFINE P == { c \in 0..n : col[c] = g[c] }
  <2>1. 0 \in P
    <3>1. 0 \in 0..n
      BY <1>1
    <3>2. QED BY <1>9, <1>12, <3>1
  <2>2. ASSUME NEW c \in 1..n, c - 1 \in P PROVE c \in P
    <3>1. c \in 0..n /\ c # 0
      BY <1>1
    <3>2. col[c] = NextColumn(b, c, col[c - 1]) /\ col[c - 1] = g[c - 1]
      BY <1>12, <2>2, <3>1
    <3>3. QED BY <1>8, <3>1, <3>2
  <2> HIDE DEF P
  <2>3. \A c \in 0..n : c \in P
    BY <1>1, <2>1, <2>2, Induction
  <2>4. QED BY <2>3 DEF P
<1>15. col[n].out = UpTo(x \o Joined(row), lim)
  <2>1. n \in 0..n
    BY <1>1
  <2>2. QED BY <1>13, <1>14, <2>1
<1>16. QED BY <1>3, <1>7, <1>15 DEF o, b, row, lim


--------------------------------------------------------------------------------
(***************************************************************************)
(* Strings, and the fields of an ErrorResponse.                            *)
(***************************************************************************)
\* A string is read up to its terminator.
LEMMA CStringIs ==
  ASSUME NEW b \in Seq(Byte), NEW at \in Nat, NEW t \in Text,
         at + Len(t) + 1 <= Len(b), \A i \in 1..Len(t) : b[at + i] = t[i],
         b[at + Len(t) + 1] = 0
  PROVE  CString(b, at) = t
<1> DEFINE l == Len(b)
           d == Len(t)
           ends == { i \in at..l : i = l \/ b[i + 1] = 0 }
           e == CHOOSE i \in ends : \A j \in ends : i <= j
<1>1. l \in Nat /\ d \in Nat /\ t \in Seq(Byte) /\ \A i \in 1..d : t[i] # 0
  BY TextIs, LenProperties
<1>2. at + d + 1 <= l /\ b[at + d + 1] = 0 /\ \A i \in 1..d : b[at + i] = t[i]
  OBVIOUS
<1>3. CString(b, at) = SubSeq(b, at + 1, e)
  BY DEF CString
<1> HIDE DEF l, d
<1>4. at + d \in ends
  BY <1>1, <1>2
<1>5. \A j \in ends : at + d <= j
  <2>1. SUFFICES ASSUME NEW j \in ends, ~(at + d <= j) PROVE FALSE
    OBVIOUS
  <2>2. j \in at..l /\ (j = l \/ b[j + 1] = 0)
    OBVIOUS
  <2>3. j < l /\ j + 1 - at \in 1..d /\ at + (j + 1 - at) = j + 1
    BY <1>1, <1>2, <2>1, <2>2
  <2>4. b[j + 1] # 0
    BY <1>1, <1>2, <2>3
  <2>5. QED BY <1>1, <2>2, <2>3, <2>4
<1>6. e \in ends /\ \A j \in ends : e <= j
  BY <1>4, <1>5
<1>7. e = at + d
  <2>1. e \in at..l /\ e <= at + d /\ at + d <= e
    BY <1>4, <1>5, <1>6
  <2> HIDE DEF e
  <2>2. QED BY <1>1, <2>1
<1> HIDE DEF e
<1>8. SubSeq(b, at + 1, at + d) = t
  <2>1. at + d <= l
    BY <1>1, <1>2
  <2>2. QED BY <1>1, <1>2, <2>1, Slice DEF d, l
<1>9. QED BY <1>3, <1>7, <1>8

Errors == Seq([kind : Byte \ {0}, text : Text])

\* The last field of a kind among the first j.
LEMMA SaidIs ==
  ASSUME NEW fs \in Errors, NEW k
  PROVE  /\ Said(k, SubSeq(fs, 1, 0)) = <<>>
         /\ \A j \in 1..Len(fs) : Said(k, SubSeq(fs, 1, j)) =
              IF fs[j].kind = k THEN fs[j].text ELSE Said(k, SubSeq(fs, 1, j - 1))
         /\ \A j \in 0..Len(fs) : Said(k, SubSeq(fs, 1, j)) \in Seq(Byte)
<1> DEFINE n == Len(fs)
           has(j) == { i \in 1..j : fs[i].kind = k }
           last(H) == CHOOSE i \in H : \A h \in H : h <= i
<1>1. n \in Nat /\ \A i \in 1..n : fs[i].text \in Seq(Byte)
  <2>1. n \in Nat /\ \A i \in 1..n : fs[i] \in [kind : Byte \ {0}, text : Text]
    BY LenProperties, ElementOfSeq DEF Errors
  <2>2. QED BY <2>1, TextIs
<1>2. ASSUME NEW j \in 0..n
      PROVE  Said(k, SubSeq(fs, 1, j)) = IF has(j) = {} THEN <<>> ELSE fs[last(has(j))].text
  <2> DEFINE s == SubSeq(fs, 1, j)
             H == { i \in 1..Len(s) : s[i].kind = k }
  <2>1. Len(s) = j /\ \A i \in 1..j : s[i] = fs[i]
    BY Firsts DEF Errors
  <2>2. Said(k, s) = IF H = {} THEN <<>> ELSE s[last(H)].text
    BY DEF Said
  <2> HIDE DEF s
  <2>3. H = has(j)
    BY <2>1
  <2>4. has(j) # {} => last(has(j)) \in 1..j
    <3>1. ASSUME has(j) # {} PROVE \E i \in has(j) : \A h \in has(j) : h <= i
      <4> DEFINE G == has(j)
      <4>1. G \in SUBSET (0..j) /\ j \in Nat
        BY <1>1
      <4> HIDE DEF G
      <4>2. QED BY <3>1, <4>1, Greatest DEF G
    <3>2. has(j) # {} => last(has(j)) \in has(j)
      <4> DEFINE G == has(j)
      <4> HIDE DEF G
      <4>1. QED BY <3>1 DEF G
    <3>3. QED BY <3>2
  <2> HIDE DEF H, has
  <2>5. QED BY <2>1, <2>2, <2>3, <2>4 DEF s
<1>3. Said(k, SubSeq(fs, 1, 0)) = <<>>
  <2>1. 0 \in 0..n /\ has(0) = {}
    BY <1>1
  <2>2. QED BY <1>2, <2>1
<1>4. ASSUME NEW j \in 1..n
      PROVE  Said(k, SubSeq(fs, 1, j)) =
               IF fs[j].kind = k THEN fs[j].text ELSE Said(k, SubSeq(fs, 1, j - 1))
  <2>1. j \in 0..n /\ j - 1 \in 0..n /\ \A i \in 1..j : i = j \/ i \in 1..(j - 1)
    BY <1>1
  <2>2. CASE fs[j].kind = k
    <3>1. j \in has(j) /\ \A h \in has(j) : h <= j /\ h \in Nat
      BY <1>1, <2>2
    <3>2. last(has(j)) = j
      <4> DEFINE H == has(j)
                 c == last(H)
      <4> HIDE DEF H
      <4>1. j \in H /\ (\A h \in H : h <= j /\ h \in Nat) /\ j \in Nat
        BY <3>1 DEF H
      <4>2. c \in H /\ \A h \in H : h <= c
        BY <4>1
      <4> HIDE DEF c
      <4>3. c = j
        BY <4>1, <4>2
      <4>4. QED BY <4>3 DEF c, H
    <3> HIDE DEF has, last
    <3>3. has(j) # {}
      BY <3>1
    <3>4. QED BY <1>2, <2>1, <2>2, <3>2, <3>3
  <2>3. CASE fs[j].kind # k
    <3>1. has(j) = has(j - 1)
      BY <2>1, <2>3
    <3> HIDE DEF has, last
    <3>2. QED BY <1>2, <2>1, <2>3, <3>1
  <2>4. QED BY <2>2, <2>3
<1>5. \A j \in 0..n : Said(k, SubSeq(fs, 1, j)) \in Seq(Byte)
  <2> DEFINE P == { j \in 0..n : Said(k, SubSeq(fs, 1, j)) \in Seq(Byte) }
  <2>1. 0 \in P
    <3>1. <<>> \in Seq(Byte) /\ 0 \in 0..n
      BY <1>1
    <3>2. QED BY <1>3, <3>1
  <2>2. ASSUME NEW j \in 1..n, j - 1 \in P PROVE j \in P
    BY <1>1, <1>4, <2>2
  <2> HIDE DEF P
  <2>3. \A j \in 0..n : j \in P
    BY <1>1, <2>1, <2>2, Induction
  <2>4. QED BY <2>3 DEF P
<1>6. QED BY <1>3, <1>4, <1>5


\* A field is read as it was written, and replaces what was read of its kind.
LEMMA NextFieldIs ==
  ASSUME NEW b \in Seq(Byte), NEW a \in Nat, NEW f \in [kind : Byte \ {0}, text : Text],
         a + Len(Field(f)) < Len(b),
         \A i \in 1..Len(Field(f)) : b[a + i] = Field(f)[i],
         NEW was, was.at = a
  PROVE  NextField(b, was) =
           [at   |-> a + Len(Field(f)),
            sev  |-> IF f.kind = S THEN UpTo(f.text, SevCap - 1) ELSE was.sev,
            msg  |-> IF f.kind = M THEN UpTo(f.text, MsgCap - 1) ELSE was.msg,
            code |-> IF f.kind = C THEN UpTo(f.text, CodeCap - 1) ELSE was.code]
<1> DEFINE k == f.kind
           t == f.text
           d == Len(t)
           l == Len(b)
           h == <<k>>
           z == <<0>>
           x == Field(f)
<1>1. k \in Byte /\ k # 0 /\ t \in Text /\ t \in Seq(Byte) /\ d \in Nat /\ l \in Nat
      /\ \A i \in 1..d : t[i] # 0
  BY TextIs, LenProperties
<1>2. h \in Seq(Byte) /\ Len(h) = 1 /\ h[1] = k /\ z \in Seq(Byte) /\ Len(z) = 1 /\ z[1] = 0
  BY <1>1, Sizes
<1>3. x = (h \o t) \o z
  BY <1>1, <1>2, Assoc DEF Field
<1>4. a + Len(x) < l /\ \A i \in 1..Len(x) : b[a + i] = x[i]
  OBVIOUS
<1>5. was.at = a
  OBVIOUS
<1> HIDE DEF k, t, d, l, h, z, x
<1> DEFINE y == h \o t
<1>6. /\ y \in Seq(Byte) /\ Len(y) = 1 + d
      /\ \A i \in 1..(1 + d) : y[i] = IF i <= 1 THEN h[i] ELSE t[i - 1]
  <2>1. /\ y \in Seq(Byte) /\ Len(y) = Len(h) + Len(t)
        /\ \A i \in 1..(Len(h) + Len(t)) : y[i] = IF i <= Len(h) THEN h[i] ELSE t[i - Len(h)]
    BY <1>1, <1>2, ConcatProperties, ZenonT(60)
  <2>2. QED BY <1>2, <2>1 DEF d
<1>7. x = y \o z
  BY <1>3
<1> HIDE DEF y
<1>8. /\ Len(x) = 1 + d + 1
      /\ \A i \in 1..(1 + d + 1) : x[i] = IF i <= 1 + d THEN y[i] ELSE z[i - (1 + d)]
  <2>1. /\ Len(y \o z) = Len(y) + Len(z)
        /\ \A i \in 1..(Len(y) + Len(z)) :
             (y \o z)[i] = IF i <= Len(y) THEN y[i] ELSE z[i - Len(y)]
    BY <1>2, <1>6, ConcatProperties, ZenonT(60)
  <2>2. QED BY <1>2, <1>6, <1>7, <2>1
<1>9. b[a + 1] = k
  <2>1. 1 \in 1..(1 + d + 1) /\ 1 <= 1 + d /\ 1 \in 1..(1 + d) /\ 1 <= 1
    BY <1>1
  <2>2. QED BY <1>2, <1>4, <1>6, <1>8, <2>1
<1>10. ASSUME NEW i \in 1..d PROVE b[(a + 1) + i] = t[i]
  <2>1. /\ 1 + i \in 1..(1 + d + 1) /\ 1 + i <= 1 + d /\ 1 + i \in 1..(1 + d)
        /\ ~(1 + i <= 1) /\ (1 + i) - 1 = i /\ (a + 1) + i = a + (1 + i)
    BY <1>1
  <2>2. x[1 + i] = t[i]
    BY <1>6, <1>8, <2>1
  <2>3. b[a + (1 + i)] = x[1 + i]
    BY <1>4, <1>8, <2>1
  <2>4. QED BY <2>1, <2>2, <2>3
<1>11. b[(a + 1) + d + 1] = 0
  <2>1. /\ 1 + d + 1 \in 1..(1 + d + 1) /\ ~(1 + d + 1 <= 1 + d)
        /\ (1 + d + 1) - (1 + d) = 1 /\ (a + 1) + d + 1 = a + (1 + d + 1)
    BY <1>1
  <2>2. x[1 + d + 1] = 0
    BY <1>2, <1>8, <2>1
  <2>3. b[a + (1 + d + 1)] = x[1 + d + 1]
    BY <1>4, <1>8, <2>1
  <2>4. QED BY <2>1, <2>2, <2>3
<1>12. (a + 1) + d + 1 <= l /\ a + 1 \in Nat /\ ~(a >= l)
       /\ a + Len(x) = a + 1 + d + 1
  BY <1>1, <1>4, <1>8
<1>13. CString(b, a + 1) = t
  <2> DEFINE p == a + 1
  <2>1. p \in Nat /\ p + d + 1 <= l /\ b[p + d + 1] = 0 /\ \A i \in 1..d : b[p + i] = t[i]
    BY <1>10, <1>11, <1>12
  <2> HIDE DEF p
  <2>2. CString(b, p) = t
    BY <1>1, <2>1, CStringIs DEF d, l
  <2>3. QED BY <2>2 DEF p
<1>14. NextField(b, was) =
         [at   |-> a + 1 + d + 1,
          sev  |-> IF k = S THEN UpTo(t, SevCap - 1) ELSE was.sev,
          msg  |-> IF k = M THEN UpTo(t, MsgCap - 1) ELSE was.msg,
          code |-> IF k = C THEN UpTo(t, CodeCap - 1) ELSE was.code]
  <2> DEFINE r(kk, tt) == [at   |-> was.at + 1 + Len(tt) + 1,
                           sev  |-> IF kk = S THEN UpTo(tt, SevCap - 1) ELSE was.sev,
                           msg  |-> IF kk = M THEN UpTo(tt, MsgCap - 1) ELSE was.msg,
                           code |-> IF kk = C THEN UpTo(tt, CodeCap - 1) ELSE was.code]
  <2>1. NextField(b, was) =
          IF was.at >= Len(b) \/ b[was.at + 1] = 0 THEN was
          ELSE r(b[was.at + 1], CString(b, was.at + 1))
    BY DEF NextField
  <2>2. ~(was.at >= Len(b)) /\ b[was.at + 1] = k /\ CString(b, was.at + 1) = t
    BY <1>5, <1>9, <1>12, <1>13 DEF l
  <2>3. NextField(b, was) = r(k, t)
    <3> HIDE DEF r
    <3>1. QED BY <1>1, <2>1, <2>2
  <2>4. QED BY <1>5, <2>3 DEF d
<1>15. QED BY <1>12, <1>14 DEF x, k, t

\* What pgl_exec reads out of an ErrorResponse: the last field of each kind.
LEMMA FieldsIs ==
  ASSUME NEW m \in Message, Fits(m), m.type = E
  PROVE  /\ Fields(Body(m)).sev = UpTo(Said(S, m.fields), SevCap - 1)
         /\ Fields(Body(m)).msg = UpTo(Said(M, m.fields), MsgCap - 1)
         /\ Fields(Body(m)).code = UpTo(Said(C, m.fields), CodeCap - 1)
<1> DEFINE fs == m.fields
           n == Len(fs)
           ws == Flds(m)
           b == Body(m)
           F == FlattenSeq(ws)
           at(j) == Len(Upto(ws, j))
           l == Len(b)
           first == [at |-> 0, sev |-> <<>>, msg |-> <<>>, code |-> <<>>]
           said(k, j) == Said(k, SubSeq(fs, 1, j))
           st(j) == [at   |-> at(j),
                     sev  |-> UpTo(said(S, j), SevCap - 1),
                     msg  |-> UpTo(said(M, j), MsgCap - 1),
                     code |-> UpTo(said(C, j), CodeCap - 1)]
           got == CHOOSE got : got = [i \in 0..l |-> IF i = 0 THEN first
                                                     ELSE NextField(b, got[i - 1])]
           to(i) == IF i < n THEN i ELSE n
           g == [i \in 0..l |-> st(to(i))]
<1>1. /\ fs \in Errors /\ n \in Nat /\ ws \in Seq(Seq(Byte)) /\ Len(ws) = n
      /\ b = F \o <<0>> /\ b \in Seq(Byte) /\ l \in Nat
      /\ \A i \in 1..n : ws[i] = Field(fs[i]) /\ fs[i] \in [kind : Byte \ {0}, text : Text]
  <2>1. fs \in Errors /\ n \in Nat
        /\ \A i \in 1..n : fs[i] \in [kind : Byte \ {0}, text : Text]
    BY MessageIs, LenProperties, ElementOfSeq DEF Errors
  <2>2. \A i \in 1..n : ws[i] = Field(fs[i])
    BY DEF Flds
  <2>3. QED BY <2>1, <2>2, BodyIs
<1>2. Fields(b) = got[l]
  BY DEF Fields
<1> HIDE DEF fs, n, ws, b
<1>3. /\ F \in Seq(Byte) /\ Len(F) \in Nat /\ at(0) = 0 /\ at(n) = Len(F)
      /\ \A k \in 0..n : at(k) \in 0..Len(F)
      /\ \A k \in 1..n : /\ at(k) = at(k - 1) + Len(ws[k]) /\ Len(ws[k]) \in Nat
                         /\ \A i \in 1..Len(ws[k]) : F[at(k - 1) + i] = ws[k][i]
  <2>1. /\ F \in Seq(Byte) /\ Len(F) \in Nat /\ at(0) = 0 /\ at(Len(ws)) = Len(F)
        /\ \A k \in 0..Len(ws) : at(k) \in 0..Len(F)
        /\ \A k \in 1..Len(ws) :
             /\ at(k) = at(k - 1) + Len(ws[k]) /\ Len(ws[k]) \in Nat
             /\ \A i \in 1..Len(ws[k]) : F[at(k - 1) + i] = ws[k][i]
    <3>1. ws \in Seq(Seq(Byte))
      BY <1>1
    <3>2. QED BY <3>1, BlockIs
  <2>2. Len(ws) = n
    BY <1>1
  <2> HIDE DEF F, at
  <2>3. QED BY <2>1, <2>2
<1>4. \A k : /\ said(k, 0) = <<>>
             /\ \A j \in 1..n : said(k, j) =
                  IF fs[j].kind = k THEN fs[j].text ELSE said(k, j - 1)
             /\ said(k, n) = Said(k, fs)
  <2>1. SubSeq(fs, 1, n) = fs
    BY <1>1, Firsts DEF n, Errors
  <2>2. QED BY <1>1, <2>1, SaidIs DEF n
<1> HIDE DEF F, at, l, said
<1>5. l = Len(F) + 1 /\ b[Len(F) + 1] = 0 /\ \A i \in 1..Len(F) : b[i] = F[i]
  <2> DEFINE z == <<0>>
  <2>1. z \in Seq(Byte) /\ Len(z) = 1 /\ z[1] = 0 /\ b = F \o z
    BY <1>1, Sizes
  <2> HIDE DEF z
  <2>2. /\ Len(F \o z) = Len(F) + Len(z)
        /\ \A i \in 1..(Len(F) + Len(z)) :
             (F \o z)[i] = IF i <= Len(F) THEN F[i] ELSE z[i - Len(F)]
    <3>1. F \in Seq(Byte) /\ z \in Seq(Byte)
      BY <1>3, <2>1
    <3>2. QED BY <3>1, ConcatProperties
  <2>3. Len(F) + 1 \in 1..(Len(F) + 1) /\ ~(Len(F) + 1 <= Len(F)) /\ (Len(F) + 1) - Len(F) = 1
        /\ \A i \in 1..Len(F) : i \in 1..(Len(F) + 1) /\ i <= Len(F)
    BY <1>3
  <2>4. QED BY <2>1, <2>2, <2>3 DEF l
<1>6. \A j \in 1..n : Len(ws[j]) >= 1
  <2>1. TAKE j \in 1..n
  <2> DEFINE f == fs[j]
             t == f.text
             h == <<f.kind>>
             z == <<0>>
  <2>2. h \in Seq(Byte) /\ t \in Seq(Byte) /\ z \in Seq(Byte) /\ Len(h) = 1 /\ Len(z) = 1
    <3>1. f \in [kind : Byte \ {0}, text : Text]
      BY <1>1
    <3> HIDE DEF f
    <3>2. f.kind \in Byte /\ t \in Text
      BY <3>1
    <3>3. QED BY <3>2, TextIs, Sizes
  <2>3. ws[j] = (h \o t) \o z
    <3>1. ws[j] = h \o t \o z
      BY <1>1 DEF Field
    <3> HIDE DEF h, t, z
    <3>2. QED BY <2>2, <3>1, Assoc
  <2> HIDE DEF h, t, z
  <2>4. Len(ws[j]) = Len(h) + Len(t) + Len(z) /\ Len(t) \in Nat
    <3> DEFINE y == h \o t
    <3>1. y \in Seq(Byte) /\ Len(y) = Len(h) + Len(t)
      BY <2>2, ConcatProperties
    <3> HIDE DEF y
    <3>2. Len(y \o z) = Len(y) + Len(z)
      BY <2>2, <3>1, ConcatProperties
    <3>3. QED BY <2>2, <2>3, <3>1, <3>2, LenProperties DEF y
  <2>5. QED BY <2>2, <2>4
<1>7. n \in 0..l
  <2> DEFINE P == { j \in 0..n : at(j) >= j }
  <2>1. 0 \in P
    BY <1>1, <1>3
  <2>2. ASSUME NEW j \in 1..n, j - 1 \in P PROVE j \in P
    <3>1. at(j - 1) >= j - 1 /\ at(j - 1) \in 0..Len(F) /\ j - 1 \in 0..n /\ j \in 0..n
      BY <1>1, <1>3, <2>2
    <3>2. at(j) = at(j - 1) + Len(ws[j]) /\ Len(ws[j]) \in Nat /\ Len(ws[j]) >= 1
      BY <1>3, <1>6
    <3> DEFINE x == at(j - 1)
               d == Len(ws[j])
    <3>3. x >= j - 1 /\ x \in Nat /\ d \in Nat /\ d >= 1 /\ at(j) = x + d
      BY <1>3, <3>1, <3>2
    <3> HIDE DEF x, d
    <3>4. at(j) >= j
      BY <3>1, <3>3
    <3>5. QED BY <3>1, <3>4
  <2> HIDE DEF P
  <2>3. \A j \in 0..n : j \in P
    BY <1>1, <2>1, <2>2, Induction
  <2>4. at(n) >= n
    <3>1. n \in 0..n
      BY <1>1
    <3>2. QED BY <2>3, <3>1 DEF P
  <2>5. QED BY <1>1, <1>3, <1>5, <2>4
<1>8. ASSUME NEW j \in 1..n PROVE NextField(b, st(j - 1)) = st(j)
  <2> DEFINE f == fs[j]
             a == at(j - 1)
             d == Len(Field(f))
             was == st(j - 1)
  <2>1. j - 1 \in 0..n /\ j \in 0..n
    BY <1>1
  <2>2. f \in [kind : Byte \ {0}, text : Text] /\ ws[j] = Field(f)
    BY <1>1
  <2>3. a \in 0..Len(F) /\ at(j) \in 0..Len(F) /\ at(j) = a + d /\ d \in Nat
        /\ \A i \in 1..d : F[a + i] = Field(f)[i]
    BY <1>3, <2>1, <2>2
  <2>4. /\ was.at = a /\ was.sev = UpTo(said(S, j - 1), SevCap - 1)
        /\ was.msg = UpTo(said(M, j - 1), MsgCap - 1)
        /\ was.code = UpTo(said(C, j - 1), CodeCap - 1)
    OBVIOUS
  <2> HIDE DEF a, d, was, f
  <2>5. a \in Nat /\ a + d < l /\ \A i \in 1..d : b[a + i] = Field(f)[i]
    <3>1. a \in Nat /\ a + d < l /\ \A i \in 1..d : a + i \in 1..Len(F)
      BY <1>3, <1>5, <2>3
    <3>2. QED BY <1>5, <2>3, <3>1
  <2>6. NextField(b, was) =
           [at   |-> a + d,
            sev  |-> IF f.kind = S THEN UpTo(f.text, SevCap - 1) ELSE was.sev,
            msg  |-> IF f.kind = M THEN UpTo(f.text, MsgCap - 1) ELSE was.msg,
            code |-> IF f.kind = C THEN UpTo(f.text, CodeCap - 1) ELSE was.code]
    <3>1. b \in Seq(Byte) /\ a \in Nat /\ f \in [kind : Byte \ {0}, text : Text]
          /\ a + Len(Field(f)) < Len(b) /\ was.at = a
          /\ \A i \in 1..Len(Field(f)) : b[a + i] = Field(f)[i]
      BY <1>1, <2>2, <2>4, <2>5 DEF d, l
    <3>2. QED BY <3>1, NextFieldIs DEF d
  <2>7. \A k : said(k, j) = IF f.kind = k THEN f.text ELSE said(k, j - 1)
    BY <1>4 DEF f
  <2>8. /\ UpTo(said(S, j), SevCap - 1)
             = IF f.kind = S THEN UpTo(f.text, SevCap - 1) ELSE was.sev
        /\ UpTo(said(M, j), MsgCap - 1)
             = IF f.kind = M THEN UpTo(f.text, MsgCap - 1) ELSE was.msg
        /\ UpTo(said(C, j), CodeCap - 1)
             = IF f.kind = C THEN UpTo(f.text, CodeCap - 1) ELSE was.code
    BY <2>4, <2>7
  <2>9. NextField(b, was) = st(j)
    BY <2>3, <2>6, <2>8
  <2>10. QED BY <2>9 DEF was
<1>9. NextField(b, st(n)) = st(n)
  <2>1. st(n).at = Len(F)
    BY <1>3
  <2> DEFINE was == st(n)
  <2> HIDE DEF was, st
  <2>2. was.at = Len(F) /\ b[was.at + 1] = 0
    BY <1>5, <2>1 DEF was
  <2>3. NextField(b, was) = was
    BY <2>2 DEF NextField
  <2>4. QED BY <2>3 DEF was
<1>10. st(0) = first
  <2>1. SevCap - 1 \in Nat /\ MsgCap - 1 \in Nat /\ CodeCap - 1 \in Nat
    BY ExecReplyAssumption
  <2>2. \A c \in Nat : UpTo(<<>>, c) = <<>>
    <3>1. TAKE c \in Nat
    <3>2. <<>> \in Seq(Byte) /\ Len(<<>>) <= c
      BY EmptySeq
    <3>3. QED BY <3>2, UpToIs
  <2>3. QED BY <1>3, <1>4, <2>1, <2>2
<1> HIDE DEF st, first
<1>11. \A i \in 0..l : st(to(i)) = IF i = 0 THEN first ELSE NextField(b, st(to(i - 1)))
  <2>1. TAKE i \in 0..l
  <2>2. CASE i = 0
    <3>1. to(i) = 0
      BY <1>1, <2>2
    <3>2. QED BY <1>10, <2>2, <3>1
  <2>3. CASE i # 0 /\ i <= n
    <3>1. i \in 1..n /\ to(i) = i /\ to(i - 1) = i - 1
      BY <1>1, <2>3
    <3>2. QED BY <1>8, <2>3, <3>1
  <2>4. CASE i # 0 /\ ~(i <= n)
    <3>1. to(i) = n /\ to(i - 1) = n
      BY <1>1, <2>4
    <3>2. QED BY <1>9, <2>4, <3>1
  <2>5. QED BY <2>2, <2>3, <2>4
<1>12. \A i \in 1..l : i - 1 \in 0..l /\ i \in 0..l /\ i # 0
  BY <1>1
<1>13. g = [i \in 0..l |-> IF i = 0 THEN first ELSE NextField(b, g[i - 1])]
  <2>1. \A i \in 0..l : g[i] = st(to(i))
    OBVIOUS
  <2>2. \A i \in 0..l : st(to(i)) = IF i = 0 THEN first ELSE NextField(b, g[i - 1])
    <3>1. TAKE i \in 0..l
    <3>2. i # 0 => i - 1 \in 0..l
      BY <1>1
    <3> HIDE DEF g, to
    <3>3. QED BY <1>11, <2>1, <3>2
  <2> DEFINE f(i) == st(to(i))
  <2>3. /\ g = [i \in 0..l |-> f(i)]
        /\ \A i \in 0..l : f(i) = IF i = 0 THEN first ELSE NextField(b, g[i - 1])
    BY <2>2
  <2> HIDE DEF f, g
  <2>4. QED BY <2>3
<1>14. g[l] = st(n)
  <2>1. l \in 0..l /\ to(l) = n
    BY <1>1, <1>7
  <2>2. QED BY <2>1
<1>15. got = [i \in 0..l |-> IF i = 0 THEN first ELSE NextField(b, got[i - 1])]
  <2> HIDE DEF g
  <2>1. QED BY <1>13
<1> HIDE DEF got, g, to
<1>16. \A i \in 0..l : got[i] = g[i]
  <2> DEFINE P == { i \in 0..l : got[i] = g[i] }
  <2>1. 0 \in P
    BY <1>1, <1>13, <1>15
  <2>2. ASSUME NEW i \in 1..l, i - 1 \in P PROVE i \in P
    BY <1>12, <1>13, <1>15, <2>2
  <2> HIDE DEF P
  <2>3. \A i \in 0..l : i \in P
    BY <1>1, <2>1, <2>2, Induction
  <2>4. QED BY <2>3 DEF P
<1>17. Fields(b) = st(n)
  <2>1. l \in 0..l
    BY <1>1
  <2>2. QED BY <1>2, <1>14, <1>16, <2>1
<1>18. QED BY <1>4, <1>17 DEF st, b, fs


--------------------------------------------------------------------------------
(***************************************************************************)
(* What the messages read like, and what a frame does to pgl_exec's text.  *)
(***************************************************************************)
LEMMA ByteSeqs ==
  /\ \A s, t \in Seq(Byte) : s \o t \in Seq(Byte)
  /\ {<<Tab>>, <<Newline>>, <<Hash>>, <<Colon>>, <<Open>>, <<>>} \subseteq Seq(Byte)
<1>1. \A s, t \in Seq(Byte) : s \o t \in Seq(Byte)
  BY ConcatProperties
<1>2. {Tab, Newline, Hash, Colon, Open} \subseteq Byte
  BY Sizes DEF Tab, Newline, Hash, Colon, Open
<1>3. QED BY <1>1, <1>2

LEMMA JoinedIs ==
  ASSUME NEW row, Row(row)
  PROVE  Joined(row) \in Seq(Byte)
BY ShowsIs, UptoIs, ZenonT(60)

LEMMA LineIs ==
  ASSUME NEW m \in Message, m.type = E
  PROVE  /\ m.fields \in Errors
         /\ UpTo(Said(S, m.fields), SevCap - 1) \in Seq(Byte)
         /\ UpTo(Said(M, m.fields), MsgCap - 1) \in Seq(Byte)
         /\ UpTo(Said(C, m.fields), CodeCap - 1) \in Seq(Byte)
<1> DEFINE fs == m.fields
<1>1. fs \in Errors
  BY MessageIs DEF Errors
<1>2. Len(fs) \in Nat /\ SubSeq(fs, 1, Len(fs)) = fs
  BY <1>1, Firsts DEF Errors
<1> HIDE DEF fs
<1>3. \A k : Said(k, fs) \in Seq(Byte)
  <2>1. TAKE k
  <2>2. Len(fs) \in 0..Len(fs)
    BY <1>2
  <2>3. Said(k, SubSeq(fs, 1, Len(fs))) \in Seq(Byte)
    BY <1>1, <2>2, SaidIs
  <2>4. QED BY <1>2, <2>3
<1>4. SevCap - 1 \in Nat /\ MsgCap - 1 \in Nat /\ CodeCap - 1 \in Nat
  BY ExecReplyAssumption
<1>5. QED BY <1>1, <1>3, <1>4, UpToIs DEF fs

LEMMA RenderedIs ==
  ASSUME NEW m \in Message, Fits(m), NEW x \in Seq(Byte)
  PROVE  /\ Rendered(x, m) \in Seq(Byte)
         /\ m.type = D => Rendered(x, m) = (x \o Joined(m.row)) \o <<Newline>>
         /\ m.type = C => Rendered(x, m) = ((x \o <<Hash>>) \o m.tag) \o <<Newline>>
         /\ m.type = E => Rendered(x, m) = Line(Fields(Body(m)))
         /\ m.type \notin {D, C, E} => Rendered(x, m) = x
<1>1. CASE m.type = D
  <2>1. Joined(m.row) \in Seq(Byte)
    BY <1>1, RowIs, JoinedIs
  <2>2. Rendered(x, m) = x \o Joined(m.row) \o <<Newline>>
    BY <1>1 DEF Rendered, D, C, E
  <2>3. x \o Joined(m.row) \o <<Newline>> \in Seq(Byte)
    BY <2>1, ByteSeqs
  <2>4. QED BY <1>1, <2>2, <2>3 DEF D, C, E
<1>2. CASE m.type = C
  <2>1. m.tag \in Seq(Byte)
    BY <1>2, MessageIs, TextIs
  <2>2. Rendered(x, m) = x \o <<Hash>> \o m.tag \o <<Newline>>
    <3>1. m.type # D
      BY <1>2 DEF D, C
    <3>2. m.type # E
      BY <1>2 DEF C, E
    <3>3. QED BY <1>2, <3>1, <3>2 DEF Rendered
  <2>3. x \o <<Hash>> \o m.tag \o <<Newline>> \in Seq(Byte)
    BY <2>1, ByteSeqs
  <2>4. QED BY <1>2, <2>2, <2>3 DEF D, C, E
<1>3. CASE m.type = E
  <2> DEFINE a == UpTo(Said(S, m.fields), SevCap - 1)
             b == UpTo(Said(M, m.fields), MsgCap - 1)
             c == UpTo(Said(C, m.fields), CodeCap - 1)
  <2>1. a \in Seq(Byte) /\ b \in Seq(Byte) /\ c \in Seq(Byte)
    BY <1>3, LineIs
  <2>2. Rendered(x, m) = a \o <<Colon>> \o b \o <<Open>> \o c
    BY <1>3 DEF Rendered, D, C, E
  <2>3. Fields(Body(m)).sev = a /\ Fields(Body(m)).msg = b /\ Fields(Body(m)).code = c
    BY <1>3, FieldsIs
  <2> HIDE DEF a, b, c
  <2>4. a \o <<Colon>> \o b \o <<Open>> \o c \in Seq(Byte)
    BY <2>1, ByteSeqs
  <2>5. Line(Fields(Body(m))) = a \o <<Colon>> \o b \o <<Open>> \o c
    BY <2>3 DEF Line
  <2>6. QED BY <1>3, <2>2, <2>4, <2>5 DEF D, C, E
<1>4. CASE m.type \notin {D, C, E}
  BY <1>4 DEF Rendered
<1>5. QED BY <1>1, <1>2, <1>3, <1>4

\* The text after each message.
LEMMA RenderBy ==
  ASSUME NEW ms, Good(ms), NEW f \in [0..Len(ms) -> Seq(Byte)],
         f[0] = <<>>, \A i \in 1..Len(ms) : f[i] = Rendered(f[i - 1], ms[i])
  PROVE  Rendering(ms) = f[Len(ms)]
<1> DEFINE n == Len(ms)
           t == CHOOSE t : t = [k \in 0..n |-> IF k = 0 THEN <<>>
                                               ELSE Rendered(t[k - 1], ms[k])]
<1>1. n \in Nat
  BY GoodIs
<1>2. Rendering(ms) = t[n]
  BY DEF Rendering
<1>3. f = [k \in 0..n |-> IF k = 0 THEN <<>> ELSE Rendered(f[k - 1], ms[k])]
  <2>1. \A k \in 0..n : k = 0 \/ k \in 1..n
    BY <1>1
  <2> HIDE DEF n
  <2>2. \A k \in 0..n : f[k] = IF k = 0 THEN <<>> ELSE Rendered(f[k - 1], ms[k])
    BY <2>1 DEF n
  <2>3. f \in [0..n -> Seq(Byte)]
    BY DEF n
  <2>4. QED BY <2>2, <2>3
<1>4. t = [k \in 0..n |-> IF k = 0 THEN <<>> ELSE Rendered(t[k - 1], ms[k])]
  BY <1>3
<1>5. 0 \in 0..n /\ \A k \in 1..n : k \in 0..n /\ k # 0
  BY <1>1
<1> HIDE DEF t, n
<1>6. \A k \in 0..n : t[k] = f[k]
  <2> DEFINE P == { k \in 0..n : t[k] = f[k] }
  <2>1. 0 \in P
    BY <1>3, <1>4, <1>5
  <2>2. ASSUME NEW k \in 1..n, k - 1 \in P PROVE k \in P
    BY <1>3, <1>4, <1>5, <2>2
  <2> HIDE DEF P
  <2>3. \A k \in 0..n : k \in P
    BY <1>1, <2>1, <2>2, Induction
  <2>4. QED BY <2>3 DEF P
<1>7. n \in 0..n
  BY <1>1
<1>8. QED BY <1>2, <1>6, <1>7 DEF n

LEMMA RenderingIs ==
  ASSUME NEW ms, Good(ms)
  PROVE  /\ Rendering(SubSeq(ms, 1, 0)) = <<>>
         /\ \A k \in 0..Len(ms) : Rendering(SubSeq(ms, 1, k)) \in Seq(Byte)
         /\ \A k \in 1..Len(ms) : Rendering(SubSeq(ms, 1, k))
              = Rendered(Rendering(SubSeq(ms, 1, k - 1)), ms[k])
<1> DEFINE n == Len(ms)
           step == [i \in 1..n |-> [x \in Seq(Byte) |-> Rendered(x, ms[i])]]
<1>1. n \in Nat /\ <<>> \in Seq(Byte) /\ \A i \in 1..n : ms[i] \in Message /\ Fits(ms[i])
  BY GoodIs, ByteSeqs
<1>2. step \in [1..n -> [Seq(Byte) -> Seq(Byte)]]
  <2>1. \A i \in 1..n : \A x \in Seq(Byte) : Rendered(x, ms[i]) \in Seq(Byte)
    BY <1>1, RenderedIs
  <2>2. QED BY <2>1
<1>3. \E f \in [0..n -> Seq(Byte)] : Unfolds(f, n, <<>>, step)
  <2> HIDE DEF n, step
  <2>1. QED BY <1>1, <1>2, Recursion
<1>4. PICK f \in [0..n -> Seq(Byte)] : Unfolds(f, n, <<>>, step)
  BY <1>3
<1>5. f[0] = <<>> /\ \A i \in 1..n : f[i] = Rendered(f[i - 1], ms[i])
  <2>1. \A i \in 1..n : i - 1 \in 0..n
    BY <1>1
  <2>2. \A i \in 1..n : f[i - 1] \in Seq(Byte) /\ f[i] = step[i][f[i - 1]]
    BY <1>4, <2>1 DEF Unfolds
  <2>3. QED BY <1>4, <2>2 DEF Unfolds
<1>6. ASSUME NEW k \in 0..n PROVE Rendering(SubSeq(ms, 1, k)) = f[k]
  <2> DEFINE s == SubSeq(ms, 1, k)
             g == [i \in 0..k |-> f[i]]
  <2>1. Good(s) /\ Len(s) = k /\ \A i \in 1..k : s[i] = ms[i]
    BY FirstGood
  <2>2. \A i \in 0..k : i \in 0..n
    BY <1>1
  <2>3. \A i \in 1..k : i \in 1..n /\ i \in 0..k /\ i - 1 \in 0..k
    BY <1>1
  <2>4. 0 \in 0..k /\ k \in 0..k
    BY <1>1
  <2> HIDE DEF s
  <2>5. g \in [0..k -> Seq(Byte)] /\ g[0] = <<>> /\ g[k] = f[k]
    BY <1>5, <2>2, <2>4
  <2>6. \A i \in 1..k : g[i] = Rendered(g[i - 1], s[i])
    BY <1>5, <2>1, <2>3
  <2> HIDE DEF g
  <2>7. Rendering(s) = g[k]
    BY <2>1, <2>5, <2>6, RenderBy
  <2>8. QED BY <2>5, <2>7 DEF s
<1>7. 0 \in 0..n /\ \A k \in 1..n : k \in 0..n /\ k - 1 \in 0..n
  BY <1>1
<1> HIDE DEF n
<1>8. QED BY <1>4, <1>5, <1>6, <1>7 DEF n

\* What a frame makes of pgl_exec's text is what the message makes of all that
\* came before, cut to the buffer.
LEMMA FrameRenders ==
  ASSUME NEW m \in Message, Fits(m), NEW x \in Seq(Byte), outcap \in Nat \ {0}
  PROVE  /\ m.type = D =>
              Sappend(Columns(UpTo(x, outcap - 1), Body(m)), <<Newline>>)
                = UpTo(Rendered(x, m), outcap - 1)
         /\ m.type = C =>
              Sappend(Sappend(Sappend(UpTo(x, outcap - 1), <<Hash>>), CString(Body(m), 0)),
                      <<Newline>>)
                = UpTo(Rendered(x, m), outcap - 1)
         /\ m.type = E =>
              Sappend(<<>>, Line(Fields(Body(m)))) = UpTo(Rendered(x, m), outcap - 1)
         /\ m.type \notin {D, C, E} =>
              UpTo(x, outcap - 1) = UpTo(Rendered(x, m), outcap - 1)
<1>1. ASSUME m.type = D
      PROVE  Sappend(Columns(UpTo(x, outcap - 1), Body(m)), <<Newline>>)
                = UpTo(Rendered(x, m), outcap - 1)
  <2> DEFINE y == x \o Joined(m.row)
  <2>1. y \in Seq(Byte)
    BY <1>1, RowIs, JoinedIs, ByteSeqs
  <2>2. Columns(UpTo(x, outcap - 1), Body(m)) = UpTo(y, outcap - 1)
    BY <1>1, ColumnsIs
  <2>3. Rendered(x, m) = y \o <<Newline>>
    BY <1>1, RenderedIs
  <2> HIDE DEF y
  <2>4. Sappend(UpTo(y, outcap - 1), <<Newline>>) = UpTo(y \o <<Newline>>, outcap - 1)
    BY <2>1, ByteSeqs, SappendIs
  <2>5. QED BY <2>2, <2>3, <2>4
<1>2. ASSUME m.type = C
      PROVE  Sappend(Sappend(Sappend(UpTo(x, outcap - 1), <<Hash>>), CString(Body(m), 0)),
                     <<Newline>>)
                = UpTo(Rendered(x, m), outcap - 1)
  <2> DEFINE y == x \o <<Hash>>
             z == y \o m.tag
             b == Body(m)
             t == m.tag
             e == <<0>>
  <2>1. t \in Text /\ t \in Seq(Byte) /\ y \in Seq(Byte) /\ z \in Seq(Byte) /\ Len(t) \in Nat
    BY <1>2, MessageIs, TextIs, ByteSeqs, LenProperties
  <2>2. CString(b, 0) = t
    <3>1. b = t \o e /\ b \in Seq(Byte) /\ e \in Seq(Byte) /\ Len(e) = 1 /\ e[1] = 0
      <4>1. b = t \o e /\ b \in Seq(Byte)
        BY <1>2, BodyIs
      <4>2. e \in Seq(Byte) /\ Len(e) = 1 /\ e[1] = 0
        BY Sizes
      <4>3. QED BY <4>1, <4>2
    <3> HIDE DEF b, t, e
    <3>2. /\ Len(b) = Len(t) + 1
          /\ \A i \in 1..(Len(t) + 1) : b[i] = IF i <= Len(t) THEN t[i] ELSE e[i - Len(t)]
      <4>1. /\ Len(t \o e) = Len(t) + Len(e)
            /\ \A i \in 1..(Len(t) + Len(e)) :
                 (t \o e)[i] = IF i <= Len(t) THEN t[i] ELSE e[i - Len(t)]
        BY <2>1, <3>1, ConcatProperties, SMTT(60)
      <4>2. QED BY <3>1, <4>1
    <3>3. /\ \A i \in 1..Len(t) : i \in 1..(Len(t) + 1) /\ i <= Len(t) /\ 0 + i = i
          /\ Len(t) + 1 \in 1..(Len(t) + 1) /\ ~(Len(t) + 1 <= Len(t))
          /\ (Len(t) + 1) - Len(t) = 1 /\ 0 + Len(t) + 1 = Len(t) + 1
      BY <2>1
    <3>4. /\ 0 + Len(t) + 1 <= Len(b) /\ \A i \in 1..Len(t) : b[0 + i] = t[i]
          /\ b[0 + Len(t) + 1] = 0
      BY <2>1, <3>1, <3>2, <3>3
    <3> DEFINE o == 0
    <3>5. o \in Nat /\ b \in Seq(Byte) /\ t \in Text
      BY <2>1, <3>1
    <3>6. /\ o + Len(t) + 1 <= Len(b) /\ \A i \in 1..Len(t) : b[o + i] = t[i]
          /\ b[o + Len(t) + 1] = 0
      BY <3>4
    <3> HIDE DEF o
    <3>7. CString(b, o) = t
      BY <3>5, <3>6, CStringIs
    <3>8. QED BY <3>7 DEF o
  <2>3. Rendered(x, m) = z \o <<Newline>>
    BY <1>2, RenderedIs
  <2>4. Sappend(UpTo(x, outcap - 1), <<Hash>>) = UpTo(y, outcap - 1)
    BY ByteSeqs, SappendIs
  <2> HIDE DEF y
  <2>5. Sappend(UpTo(y, outcap - 1), t) = UpTo(z, outcap - 1)
    BY <2>1, SappendIs
  <2> HIDE DEF z
  <2>6. Sappend(UpTo(z, outcap - 1), <<Newline>>) = UpTo(z \o <<Newline>>, outcap - 1)
    BY <2>1, ByteSeqs, SappendIs
  <2> HIDE DEF t
  <2>7. QED BY <2>2, <2>3, <2>4, <2>5, <2>6
<1>3. ASSUME m.type = E
      PROVE  Sappend(<<>>, Line(Fields(Body(m)))) = UpTo(Rendered(x, m), outcap - 1)
  <2> DEFINE l == Line(Fields(Body(m)))
  <2>1. l \in Seq(Byte) /\ Rendered(x, m) = l
    BY <1>3, RenderedIs, ZenonT(60)
  <2> HIDE DEF l
  <2>2. Sappend(<<>>, l) = UpTo(l, outcap - 1)
    BY <2>1, SappendFirst
  <2>3. QED BY <2>1, <2>2 DEF l
<1>4. ASSUME m.type \notin {D, C, E}
      PROVE  UpTo(x, outcap - 1) = UpTo(Rendered(x, m), outcap - 1)
  BY <1>4, RenderedIs
<1>5. QED BY <1>1, <1>2, <1>3, <1>4


--------------------------------------------------------------------------------
(***************************************************************************)
(* Messages of one type, and the request that came last.                   *)
(***************************************************************************)
LEMMA OfTypeIs ==
  ASSUME NEW ms, Good(ms), NEW t
  PROVE  /\ OfType(SubSeq(ms, 1, 0), t) = {}
         /\ \A k \in 1..Len(ms) : OfType(SubSeq(ms, 1, k), t) =
              IF ms[k].type = t THEN OfType(SubSeq(ms, 1, k - 1), t) \cup {k}
                                ELSE OfType(SubSeq(ms, 1, k - 1), t)
         /\ \A k \in 0..Len(ms) :
              OfType(SubSeq(ms, 1, k), t) = { i \in 1..k : ms[i].type = t }
<1>1. Len(ms) \in Nat
  BY GoodIs
<1>2. ASSUME NEW k \in 0..Len(ms)
      PROVE  OfType(SubSeq(ms, 1, k), t) = { i \in 1..k : ms[i].type = t }
  <2>1. Len(SubSeq(ms, 1, k)) = k /\ \A i \in 1..k : SubSeq(ms, 1, k)[i] = ms[i]
    BY FirstGood
  <2>2. QED BY <2>1 DEF OfType
<1>3. OfType(SubSeq(ms, 1, 0), t) = {}
  <2>1. 0 \in 0..Len(ms)
    BY <1>1
  <2>2. OfType(SubSeq(ms, 1, 0), t) = { i \in 1..0 : ms[i].type = t }
    BY <1>2, <2>1
  <2>3. QED BY <2>2
<1>4. ASSUME NEW k \in 1..Len(ms)
      PROVE  OfType(SubSeq(ms, 1, k), t) =
              IF ms[k].type = t THEN OfType(SubSeq(ms, 1, k - 1), t) \cup {k}
                                ELSE OfType(SubSeq(ms, 1, k - 1), t)
  <2>1. k \in 0..Len(ms) /\ k - 1 \in 0..Len(ms)
        /\ \A i : i \in 1..k <=> i = k \/ i \in 1..(k - 1)
    BY <1>1
  <2>2. OfType(SubSeq(ms, 1, k), t) = { i \in 1..k : ms[i].type = t }
        /\ OfType(SubSeq(ms, 1, k - 1), t) = { i \in 1..(k - 1) : ms[i].type = t }
    BY <1>2, <2>1
  <2>3. QED BY <2>1, <2>2
<1>5. QED BY <1>2, <1>3, <1>4

\* An AuthenticationRequest is read as it was sent.
LEMMA AskedIs ==
  ASSUME NEW m \in Message, Fits(m), m.type = R, auth.salt \in Seq(Byte)
  PROVE  /\ Asked(Body(m)).type = m.code /\ m.code \in Nat
         /\ m.code = 5 => Asked(Body(m)).salt = m.salt
         /\ Asked(Body(m)).salt \in Seq(Byte)
<1> DEFINE b == Body(m)
           w == Word(m.code)
           s == m.salt
           l == Len(b)
           d == Len(s)
           r == Rd(b, 0)
           code == m.code
           e == 2 * WordLen
<1>1. /\ b = w \o s /\ w \in Seq(Byte) /\ s \in Seq(Byte) /\ b \in Seq(Byte)
      /\ code \in 0..(Words - 1) /\ (code = 5 => d = WordLen)
  <2>1. b = w \o s /\ w \in Seq(Byte) /\ b \in Seq(Byte)
    BY BodyIs
  <2>2. s \in Seq(Byte) /\ code \in Nat
    BY MessageIs
  <2>3. code < Words /\ (code = 5 => d = WordLen)
    BY DEF Fits
  <2>4. code \in 0..(Words - 1)
    BY <2>2, <2>3, Sizes
  <2>5. QED BY <2>1, <2>2, <2>3, <2>4
<1>2. Len(w) = WordLen /\ WordLen \in Nat \ {0} /\ d \in Nat
  BY <1>1, WordIs, LenProperties, Sizes
<1>3. /\ l = WordLen + d
      /\ \A i \in 1..(WordLen + d) :
           b[i] = IF i <= WordLen THEN w[i] ELSE s[i - WordLen]
  <2> HIDE DEF b, w, s
  <2>1. /\ Len(w \o s) = Len(w) + Len(s)
        /\ \A i \in 1..(Len(w) + Len(s)) :
             (w \o s)[i] = IF i <= Len(w) THEN w[i] ELSE s[i - Len(w)]
    BY <1>1, ConcatProperties
  <2>2. QED BY <1>1, <1>2, <2>1
<1>4. r = code
  <2> DEFINE o == 0
  <2>1. \A i \in 1..WordLen : b[o + i] = w[i]
    <3>1. \A i \in 1..WordLen : o + i = i /\ i \in 1..(WordLen + d) /\ i <= WordLen
      BY <1>2
    <3> HIDE DEF b, w, s, d
    <3>2. QED BY <1>3, <3>1
  <2> HIDE DEF o, b, code
  <2>2. Rd(b, o) = code
    BY <1>1, <2>1, WordIs DEF code
  <2>3. QED BY <2>2 DEF o
<1>5. Asked(b) = IF l < WordLen THEN auth
                 ELSE [type |-> r, salt |-> IF r = 5 /\ l >= e
                                            THEN SubSeq(b, WordLen + 1, e) ELSE auth.salt]
  BY DEF Asked
<1> HIDE DEF b, w, s, l, d, r, code
<1>6. ~(l < WordLen)
  BY <1>2, <1>3
<1>7. code = 5 => l >= e /\ SubSeq(b, WordLen + 1, e) = s
  <2>1. SUFFICES ASSUME code = 5 PROVE l >= e /\ SubSeq(b, WordLen + 1, e) = s
    OBVIOUS
  <2>2. d = WordLen
    BY <1>1, <2>1
  <2>3. l >= e /\ WordLen + d = e
    BY <1>2, <1>3, <2>2
  <2>4. \A i \in 1..d : b[WordLen + i] = s[i]
    <3>1. \A i \in 1..d : /\ WordLen + i \in 1..(WordLen + d)
                          /\ ~(WordLen + i <= WordLen) /\ (WordLen + i) - WordLen = i
      BY <1>2
    <3>2. QED BY <1>3, <3>1
  <2>5. SubSeq(b, WordLen + 1, WordLen + d) = s
    <3>1. WordLen + d <= Len(b) /\ WordLen \in Nat
      BY <1>2, <1>3 DEF l
    <3>2. QED BY <1>1, <2>4, <3>1, Slice DEF d
  <2>6. QED BY <2>3, <2>5
<1>8. Asked(b).type = code /\ (code = 5 => Asked(b).salt = s)
  BY <1>4, <1>5, <1>6, <1>7
<1>9. Asked(b).salt \in Seq(Byte)
  <2>1. CASE code = 5
    BY <1>1, <1>8, <2>1
  <2>2. CASE code # 5
    BY <1>4, <1>5, <1>6, <2>2
  <2>3. QED BY <2>1, <2>2
<1>10. code \in Nat
  BY <1>1, Sizes
<1>11. QED BY <1>8, <1>9, <1>10 DEF b, s, code


\* a is what the last request among these messages asks for.
Matches(a, ms) ==
  LET asked == OfType(ms, R)
      last  == ms[CHOOSE i \in asked : \A j \in asked : j <= i]
  IN IF asked = {} THEN a = NoAuth
     ELSE a.type = last.code /\ (last.code = 5 => a.salt = last.salt)

LEMMA MatchesIs ==
  ASSUME NEW ms, Good(ms), NEW a
  PROVE  /\ a = NoAuth => Matches(a, SubSeq(ms, 1, 0))
         /\ \A k \in 1..Len(ms) :
              /\ ms[k].type = R /\ a.type = ms[k].code
                   /\ (ms[k].code = 5 => a.salt = ms[k].salt) => Matches(a, SubSeq(ms, 1, k))
              /\ ms[k].type # R /\ Matches(a, SubSeq(ms, 1, k - 1))
                   => Matches(a, SubSeq(ms, 1, k))
<1> DEFINE n == Len(ms)
           has(k) == { i \in 1..k : ms[i].type = R }
           last(H) == CHOOSE i \in H : \A j \in H : j <= i
           Asks(m) == a.type = m.code /\ (m.code = 5 => a.salt = m.salt)
<1>1. n \in Nat
  BY GoodIs
<1>2. ASSUME NEW k \in 0..n
      PROVE  Matches(a, SubSeq(ms, 1, k))
               <=> IF has(k) = {} THEN a = NoAuth ELSE Asks(ms[last(has(k))])
  <2> DEFINE s == SubSeq(ms, 1, k)
  <2>1. OfType(s, R) = has(k)
    BY OfTypeIs
  <2>2. \A i \in 1..k : s[i] = ms[i]
    BY FirstGood
  <2>3. has(k) # {} => last(has(k)) \in 1..k
    <3> DEFINE G == has(k)
    <3>1. G \in SUBSET (0..k) /\ G \in SUBSET (1..k) /\ k \in Nat
      BY <1>1
    <3> HIDE DEF G
    <3>2. G # {} => \E i \in G : \A j \in G : j <= i
      BY <3>1, Greatest
    <3>3. G # {} => last(G) \in G
      BY <3>2
    <3>4. QED BY <3>1, <3>3 DEF G
  <2>4. Matches(a, s) <=> IF OfType(s, R) = {} THEN a = NoAuth
                          ELSE Asks(s[last(OfType(s, R))])
    BY DEF Matches
  <2> HIDE DEF s, has, last, Asks
  <2>5. QED BY <2>1, <2>2, <2>3, <2>4 DEF s
<1>3. a = NoAuth => Matches(a, SubSeq(ms, 1, 0))
  <2>1. 0 \in 0..n /\ has(0) = {}
    BY <1>1
  <2> HIDE DEF has, last, Asks
  <2>2. QED BY <1>2, <2>1
<1>4. ASSUME NEW k \in 1..n, ms[k].type = R, Asks(ms[k])
      PROVE  Matches(a, SubSeq(ms, 1, k))
  <2> DEFINE H == has(k)
             c == last(H)
  <2>1. k \in H /\ k \in 0..n /\ k \in Nat /\ \A j \in H : j <= k /\ j \in Nat
    BY <1>1, <1>4
  <2> HIDE DEF H
  <2>2. c \in H /\ \A j \in H : j <= c
    BY <2>1
  <2> HIDE DEF c
  <2>3. c = k /\ H # {}
    BY <2>1, <2>2
  <2> HIDE DEF has, last, Asks
  <2>4. QED BY <1>2, <1>4, <2>1, <2>3 DEF c, H
<1>5. ASSUME NEW k \in 1..n, ms[k].type # R, Matches(a, SubSeq(ms, 1, k - 1))
      PROVE  Matches(a, SubSeq(ms, 1, k))
  <2>1. k \in 0..n /\ k - 1 \in 0..n /\ has(k) = has(k - 1)
    <3>1. k \in 0..n /\ k - 1 \in 0..n /\ \A i : i \in 1..k <=> i = k \/ i \in 1..(k - 1)
      BY <1>1
    <3>2. QED BY <1>5, <3>1
  <2> HIDE DEF has, last, Asks
  <2>2. QED BY <1>2, <1>5, <2>1
<1>6. QED BY <1>3, <1>4, <1>5


--------------------------------------------------------------------------------
(***************************************************************************)
(* The invariant: the caller is behind some message of the reply, and has   *)
(* made of the messages before it what they say.                           *)
(***************************************************************************)
ReadTo(k) ==
  /\ off = Ends(sent, k) /\ off <= Len(buf)
  /\ caller = "pgl_exec" =>
       /\ out = UpTo(Rendering(SubSeq(sent, 1, k)), outcap - 1)
       /\ rc = -1 <=> OfType(SubSeq(sent, 1, k), E) # {}
  /\ caller = "authenticate" => Matches(auth, SubSeq(sent, 1, k))
  /\ phase = "done" =>
       /\ caller = "pgl_exec_wire" => out = UpTo(buf, outcap)
       /\ caller # "pgl_exec_wire" => Whole(sent, Len(buf), k)

ReplyInv ==
  /\ sent \in Replies \cup AuthReplies
  /\ ReplyTypeOK
  /\ Came(buf, sent)
  /\ \E k \in 0..Len(sent) : ReadTo(k)

LEMMA SentIsGood ==
  ASSUME sent \in Replies \cup AuthReplies
  PROVE  Good(sent)
BY ExecReplyAssumption DEF Good

LEMMA OutCap ==
  ASSUME outcap \in OutCaps
  PROVE  outcap \in Nat \ {0}
BY ExecReplyAssumption

\* The next frame is the next message.
LEMMA NextMessage ==
  ASSUME Good(sent), Came(buf, sent), NEW k \in 0..Len(sent), off = Ends(sent, k),
         off <= Len(buf)
  PROVE  /\ IsFrame(buf, off) =>
              /\ k + 1 \in 1..Len(sent)
              /\ sent[k + 1] \in Message /\ Fits(sent[k + 1])
              /\ After(buf, off) = Ends(sent, k + 1) /\ Ends(sent, k + 1) \in 0..Len(buf)
              /\ buf[off + 1] = sent[k + 1].type
              /\ FrameBody = Body(sent[k + 1])
         /\ ~IsFrame(buf, off) => Whole(sent, Len(buf), k)
<1> DEFINE n == Len(sent)
           l == Len(buf)
<1>1. n \in Nat /\ l \in Nat
  BY GoodIs, LenProperties DEF Came
<1>2. /\ IsFrame(buf, off) <=> k < n /\ Ends(sent, k + 1) <= l
      /\ k < n /\ Ends(sent, k + 1) <= l =>
           /\ After(buf, off) = Ends(sent, k + 1)
           /\ buf[off + 1] = sent[k + 1].type
           /\ SubSeq(buf, off + 1 + WordLen + 1, After(buf, off)) = Body(sent[k + 1])
  BY FrameAt
<1>3. ASSUME IsFrame(buf, off)
      PROVE  /\ k + 1 \in 1..n
             /\ sent[k + 1] \in Message /\ Fits(sent[k + 1])
             /\ After(buf, off) = Ends(sent, k + 1) /\ Ends(sent, k + 1) \in 0..l
             /\ buf[off + 1] = sent[k + 1].type
             /\ FrameBody = Body(sent[k + 1])
  <2>1. k < n /\ Ends(sent, k + 1) <= l
    BY <1>2, <1>3
  <2>2. k + 1 \in 1..n /\ k + 1 \in 0..n
    BY <1>1, <2>1
  <2>3. Ends(sent, k + 1) \in 0..Len(Bytes(sent))
    BY <2>2, BytesIs
  <2>4. Ends(sent, k + 1) \in 0..l
    BY <1>1, <2>1, <2>3
  <2>5. sent[k + 1] \in Message /\ Fits(sent[k + 1])
    BY <2>2, GoodIs
  <2>6. QED BY <1>2, <2>1, <2>2, <2>4, <2>5 DEF FrameBody
<1>4. ASSUME ~IsFrame(buf, off) PROVE Whole(sent, l, k)
  <2>1. ASSUME k < n PROVE Ends(sent, k + 1) > l
    <3>1. k + 1 \in 0..n
      BY <1>1, <2>1
    <3>2. Ends(sent, k + 1) \in 0..Len(Bytes(sent)) /\ ~(Ends(sent, k + 1) <= l)
      BY <1>2, <1>4, <2>1, <3>1, BytesIs
    <3>3. QED BY <1>1, <3>2
  <2>2. QED BY <2>1 DEF Whole
<1>5. QED BY <1>3, <1>4

LEMMA InitReply == ReplyInit => ReplyInv
<1> SUFFICES ASSUME ReplyInit PROVE ReplyInv
  OBVIOUS
<1>1. sent \in Replies \cup AuthReplies
  BY DEF ReplyInit
<1>2. Good(sent)
  BY <1>1, SentIsGood
<1>3. outcap \in OutCaps /\ outcap \in Nat \ {0}
  BY OutCap DEF ReplyInit
<1>4. buf = <<>> /\ <<>> \in Seq(Byte) /\ Len(<<>>) = 0 /\ Len(Bytes(sent)) \in Nat
  BY <1>2, BytesIs, LenProperties, ByteSeqs DEF ReplyInit
<1>5. ReplyTypeOK
  <2>1. auth.type \in Nat /\ auth.salt \in Seq(Byte)
    BY <1>4 DEF ReplyInit, NoAuth
  <2>2. QED BY <1>3, <1>4, <2>1 DEF ReplyInit, ReplyTypeOK
<1>6. Came(buf, sent)
  BY <1>4 DEF Came
<1>7. ReadTo(0)
  <2>1. Ends(sent, 0) = 0
    BY <1>2, BytesIs
  <2>2. out = UpTo(Rendering(SubSeq(sent, 1, 0)), outcap - 1)
    <3>1. Rendering(SubSeq(sent, 1, 0)) = <<>>
      BY <1>2, RenderingIs
    <3>2. UpTo(<<>>, outcap - 1) = <<>>
      <4> DEFINE c == outcap - 1
      <4>1. c \in Nat /\ Len(<<>>) <= c
        BY <1>3, <1>4
      <4> HIDE DEF c
      <4>2. QED BY <1>4, <4>1, UpToIs DEF c
    <3>3. QED BY <3>1, <3>2 DEF ReplyInit
  <2>3. OfType(SubSeq(sent, 1, 0), E) = {} /\ Matches(NoAuth, SubSeq(sent, 1, 0))
    BY <1>2, OfTypeIs, MatchesIs
  <2>4. QED BY <1>4, <2>1, <2>2, <2>3 DEF ReplyInit, ReadTo
<1>8. 0 \in 0..Len(sent)
  BY <1>2, GoodIs
<1>9. QED BY <1>1, <1>5, <1>6, <1>7, <1>8 DEF ReplyInv

LEMMA ArriveKeeps ==
  ASSUME ReplyInv, NEW n \in 1..(Len(Bytes(sent)) - Len(buf)), Arrive(n)
  PROVE  ReplyInv'
<1> DEFINE B == Bytes(sent)
           need == Len(buf) + n
<1>1. Good(sent) /\ Came(buf, sent) /\ sent \in Replies \cup AuthReplies /\ ReplyTypeOK
  BY SentIsGood DEF ReplyInv
<1>2. B \in Seq(Byte) /\ Len(B) \in Nat /\ Len(buf) \in Nat /\ cap \in Nat
  BY <1>1, BytesIs, LenProperties DEF Came, ReplyTypeOK
<1>3. need \in 0..Len(B) /\ need \in Nat /\ Len(buf) <= need
  BY <1>2
<1>4. /\ buf' = SubSeq(B, 1, need) /\ cap' = Grown(cap, need)
      /\ phase = "collect"
      /\ UNCHANGED <<caller, sent, outcap, phase, off, out, rc, auth>>
  BY DEF Arrive
<1> HIDE DEF B, need
<1>5. buf' \in Seq(Byte) /\ Len(buf') = need /\ \A i \in 1..need : buf'[i] = B[i]
  BY <1>2, <1>3, <1>4, Firsts
<1>6. Came(buf, sent)'
  BY <1>2, <1>3, <1>4, <1>5 DEF Came, B
<1>7. cap' \in Nat /\ need <= cap'
  BY <1>2, <1>3, <1>4, GrownIs
<1>8. ReplyTypeOK'
  <2>1. off \in 0..Len(buf')
    BY <1>1, <1>2, <1>3, <1>5 DEF ReplyTypeOK
  <2>2. QED BY <1>1, <1>4, <1>5, <1>7, <2>1, SMTT(60) DEF ReplyTypeOK
<1>9. ASSUME NEW k \in 0..Len(sent), ReadTo(k) PROVE ReadTo(k)'
  <2>1. off = Ends(sent, k) /\ off <= Len(buf') /\ (Ends(sent, k))' = Ends(sent, k)
    <3>1. off \in Nat /\ off <= Len(buf)
      BY <1>1, <1>2 DEF ReplyTypeOK
    <3>2. QED BY <1>2, <1>3, <1>4, <1>5, <1>9, <3>1 DEF ReadTo, Ends
  <2>2. phase' # "done"
    BY <1>4
  <2>3. QED BY <1>4, <1>9, <2>1, <2>2 DEF ReadTo, Matches, OfType
<1>10. QED BY <1>1, <1>4, <1>6, <1>8, <1>9 DEF ReplyInv


LEMMA ExecFrameKeeps ==
  ASSUME ReplyInv, ExecFrame
  PROVE  ReplyInv'
<1> DEFINE c == outcap - 1
<1>1. /\ Good(sent) /\ Came(buf, sent) /\ sent \in Replies \cup AuthReplies /\ ReplyTypeOK
      /\ outcap \in Nat \ {0}
  BY SentIsGood, OutCap DEF ReplyInv, ReplyTypeOK
<1>2. PICK k \in 0..Len(sent) : ReadTo(k)
  BY DEF ReplyInv
<1>3. /\ phase = "read" /\ caller = "pgl_exec" /\ IsFrame(buf, off)
      /\ off' = After(buf, off)
      /\ UNCHANGED <<caller, sent, outcap, phase, buf, cap, auth>>
  BY DEF ExecFrame
<1> DEFINE m == sent[k + 1]
           x == Rendering(SubSeq(sent, 1, k))
           y == Rendering(SubSeq(sent, 1, k + 1))
<1>4. /\ k + 1 \in 1..Len(sent) /\ k + 1 \in 0..Len(sent) /\ (k + 1) - 1 = k
      /\ m \in Message /\ Fits(m)
      /\ After(buf, off) = Ends(sent, k + 1) /\ Ends(sent, k + 1) \in 0..Len(buf)
      /\ buf[off + 1] = m.type /\ FrameBody = Body(m)
  <2>1. off = Ends(sent, k) /\ off <= Len(buf)
    BY <1>2 DEF ReadTo
  <2>2. /\ k + 1 \in 1..Len(sent) /\ m \in Message /\ Fits(m)
        /\ After(buf, off) = Ends(sent, k + 1) /\ Ends(sent, k + 1) \in 0..Len(buf)
        /\ buf[off + 1] = m.type /\ FrameBody = Body(m)
    BY <1>1, <1>3, <2>1, NextMessage
  <2>3. k + 1 \in 0..Len(sent) /\ (k + 1) - 1 = k
    BY <2>2
  <2>4. QED BY <2>2, <2>3
<1>5. /\ x \in Seq(Byte) /\ y = Rendered(x, m) /\ y \in Seq(Byte)
      /\ out = UpTo(x, c) /\ (rc = -1 <=> OfType(SubSeq(sent, 1, k), E) # {})
  <2>1. x \in Seq(Byte) /\ y \in Seq(Byte)
    BY <1>1, <1>4, RenderingIs
  <2>2. \A j \in 1..Len(sent) : Rendering(SubSeq(sent, 1, j))
          = Rendered(Rendering(SubSeq(sent, 1, j - 1)), sent[j])
    BY <1>1, RenderingIs
  <2>3. y = Rendered(Rendering(SubSeq(sent, 1, (k + 1) - 1)), m)
    BY <1>4, <2>2
  <2>4. y = Rendered(x, m)
    BY <1>4, <2>3
  <2>5. QED BY <1>2, <1>3, <2>1, <2>4 DEF ReadTo
<1>6. c \in Nat
  BY <1>1
<1> HIDE DEF m, x, y
<1>7. out' = UpTo(y, c)
  <2>1. CASE DataRow
    BY <1>1, <1>4, <1>5, <2>1, FrameRenders DEF DataRow
  <2>2. CASE CommandComplete
    BY <1>1, <1>4, <1>5, <2>2, FrameRenders DEF CommandComplete
  <2>3. CASE ErrorResponse
    BY <1>1, <1>4, <1>5, <2>3, FrameRenders DEF ErrorResponse
  <2>4. CASE buf[off + 1] \notin {D, C, E} /\ UNCHANGED <<out, rc>>
    BY <1>1, <1>4, <1>5, <2>4, FrameRenders
  <2>5. QED BY <2>1, <2>2, <2>3, <2>4 DEF ExecFrame
<1>8. /\ rc' \in {0, -1}
      /\ rc' = -1 <=> OfType(SubSeq(sent, 1, k + 1), E) # {}
  <2>1. OfType(SubSeq(sent, 1, k + 1), E) =
          IF m.type = E THEN OfType(SubSeq(sent, 1, k), E) \cup {k + 1}
                        ELSE OfType(SubSeq(sent, 1, k), E)
    <3>1. \A j \in 1..Len(sent) : OfType(SubSeq(sent, 1, j), E) =
             IF sent[j].type = E THEN OfType(SubSeq(sent, 1, j - 1), E) \cup {j}
                                 ELSE OfType(SubSeq(sent, 1, j - 1), E)
      BY <1>1, OfTypeIs
    <3>2. OfType(SubSeq(sent, 1, k + 1), E) =
          IF m.type = E THEN OfType(SubSeq(sent, 1, (k + 1) - 1), E) \cup {k + 1}
                        ELSE OfType(SubSeq(sent, 1, (k + 1) - 1), E)
      BY <1>4, <3>1 DEF m
    <3>3. QED BY <1>4, <3>2
  <2>2. rc \in {0, -1}
    BY <1>1 DEF ReplyTypeOK
  <2>3. CASE m.type = E
    <3>1. rc' = -1
      BY <1>4, <2>3 DEF ExecFrame, DataRow, CommandComplete, ErrorResponse, D,
         C, E
    <3>2. QED BY <2>1, <2>3, <3>1
  <2>4. CASE m.type # E
    <3>1. rc' = rc
      BY <1>4, <2>4 DEF ExecFrame, DataRow, CommandComplete, ErrorResponse
    <3>2. QED BY <1>5, <2>1, <2>2, <2>4, <3>1
  <2>5. QED BY <2>3, <2>4
<1>9. out' \in Seq(Byte) /\ Len(out') <= outcap
  <2>1. UpTo(y, c) \in Seq(Byte) /\ Len(UpTo(y, c)) = IF Len(y) < c THEN Len(y) ELSE c
    BY <1>5, <1>6, UpToIs
  <2>2. Len(y) \in Nat
    BY <1>5, LenProperties
  <2>3. QED BY <1>1, <1>7, <2>1, <2>2
<1>10. ReplyTypeOK'
  <2>1. off' \in 0..Len(buf)
    BY <1>3, <1>4
  <2>2. QED BY <1>1, <1>3, <1>8, <1>9, <2>1 DEF ReplyTypeOK
<1>11. ReadTo(k + 1)'
  <2>1. off' = Ends(sent, k + 1) /\ off' <= Len(buf)
    <3>1. Len(buf) \in Nat
      BY <1>1, LenProperties DEF Came
    <3>2. QED BY <1>3, <1>4, <3>1
  <2>2. phase' # "done" /\ caller' # "authenticate"
    BY <1>3
  <2>3. (Ends(sent, k + 1))' = Ends(sent, k + 1)
        /\ (Rendering(SubSeq(sent, 1, k + 1)))' = y
        /\ (OfType(SubSeq(sent, 1, k + 1), E))' = OfType(SubSeq(sent, 1, k + 1), E)
    BY <1>3 DEF Ends, y, OfType
  <2>4. QED BY <1>3, <1>7, <1>8, <2>1, <2>2, <2>3 DEF ReadTo
<1>12. (\E j \in 0..Len(sent) : ReadTo(j))'
  BY <1>3, <1>4, <1>11
<1>13. QED BY <1>1, <1>3, <1>10, <1>12 DEF ReplyInv, Came

LEMMA AuthFrameKeeps ==
  ASSUME ReplyInv, AuthFrame
  PROVE  ReplyInv'
<1>1. Good(sent) /\ Came(buf, sent) /\ sent \in Replies \cup AuthReplies /\ ReplyTypeOK
  BY SentIsGood DEF ReplyInv
<1>2. PICK k \in 0..Len(sent) : ReadTo(k)
  BY DEF ReplyInv
<1>3. /\ phase = "read" /\ caller = "authenticate" /\ IsFrame(buf, off)
      /\ auth' = IF buf[off + 1] = R THEN Asked(FrameBody) ELSE auth
      /\ off' = After(buf, off)
      /\ UNCHANGED <<caller, sent, outcap, phase, buf, cap, out, rc>>
  BY DEF AuthFrame
<1> DEFINE m == sent[k + 1]
<1>4. /\ k + 1 \in 1..Len(sent) /\ k + 1 \in 0..Len(sent) /\ (k + 1) - 1 = k
      /\ m \in Message /\ Fits(m)
      /\ After(buf, off) = Ends(sent, k + 1) /\ Ends(sent, k + 1) \in 0..Len(buf)
      /\ buf[off + 1] = m.type /\ FrameBody = Body(m)
  <2>1. off = Ends(sent, k) /\ off <= Len(buf)
    BY <1>2 DEF ReadTo
  <2>2. /\ k + 1 \in 1..Len(sent) /\ m \in Message /\ Fits(m)
        /\ After(buf, off) = Ends(sent, k + 1) /\ Ends(sent, k + 1) \in 0..Len(buf)
        /\ buf[off + 1] = m.type /\ FrameBody = Body(m)
    BY <1>1, <1>3, <2>1, NextMessage
  <2>3. k + 1 \in 0..Len(sent) /\ (k + 1) - 1 = k
    BY <2>2
  <2>4. QED BY <2>2, <2>3
<1>5. auth.type \in Nat /\ auth.salt \in Seq(Byte) /\ Matches(auth, SubSeq(sent, 1, k))
  BY <1>1, <1>2, <1>3 DEF ReplyTypeOK, ReadTo
<1> DEFINE a == Asked(Body(m))
<1>6. m.type = R => /\ a.type = m.code /\ a.type \in Nat /\ a.salt \in Seq(Byte)
                    /\ m.code = 5 => a.salt = m.salt
  BY <1>4, <1>5, AskedIs
<1>7. \A z : /\ m.type = R /\ z.type = m.code /\ (m.code = 5 => z.salt = m.salt)
                  => Matches(z, SubSeq(sent, 1, k + 1))
             /\ m.type # R /\ Matches(z, SubSeq(sent, 1, k)) => Matches(z, SubSeq(sent, 1, k + 1))
  <2>1. TAKE z
  <2>2. \A j \in 1..Len(sent) :
          /\ sent[j].type = R /\ z.type = sent[j].code
               /\ (sent[j].code = 5 => z.salt = sent[j].salt) => Matches(z, SubSeq(sent, 1, j))
          /\ sent[j].type # R /\ Matches(z, SubSeq(sent, 1, j - 1)) => Matches(z, SubSeq(sent, 1, j))
    BY <1>1, MatchesIs
  <2> DEFINE i == k + 1
  <2>3. i \in 1..Len(sent) /\ i - 1 = k /\ m = sent[i]
    BY <1>4
  <2> HIDE DEF i, m
  <2>4. /\ m.type = R /\ z.type = m.code /\ (m.code = 5 => z.salt = m.salt)
                  => Matches(z, SubSeq(sent, 1, i))
        /\ m.type # R /\ Matches(z, SubSeq(sent, 1, k)) => Matches(z, SubSeq(sent, 1, i))
    BY <2>2, <2>3
  <2>5. QED BY <2>4 DEF i
<1> HIDE DEF m, a
<1>8. auth'.type \in Nat /\ auth'.salt \in Seq(Byte) /\ Matches(auth', SubSeq(sent, 1, k + 1))
  <2>1. CASE m.type = R
    <3>1. auth' = a
      BY <1>3, <1>4, <2>1 DEF a
    <3>2. QED BY <1>6, <1>7, <2>1, <3>1
  <2>2. CASE m.type # R
    <3>1. auth' = auth
      BY <1>3, <1>4, <2>2
    <3>2. QED BY <1>5, <1>7, <2>2, <3>1
  <2>3. QED BY <2>1, <2>2
<1>9. ReplyTypeOK'
  <2>1. off' \in 0..Len(buf)
    BY <1>3, <1>4
  <2>2. QED BY <1>1, <1>3, <1>8, <2>1 DEF ReplyTypeOK
<1>10. ReadTo(k + 1)'
  <2>1. off' = Ends(sent, k + 1) /\ off' <= Len(buf)
    <3>1. Len(buf) \in Nat
      BY <1>1, LenProperties DEF Came
    <3>2. QED BY <1>3, <1>4, <3>1
  <2>2. phase' # "done" /\ caller' # "pgl_exec"
    BY <1>3
  <2>3. (Ends(sent, k + 1))' = Ends(sent, k + 1)
        /\ (Matches(auth, SubSeq(sent, 1, k + 1)))' = Matches(auth', SubSeq(sent, 1, k + 1))
    BY <1>3 DEF Ends, Matches, OfType
  <2>4. QED BY <1>3, <1>8, <2>1, <2>2, <2>3 DEF ReadTo
<1>11. (\E j \in 0..Len(sent) : ReadTo(j))'
  BY <1>3, <1>4, <1>10
<1>12. QED BY <1>1, <1>3, <1>9, <1>11 DEF ReplyInv, Came

LEMMA WireCopiesKeeps ==
  ASSUME ReplyInv, WireCopies
  PROVE  ReplyInv'
<1>1. /\ Came(buf, sent) /\ sent \in Replies \cup AuthReplies /\ ReplyTypeOK
      /\ outcap \in Nat \ {0} /\ outcap \in Nat
  BY OutCap DEF ReplyInv, ReplyTypeOK
<1>2. PICK k \in 0..Len(sent) : ReadTo(k)
  BY DEF ReplyInv
<1>3. /\ caller = "pgl_exec_wire" /\ out' = UpTo(buf, outcap) /\ phase' = "done"
      /\ UNCHANGED <<caller, sent, outcap, buf, cap, off, rc, auth>>
  BY DEF WireCopies
<1>4. out' \in Seq(Byte) /\ Len(out') <= outcap
  <2>1. buf \in Seq(Byte) /\ Len(buf) \in Nat
    BY <1>1, LenProperties DEF Came
  <2>2. UpTo(buf, outcap) \in Seq(Byte)
        /\ Len(UpTo(buf, outcap)) = IF Len(buf) < outcap THEN Len(buf) ELSE outcap
    BY <1>1, <2>1, UpToIs
  <2>3. QED BY <1>1, <1>3, <2>1, <2>2
<1>5. ReplyTypeOK'
  BY <1>1, <1>3, <1>4 DEF ReplyTypeOK
<1>6. ReadTo(k)'
  BY <1>2, <1>3 DEF ReadTo, Ends
<1>7. QED BY <1>1, <1>2, <1>3, <1>5, <1>6 DEF ReplyInv, Came

LEMMA FramesEndKeeps ==
  ASSUME ReplyInv, FramesEnd
  PROVE  ReplyInv'
<1>1. Good(sent) /\ Came(buf, sent) /\ sent \in Replies \cup AuthReplies /\ ReplyTypeOK
  BY SentIsGood DEF ReplyInv
<1>2. PICK k \in 0..Len(sent) : ReadTo(k)
  BY DEF ReplyInv
<1>3. /\ caller # "pgl_exec_wire" /\ ~IsFrame(buf, off) /\ phase' = "done"
      /\ UNCHANGED <<caller, sent, outcap, buf, cap, off, out, rc, auth>>
  BY DEF FramesEnd
<1>4. Whole(sent, Len(buf), k)
  BY <1>1, <1>2, <1>3, NextMessage DEF ReadTo
<1>5. ReplyTypeOK'
  BY <1>1, <1>3 DEF ReplyTypeOK
<1>6. ReadTo(k)'
  BY <1>2, <1>3, <1>4 DEF ReadTo, Ends, Whole, Matches, OfType
<1>7. QED BY <1>1, <1>2, <1>3, <1>5, <1>6 DEF ReplyInv, Came

LEMMA NextReply == ReplyInv /\ [ReplyNext]_replyVars => ReplyInv'
<1> SUFFICES ASSUME ReplyInv, [ReplyNext]_replyVars PROVE ReplyInv'
  OBVIOUS
<1>1. CASE \E n \in 1..(Len(Bytes(sent)) - Len(buf)) : Arrive(n)
  BY <1>1, ArriveKeeps
<1>2. CASE Collected
  <2>1. /\ phase' = "read" /\ phase = "collect"
        /\ UNCHANGED <<caller, sent, outcap, buf, cap, off, out, rc, auth>>
    BY <1>2 DEF Collected
  <2>2. ReplyTypeOK'
    BY <2>1 DEF ReplyInv, ReplyTypeOK
  <2>3. (\E k \in 0..Len(sent) : ReadTo(k))'
    BY <2>1, ZenonT(60) DEF ReplyInv, ReadTo, Ends, Matches, OfType
  <2>4. QED BY <2>1, <2>2, <2>3 DEF ReplyInv, Came
<1>3. CASE ExecFrame
  BY <1>3, ExecFrameKeeps
<1>4. CASE AuthFrame
  BY <1>4, AuthFrameKeeps
<1>5. CASE WireCopies
  BY <1>5, WireCopiesKeeps
<1>6. CASE FramesEnd
  BY <1>6, FramesEndKeeps
<1>7. CASE UNCHANGED replyVars
  <2>1. UNCHANGED <<caller, sent, outcap, phase, buf, cap, off, out, rc, auth>>
    BY <1>7 DEF replyVars
  <2>2. ReplyTypeOK'
    BY <2>1 DEF ReplyInv, ReplyTypeOK
  <2>3. (\E k \in 0..Len(sent) : ReadTo(k))'
    <3>1. PICK k \in 0..Len(sent) : ReadTo(k)
      BY DEF ReplyInv
    <3>2. (Whole(sent, Len(buf), k))' <=> Whole(sent, Len(buf), k)
      BY <2>1 DEF Whole, Ends
    <3>3. ReadTo(k)'
      BY <2>1, <3>1, <3>2 DEF ReadTo, Ends, Matches, OfType
    <3>4. QED BY <2>1, <3>3
  <2>4. QED BY <2>1, <2>2, <2>3 DEF ReplyInv, Came
<1>8. QED BY <1>1, <1>2, <1>3, <1>4, <1>5, <1>6, <1>7 DEF ReplyNext

LEMMA ReplyInvHolds == ReplySpec => []ReplyInv
BY InitReply, NextReply, PTL DEF ReplySpec

--------------------------------------------------------------------------------
(***************************************************************************)
(* What rows() makes of the text: its lines, and their columns.            *)
(***************************************************************************)
\* A set of numbers that f lists, each greater than the one before.
Lists(f, n, I) ==
  /\ n \in Nat /\ f \in [1..n -> Int]
  /\ \A i, j \in 1..n : i < j => f[i] < f[j]
  /\ I = { f[i] : i \in 1..n }

LEMMA Increasing ==
  ASSUME NEW n, NEW f, NEW I, Lists(f, n, I)
  PROVE  Cardinality(I) = n /\ \A k \in 1..n : Nth(I, k) = f[k]
<1> DEFINE F(m) == { f[i] : i \in 1..m }
           P == { m \in 0..n : IsFiniteSet(F(m)) /\ Cardinality(F(m)) = m }
<1> n \in Nat /\ f \in [1..n -> Int]
  BY DEF Lists
<1> (\A i, j \in 1..n : i < j => f[i] < f[j]) /\ I = { f[i] : i \in 1..n }
  BY DEF Lists
<1>1. 0 \in P
  <2>1. F(0) = {} /\ 0 \in 0..n
    OBVIOUS
  <2> HIDE DEF F
  <2>2. IsFiniteSet(F(0)) /\ Cardinality(F(0)) = 0
    BY <2>1, FS_EmptySet
  <2>3. QED BY <2>1, <2>2
<1>2. ASSUME NEW m \in 1..n, m - 1 \in P PROVE m \in P
  <2>1. \A i : i \in 1..m <=> i = m \/ i \in 1..(m - 1)
    OBVIOUS
  <2>2. F(m) = F(m - 1) \cup {f[m]}
    BY <2>1
  <2>3. f[m] \notin F(m - 1)
    <3>1. SUFFICES ASSUME NEW i \in 1..(m - 1), f[i] = f[m] PROVE FALSE
      OBVIOUS
    <3>2. i \in 1..n /\ i < m
      OBVIOUS
    <3>3. f[i] < f[m] /\ f[i] \in Int
      BY <3>2
    <3>4. QED BY <3>1, <3>3
  <2>4. IsFiniteSet(F(m - 1)) /\ Cardinality(F(m - 1)) = m - 1
    BY <1>2
  <2> DEFINE G == F(m - 1)
             x == f[m]
  <2>5. IsFiniteSet(G) /\ Cardinality(G) = m - 1 /\ x \notin G /\ F(m) = G \cup {x}
    BY <2>2, <2>3, <2>4
  <2> HIDE DEF F, G, x
  <2>6. IsFiniteSet(G \cup {x}) /\ Cardinality(G \cup {x}) = Cardinality(G) + 1
    BY <2>5, FS_AddElement
  <2>7. (m - 1) + 1 = m /\ m \in 0..n
    OBVIOUS
  <2>8. Cardinality(F(m)) = m
    BY <2>5, <2>6, <2>7
  <2>9. QED BY <2>5, <2>6, <2>7, <2>8
<1> HIDE DEF P
<1>3. \A m \in 0..n : m \in P
  BY <1>1, <1>2, Induction
<1>4. \A m \in 0..n : Cardinality(F(m)) = m
  BY <1>3 DEF P
<1>5. ASSUME NEW k \in 1..n
      PROVE  { j \in I : j < f[k] } = F(k - 1)
  <2>1. ASSUME NEW i \in 1..n PROVE f[i] < f[k] <=> i < k
    <3>1. f[i] \in Int /\ f[k] \in Int
      OBVIOUS
    <3>2. i < k => f[i] < f[k]
      OBVIOUS
    <3>3. k < i => f[k] < f[i]
      OBVIOUS
    <3>4. i < k \/ i = k \/ k < i
      OBVIOUS
    <3>5. QED BY <3>1, <3>2, <3>3, <3>4
  <2>2. \A i : i \in 1..(k - 1) <=> i \in 1..n /\ i < k
    OBVIOUS
  <2>3. QED BY <2>1, <2>2
<1>6. \A k \in 1..n : Cardinality({ j \in I : j < f[k] }) = k - 1
  <2>1. TAKE k \in 1..n
  <2>2. k - 1 \in 0..n
    OBVIOUS
  <2> HIDE DEF F
  <2>3. QED BY <1>4, <1>5, <2>2
<1>7. ASSUME NEW k \in 1..n
      PROVE  Nth(I, k) = f[k]
  <2> DEFINE Q(i) == Cardinality({ j \in I : j < i }) = k - 1
  <2>1. f[k] \in I /\ Q(f[k])
    BY <1>6
  <2>2. ASSUME NEW i \in I, Q(i) PROVE i = f[k]
    <3>1. PICK h \in 1..n : i = f[h]
      OBVIOUS
    <3>2. h - 1 = k - 1
      BY <1>6, <2>2, <3>1
    <3>3. QED BY <3>1, <3>2
  <2>3. Nth(I, k) = CHOOSE i \in I : Q(i)
    BY DEF Nth
  <2> HIDE DEF Q
  <2>4. QED BY <2>1, <2>2, <2>3
<1>8. Cardinality(I) = n
  <2>1. n \in 0..n /\ I = F(n)
    OBVIOUS
  <2> HIDE DEF F
  <2>2. QED BY <1>4, <2>1
<1>9. QED BY <1>7, <1>8

\* Nth lists a set of places.
LEMMA NthIs ==
  ASSUME NEW n \in Nat, NEW I \in SUBSET (1..n)
  PROVE  /\ Cardinality(I) \in 0..n
         /\ \A k \in 1..Cardinality(I) :
              Nth(I, k) \in I /\ Cardinality({ j \in I : j < Nth(I, k) }) = k - 1
         /\ \A i \in I, k \in 1..Cardinality(I) :
              Cardinality({ j \in I : j < i }) = k - 1 => Nth(I, k) = i
         /\ \A i \in I : \E k \in 1..Cardinality(I) : Nth(I, k) = i
<1> DEFINE c == Cardinality(I)
           below(i) == Cardinality({ j \in I : j < i })
<1>1. \A j \in I : j \in Int /\ 1 <= j /\ j <= n
  OBVIOUS
<1>2. c \in 0..n
  BY <1>1, CountBelow
<1>3. /\ \A i, j \in I : below(i) = below(j) => i = j
      /\ \A i \in I : below(i) \in 0..(c - 1)
      /\ \A k \in 0..(c - 1) : \E i \in I : below(i) = k
  BY <1>1, EveryPlaceOnce DEF Below
<1> HIDE DEF c, below
<1>4. \A k \in 1..c : Nth(I, k) \in I /\ below(Nth(I, k)) = k - 1
  <2>1. TAKE k \in 1..c
  <2>2. k - 1 \in 0..(c - 1)
    BY <1>2
  <2>3. \E i \in I : below(i) = k - 1
    BY <1>3, <2>2
  <2>4. Nth(I, k) = CHOOSE i \in I : below(i) = k - 1
    BY DEF Nth, below
  <2>5. QED BY <2>3, <2>4
<1>5. \A i \in I, k \in 1..c : below(i) = k - 1 => Nth(I, k) = i
  BY <1>3, <1>4
<1>6. \A i \in I : \E k \in 1..c : Nth(I, k) = i
  <2>1. TAKE i \in I
  <2>2. below(i) + 1 \in 1..c /\ (below(i) + 1) - 1 = below(i)
    BY <1>2, <1>3
  <2>3. QED BY <1>5, <2>2
<1>7. QED BY <1>2, <1>4, <1>5, <1>6 DEF c, below

\* Nothing is at no place.
LEMMA AtNothing ==
  ASSUME NEW s
  PROVE  At(s, {}) = <<>>
<1> DEFINE r == At(s, {})
<1>1. Cardinality({}) = 0
  BY FS_EmptySet
<1>2. r = [k \in 1..0 |-> s[Nth({}, k)]]
  BY <1>1 DEF At
<1>3. \A k \in 1..0 : s[Nth({}, k)] \in Nat
  OBVIOUS
<1> HIDE DEF r
<1>4. r \in [1..0 -> Nat]
  BY <1>2, <1>3
<1>5. r \in Seq(Nat) /\ Len(r) = 0
  BY <1>4
<1>6. QED BY <1>5, EmptySeq DEF r

\* A longer sequence: a new place comes last, and the others stay.
Places(T, s, x, I) == s \in Seq(T) /\ x \in T /\ I \in SUBSET (1..Len(s))

Longer(T, s, x, I) ==
  /\ At(s, I) \in Seq(T)
  /\ At(Append(s, x), I) = At(s, I)
  /\ At(Append(s, x), I \cup {Len(s) + 1}) = Append(At(s, I), x)

LEMMA AtAppend ==
  ASSUME NEW T, NEW s, NEW x, NEW I, Places(T, s, x, I)
  PROVE  Longer(T, s, x, I)
<1> DEFINE n == Len(s)
           c == Cardinality(I)
           J == I \cup {n + 1}
           u == Append(s, x)
<1> s \in Seq(T) /\ x \in T /\ I \in SUBSET (1..Len(s))
  BY DEF Places
<1>1. /\ n \in Nat /\ n + 1 \in Nat
      /\ I \in SUBSET (1..n) /\ I \in SUBSET (1..(n + 1)) /\ J \in SUBSET (1..(n + 1))
      /\ \A i \in I : i \in Nat /\ i < n + 1 /\ i # n + 1
  <2>1. n \in Nat /\ I \in SUBSET (1..n)
    BY LenProperties
  <2> HIDE DEF n
  <2>2. n + 1 \in Nat /\ n + 1 \in 1..(n + 1) /\ 1..n \subseteq 1..(n + 1)
    BY <2>1
  <2>3. \A i \in 1..n : i \in Nat /\ i < n + 1 /\ i # n + 1
    BY <2>1
  <2>4. QED BY <2>1, <2>2, <2>3
<1>2. /\ u \in Seq(T) /\ Len(u) = n + 1 /\ (\A i \in 1..n : u[i] = s[i] /\ s[i] \in T)
      /\ u[n + 1] = x
  BY AppendProperties, ElementOfSeq
<1> HIDE DEF n, u, c
<1>3. /\ c \in 0..n
      /\ \A k \in 1..c :
           Nth(I, k) \in I /\ Cardinality({ j \in I : j < Nth(I, k) }) = k - 1
  BY <1>1, NthIs DEF c
<1>4. Cardinality(J) = c + 1
  <2>1. IsFiniteSet(I)
    <3>1. IsFiniteSet(1..n)
      BY <1>1, FS_Interval
    <3>2. QED BY <1>1, <3>1, FS_Subset
  <2>2. QED BY <1>1, <2>1, FS_AddElement DEF c
<1>5. ASSUME NEW k \in 1..(c + 1)
      PROVE  Nth(J, k) = IF k = c + 1 THEN n + 1 ELSE Nth(I, k)
  <2>1. \A i \in J, h \in 1..(c + 1) : Cardinality({ j \in J : j < i }) = h - 1 => Nth(J, h) = i
    <3> DEFINE N == n + 1
               d == c + 1
    <3>1. N \in Nat /\ J \in SUBSET (1..N) /\ Cardinality(J) = d
      BY <1>1, <1>4
    <3> HIDE DEF J, N, d
    <3>2. \A i \in J, h \in 1..Cardinality(J) :
            Cardinality({ j \in J : j < i }) = h - 1 => Nth(J, h) = i
      BY <3>1, NthIs
    <3>3. QED BY <3>1, <3>2 DEF d
  <2>2. CASE k = c + 1
    <3>1. { j \in J : j < n + 1 } = I
      <4>1. ~(n + 1 < n + 1)
        BY <1>1
      <4> DEFINE q == n + 1
      <4>2. ~(q < q) /\ (\A i \in I : i < q) /\ J = I \cup {q}
        BY <1>1, <4>1
      <4> HIDE DEF q, J
      <4>3. { j \in J : j < q } = I
        BY <4>2
      <4>4. QED BY <4>3 DEF q
    <3>2. Cardinality(I) = k - 1
      <4>1. c = k - 1
        BY <1>3, <2>2
      <4>2. QED BY <4>1 DEF c
    <3>3. n + 1 \in J /\ Cardinality({ j \in J : j < n + 1 }) = k - 1
      BY <3>1, <3>2
    <3>4. Nth(J, k) = n + 1
      <4> HIDE DEF J
      <4>1. QED BY <2>1, <3>3
    <3>5. QED BY <2>2, <3>4
  <2>3. CASE k # c + 1
    <3>1. k \in 1..c
      BY <1>3, <2>3
    <3> DEFINE i == Nth(I, k)
    <3>2. i \in I /\ Cardinality({ j \in I : j < i }) = k - 1
      BY <1>3, <3>1
    <3> HIDE DEF i
    <3>3. { j \in J : j < i } = { j \in I : j < i }
      BY <1>1, <3>2
    <3>4. Nth(J, k) = i
      BY <2>1, <3>2, <3>3
    <3>5. QED BY <2>3, <3>4 DEF i
  <2>4. QED BY <2>2, <2>3
<1>6. At(s, I) \in Seq(T) /\ Len(At(s, I)) = c /\ \A k \in 1..c : At(s, I)[k] = s[Nth(I, k)]
  <2>1. \A k \in 1..c : s[Nth(I, k)] \in T
    BY <1>1, <1>2, <1>3
  <2>2. At(s, I) = [k \in 1..c |-> s[Nth(I, k)]]
    BY DEF At, c
  <2>3. QED BY <1>3, <2>1, <2>2
<1>7. At(u, I) = At(s, I)
  <2>1. \A k \in 1..c : u[Nth(I, k)] = s[Nth(I, k)]
    BY <1>1, <1>2, <1>3
  <2>2. QED BY <2>1 DEF At, c
<1>8. At(u, J) = Append(At(s, I), x)
  <2> DEFINE a == At(s, I)
             v == Append(a, x)
             w == At(u, J)
  <2>1. w = [k \in 1..(c + 1) |-> u[Nth(J, k)]]
    BY <1>4 DEF At
  <2>2. a \in Seq(T) /\ Len(a) = c /\ \A k \in 1..c : a[k] = s[Nth(I, k)]
    BY <1>6
  <2> HIDE DEF a, w
  <2>3. /\ v \in Seq(T) /\ Len(v) = c + 1
        /\ (\A k \in 1..c : v[k] = a[k]) /\ v[c + 1] = x
    BY <2>2, AppendProperties
  <2>4. \A k \in 1..(c + 1) : u[Nth(J, k)] = v[k] /\ v[k] \in T
    <3>1. TAKE k \in 1..(c + 1)
    <3>2. CASE k = c + 1
      BY <1>2, <1>5, <2>3, <3>2
    <3>3. CASE k # c + 1
      <4>1. k \in 1..c
        BY <1>3, <3>3
      <4>2. Nth(J, k) = Nth(I, k) /\ Nth(I, k) \in 1..n
        BY <1>1, <1>3, <1>5, <3>3, <4>1
      <4>3. QED BY <1>2, <2>2, <2>3, <4>1, <4>2
    <3>4. QED BY <3>2, <3>3
  <2> HIDE DEF v
  <2>5. w \in Seq(T) /\ Len(w) = c + 1 /\ \A k \in 1..(c + 1) : w[k] = v[k]
    <3>1. c + 1 \in Nat
      BY <1>3
    <3>2. \A k \in 1..(c + 1) : u[Nth(J, k)] \in T
      BY <2>4
    <3> HIDE DEF J
    <3>3. w \in [1..(c + 1) -> T]
      BY <2>1, <3>2
    <3>4. w \in Seq(T)
      BY <3>1, <3>3
    <3>5. Len(w) = c + 1
      BY <2>1, <3>1, <3>4, LenProperties
    <3>6. \A k \in 1..(c + 1) : w[k] = v[k]
      BY <2>1, <2>4
    <3>7. QED BY <3>4, <3>5, <3>6
  <2>6. w = v
    BY <2>3, <2>5, SeqEqual
  <2>7. QED BY <2>6 DEF v, w, a
<1>9. QED BY <1>6, <1>7, <1>8 DEF n, u, Longer


\* Pieces, each with an end behind it, and where the k-th of them is over.
Ended(ls, x)     == [i \in 1..Len(ls) |-> ls[i] \o <<x>>]
Ending(ls, x, k) == Len(Upto(Ended(ls, x), k))

LEMMA EndedIs ==
  ASSUME NEW ls \in Seq(Seq(Byte)), NEW x \in Byte
  PROVE  /\ Ended(ls, x) \in Seq(Seq(Byte)) /\ Len(Ended(ls, x)) = Len(ls)
         /\ Len(ls) \in Nat /\ FlattenSeq(Ended(ls, x)) \in Seq(Byte)
         /\ Ending(ls, x, 0) = 0
         /\ Ending(ls, x, Len(ls)) = Len(FlattenSeq(Ended(ls, x)))
         /\ \A k \in 0..Len(ls) : Ending(ls, x, k) \in Nat
         /\ \A k \in 1..Len(ls) :
              /\ ls[k] \in Seq(Byte) /\ Len(ls[k]) \in Nat
              /\ Ending(ls, x, k) = Ending(ls, x, k - 1) + Len(ls[k]) + 1
              /\ \A i \in 1..Len(ls[k]) :
                   FlattenSeq(Ended(ls, x))[Ending(ls, x, k - 1) + i] = ls[k][i]
              /\ FlattenSeq(Ended(ls, x))[Ending(ls, x, k)] = x
<1> DEFINE n == Len(ls)
           ss == Ended(ls, x)
           fl == FlattenSeq(ss)
           e(k) == Ending(ls, x, k)
<1>1. n \in Nat /\ (\A k \in 1..n : ls[k] \in Seq(Byte) /\ Len(ls[k]) \in Nat)
      /\ <<x>> \in Seq(Byte)
  BY LenProperties, ElementOfSeq
<1>2. ASSUME NEW k \in 1..n
      PROVE  /\ ss[k] = ls[k] \o <<x>>
             /\ ss[k] \in Seq(Byte) /\ Len(ss[k]) = Len(ls[k]) + 1
             /\ (\A i \in 1..Len(ls[k]) : ss[k][i] = ls[k][i])
             /\ ss[k][Len(ls[k]) + 1] = x
  <2>1. ss[k] = ls[k] \o <<x>>
    BY DEF Ended
  <2> DEFINE s == ls[k]
             d == Len(s)
             b == <<x>>
  <2>2. s \in Seq(Byte) /\ d \in Nat /\ b \in Seq(Byte) /\ Len(b) = 1 /\ b[1] = x
    BY <1>1
  <2> HIDE DEF s, b
  <2>3. /\ s \o b \in Seq(Byte) /\ Len(s \o b) = Len(s) + Len(b)
        /\ \A i \in 1..(Len(s) + Len(b)) :
             (s \o b)[i] = IF i <= Len(s) THEN s[i] ELSE b[i - Len(s)]
    BY <2>2, ConcatProperties
  <2>4. (\A i \in 1..d : (s \o b)[i] = s[i]) /\ (s \o b)[d + 1] = x
    <3>1. \A i \in 1..d : i \in 1..(Len(s) + Len(b)) /\ i <= Len(s)
      BY <2>2
    <3>2. d + 1 \in 1..(Len(s) + Len(b)) /\ ~(d + 1 <= Len(s)) /\ (d + 1) - Len(s) = 1
      BY <2>2
    <3>3. QED BY <2>2, <2>3, <3>1, <3>2
  <2>5. QED BY <2>1, <2>2, <2>3, <2>4 DEF s, b
<1>3. ss \in Seq(Seq(Byte)) /\ Len(ss) = n
  <2>1. ss \in [1..n -> Seq(Byte)]
    BY <1>1, <1>2 DEF Ended
  <2>2. n \in Nat
    BY <1>1
  <2> HIDE DEF ss, n
  <2>3. ss \in Seq(Seq(Byte))
    BY <2>1, <2>2
  <2>4. Len(ss) = n
    BY <2>1, <2>2, <2>3, LenProperties
  <2>5. QED BY <2>3, <2>4
<1> HIDE DEF ss
<1>4. /\ fl \in Seq(Byte) /\ Len(fl) \in Nat
      /\ e(0) = 0 /\ e(Len(ss)) = Len(fl)
      /\ \A k \in 0..Len(ss) : e(k) \in 0..Len(fl)
      /\ \A k \in 1..Len(ss) :
           /\ e(k) = e(k - 1) + Len(ss[k])
           /\ \A i \in 1..Len(ss[k]) : fl[e(k - 1) + i] = ss[k][i]
  BY <1>3, BlockIs DEF Ending, ss
<1> HIDE DEF e, fl, n
<1>5. \A k \in 0..n : e(k) \in Nat
  BY <1>1, <1>3, <1>4
<1>6. ASSUME NEW k \in 1..n
      PROVE  /\ e(k) = e(k - 1) + Len(ls[k]) + 1
             /\ \A i \in 1..Len(ls[k]) : fl[e(k - 1) + i] = ls[k][i]
             /\ fl[e(k)] = x
  <2> DEFINE d == Len(ls[k])
             a == e(k - 1)
  <2>1. k - 1 \in 0..n
    BY <1>1
  <2>2. a \in Nat /\ d \in Nat
    BY <1>1, <1>5, <2>1
  <2>3. /\ e(k) = a + Len(ss[k])
        /\ \A i \in 1..Len(ss[k]) : fl[a + i] = ss[k][i]
    BY <1>3, <1>4
  <2>4. /\ Len(ss[k]) = d + 1
        /\ (\A i \in 1..d : ss[k][i] = ls[k][i]) /\ ss[k][d + 1] = x
    BY <1>2
  <2> HIDE DEF a, d
  <2>5. (\A i \in 1..d : i \in 1..(d + 1)) /\ d + 1 \in 1..(d + 1)
    BY <2>2
  <2>6. \A i \in 1..d : fl[a + i] = ls[k][i]
    BY <2>3, <2>4, <2>5
  <2>7. e(k) = a + (d + 1) /\ fl[a + (d + 1)] = x
    BY <2>3, <2>4, <2>5
  <2>8. e(k) = a + d + 1
    BY <2>2, <2>7
  <2>9. QED BY <2>6, <2>7, <2>8 DEF a, d
<1>7. QED BY <1>1, <1>3, <1>4, <1>5, <1>6 DEF e, fl, n, ss

\* Pieces end one after the other, and every place is in one of them.
LEMMA EndingGrows ==
  ASSUME NEW ls \in Seq(Seq(Byte)), NEW x \in Byte
  PROVE  /\ \A j, k \in 0..Len(ls) : j < k => Ending(ls, x, j) < Ending(ls, x, k)
         /\ \A p \in 1..Ending(ls, x, Len(ls)) : \E k \in 1..Len(ls) :
              Ending(ls, x, k - 1) < p /\ p <= Ending(ls, x, k)
<1> DEFINE n == Len(ls)
           e(k) == Ending(ls, x, k)
           Later(k) == \A j \in 0..(k - 1) : e(j) < e(k)
           In(p, k) == \E h \in 1..k : e(h - 1) < p /\ p <= e(h)
           P == { k \in 0..n : Later(k) /\ \A p \in 1..e(k) : In(p, k) }
<1>1. /\ n \in Nat /\ e(0) = 0 /\ \A k \in 0..n : e(k) \in Nat
      /\ \A k \in 1..n : Len(ls[k]) \in Nat /\ e(k) = e(k - 1) + Len(ls[k]) + 1
  BY EndedIs
<1> HIDE DEF n, e
<1>2. 0 \in P
  BY <1>1
<1>3. ASSUME NEW k \in 1..n, k - 1 \in P PROVE k \in P
  <2>1. k - 1 \in 0..n /\ k \in 0..n /\ k \in 1..k
    BY <1>1
  <2>2. e(k - 1) \in Nat /\ e(k) \in Nat /\ e(k - 1) < e(k)
    <3> DEFINE a == e(k - 1)
               d == Len(ls[k])
    <3>1. a \in Nat /\ d \in Nat /\ e(k) = a + d + 1
      BY <1>1, <2>1
    <3> HIDE DEF a, d
    <3>2. QED BY <3>1 DEF a
  <2>3. Later(k - 1) /\ \A p \in 1..e(k - 1) : In(p, k - 1)
    BY <1>3
  <2>4. ASSUME NEW j \in 0..(k - 1) PROVE e(j) < e(k)
    <3>1. CASE j = k - 1
      BY <2>2, <3>1
    <3>2. CASE j # k - 1
      <4>1. j \in 0..((k - 1) - 1) /\ j \in 0..n
        BY <1>1, <3>2
      <4>2. e(j) < e(k - 1) /\ e(j) \in Nat
        BY <1>1, <2>3, <4>1
      <4>3. QED BY <2>2, <4>2
    <3>3. QED BY <3>1, <3>2
  <2>5. ASSUME NEW p \in 1..e(k) PROVE In(p, k)
    <3>1. CASE p <= e(k - 1)
      <4>1. p \in 1..e(k - 1)
        BY <2>2, <3>1
      <4>2. \A h \in 1..(k - 1) : h \in 1..k
        OBVIOUS
      <4>3. QED BY <2>3, <4>1, <4>2
    <3>2. CASE ~(p <= e(k - 1))
      <4>1. e(k - 1) < p /\ p <= e(k)
        BY <2>2, <3>2
      <4>2. QED BY <2>1, <4>1
    <3>3. QED BY <3>1, <3>2
  <2>6. QED BY <2>1, <2>4, <2>5
<1> HIDE DEF P
<1>4. \A k \in 0..n : k \in P
  BY <1>1, <1>2, <1>3, Induction
<1>5. ASSUME NEW j \in 0..n, NEW k \in 0..n, j < k PROVE e(j) < e(k)
  <2>1. j \in 0..(k - 1)
    BY <1>5
  <2>2. QED BY <1>4, <2>1 DEF P
<1>6. \A p \in 1..e(n) : In(p, n)
  <2>1. n \in P
    BY <1>1, <1>4
  <2>2. QED BY <2>1 DEF P
<1>7. QED BY <1>5, <1>6 DEF n, e

\* What was put together with an x between its pieces comes apart at the x again.
LEMMA Splits ==
  ASSUME NEW ls \in Seq(Seq(Byte)), Len(ls) # 0, NEW x \in Byte, NEW t \in Seq(Byte),
         t \o <<x>> = FlattenSeq(Ended(ls, x)),
         \A k \in 1..Len(ls) : \A i \in 1..Len(ls[k]) : ls[k][i] # x
  PROVE  /\ Parts(t, { p \in 1..Len(t) : t[p] = x }) = ls
         /\ \A p \in 1..Len(t) : t[p] # x =>
              \E k \in 1..Len(ls) : \E i \in 1..Len(ls[k]) : t[p] = ls[k][i]
<1> DEFINE n == Len(ls)
           l == Len(t)
           fl == FlattenSeq(Ended(ls, x))
           e(k) == Ending(ls, x, k)
           cuts == { e(k) : k \in 1..(n - 1) }
           at == cuts \cup {0, l + 1}
           f == [i \in 1..(n + 1) |-> e(i - 1)]
           g == [i \in 1..(n - 1) |-> e(i)]
<1>1. /\ n \in Nat /\ n # 0 /\ n - 1 \in Nat /\ n + 1 \in Nat /\ l \in Nat
      /\ e(0) = 0 /\ e(n) = Len(fl) /\ \A k \in 0..n : e(k) \in Nat
      /\ \A k \in 1..n :
           /\ ls[k] \in Seq(Byte) /\ Len(ls[k]) \in Nat
           /\ e(k) = e(k - 1) + Len(ls[k]) + 1
           /\ \A i \in 1..Len(ls[k]) : fl[e(k - 1) + i] = ls[k][i]
           /\ fl[e(k)] = x
  <2>1. n \in Nat /\ l \in Nat
    BY LenProperties
  <2>2. n # 0 /\ n - 1 \in Nat /\ n + 1 \in Nat
    BY <2>1
  <2>3. QED BY <2>1, <2>2, EndedIs
<1>2. /\ \A j, k \in 0..n : j < k => e(j) < e(k)
      /\ \A p \in 1..e(n) : \E k \in 1..n : e(k - 1) < p /\ p <= e(k)
  BY EndingGrows
<1>3. Len(fl) = l + 1 /\ \A p \in 1..l : fl[p] = t[p]
  <2> DEFINE b == <<x>>
  <2>1. b \in Seq(Byte) /\ Len(b) = 1 /\ fl = t \o b
    OBVIOUS
  <2> HIDE DEF b, fl
  <2>2. /\ Len(t \o b) = Len(t) + Len(b)
        /\ \A i \in 1..(Len(t) + Len(b)) :
             (t \o b)[i] = IF i <= Len(t) THEN t[i] ELSE b[i - Len(t)]
    BY <2>1, ConcatProperties
  <2>3. \A i \in 1..l : i \in 1..(Len(t) + Len(b)) /\ i <= Len(t)
    BY <1>1, <2>1
  <2>4. QED BY <2>1, <2>2, <2>3
<1> HIDE DEF fl, e, l, n
<1>4. e(n) = l + 1 /\ 0 \in 0..n /\ n \in 0..n
  BY <1>1, <1>3
<1>5. \A k \in 1..(n - 1) : k \in 1..n /\ k \in 0..n /\ e(k) \in 1..l
  <2>1. TAKE k \in 1..(n - 1)
  <2>2. k \in 1..n /\ k \in 0..n /\ 0 < k /\ k < n
    BY <1>1
  <2>3. e(k) \in Nat /\ e(0) < e(k) /\ e(k) < e(n)
    BY <1>1, <1>2, <1>4, <2>2
  <2>4. e(k) \in 1..l
    BY <1>1, <1>4, <2>3, SMTT(60)
  <2>5. QED BY <2>2, <2>4
<1>6. ASSUME NEW p \in 1..l
      PROVE  \/ p \in cuts /\ t[p] = x
             \/ /\ p \notin cuts /\ t[p] # x
                /\ \E k \in 1..n : \E i \in 1..Len(ls[k]) : t[p] = ls[k][i]
  <2>1. p \in 1..e(n)
    BY <1>1, <1>4
  <2>2. PICK k \in 1..n : e(k - 1) < p /\ p <= e(k)
    BY <1>2, <2>1
  <2>3. k - 1 \in 0..n /\ k \in 0..n /\ e(k - 1) \in Nat /\ e(k) \in Nat /\ p \in Nat
    BY <1>1
  <2>4. CASE p = e(k)
    <3>1. k # n
      BY <1>1, <1>4, <2>4
    <3>2. k \in 1..(n - 1)
      BY <1>1, <3>1
    <3>3. t[p] = x
      BY <1>1, <1>3, <2>4
    <3>4. QED BY <2>4, <3>2, <3>3
  <2>5. CASE p # e(k)
    <3> DEFINE i == p - e(k - 1)
    <3>1. i \in 1..Len(ls[k]) /\ p = e(k - 1) + i
      <4> DEFINE a == e(k - 1)
                 d == Len(ls[k])
      <4>1. a \in Nat /\ d \in Nat /\ e(k) = a + d + 1 /\ a < p /\ p <= e(k)
            /\ p # e(k) /\ p \in Nat
        BY <1>1, <2>2, <2>3, <2>5
      <4> HIDE DEF a, d
      <4>2. p - a \in 1..d /\ p = a + (p - a)
        BY <4>1
      <4>3. QED BY <4>2 DEF a, d
    <3> HIDE DEF i
    <3>2. t[p] = ls[k][i] /\ t[p] # x
      BY <1>1, <1>3, <3>1, ZenonT(60) DEF n
    <3>3. p \notin cuts
      <4>1. SUFFICES ASSUME NEW j \in 1..(n - 1), p = e(j) PROVE FALSE
        OBVIOUS
      <4>2. j \in 0..n /\ j \in Nat /\ k \in Nat /\ e(j) \in Nat
        BY <1>1, <1>5
      <4>3. CASE j < k
        <5>1. j = k - 1 \/ j < k - 1
          BY <4>2, <4>3
        <5>2. e(j) <= e(k - 1)
          BY <1>2, <2>3, <4>2, <5>1
        <5>3. QED BY <2>2, <2>3, <4>1, <4>2, <5>2
      <4>4. CASE k < j
        <5>1. e(k) < e(j)
          BY <1>2, <2>3, <4>2, <4>4
        <5>2. QED BY <2>2, <2>3, <4>1, <4>2, <5>1
      <4>5. CASE j = k
        BY <2>5, <4>1, <4>5
      <4>6. QED BY <4>2, <4>3, <4>4, <4>5
    <3>4. QED BY <3>1, <3>2, <3>3
  <2>6. QED BY <2>4, <2>5
<1>7. { p \in 1..l : t[p] = x } = cuts
  <2>1. cuts \subseteq 1..l
    BY <1>5
  <2> HIDE DEF cuts
  <2>2. QED BY <1>6, <2>1
<1>8. Cardinality(cuts) = n - 1
  <2>1. g \in [1..(n - 1) -> Int] /\ \A k \in 1..(n - 1) : g[k] = e(k)
    BY <1>1, <1>5
  <2>2. \A i, j \in 1..(n - 1) : i < j => g[i] < g[j]
    BY <1>2, <1>5, <2>1
  <2>3. cuts = { g[k] : k \in 1..(n - 1) }
    BY <2>1
  <2> DEFINE m == n - 1
  <2>4. /\ m \in Nat /\ g \in [1..m -> Int] /\ (\A i, j \in 1..m : i < j => g[i] < g[j])
        /\ cuts = { g[k] : k \in 1..m }
    BY <1>1, <2>1, <2>2, <2>3
  <2> HIDE DEF g, cuts, m
  <2>5. Lists(g, m, cuts)
    BY <2>4 DEF Lists
  <2>6. Cardinality(cuts) = m
    BY <2>5, Increasing
  <2>7. QED BY <2>6 DEF m
<1>9. \A k \in 1..(n + 1) : Nth(at, k) = e(k - 1)
  <2>1. \A k \in 1..(n + 1) : k - 1 \in 0..n /\ e(k - 1) \in Int
    BY <1>1
  <2>2. f \in [1..(n + 1) -> Int] /\ \A k \in 1..(n + 1) : f[k] = e(k - 1)
    BY <2>1
  <2>3. ASSUME NEW i \in 1..(n + 1), NEW j \in 1..(n + 1), i < j PROVE f[i] < f[j]
    <3>1. i - 1 < j - 1
      BY <2>3
    <3>2. e(i - 1) < e(j - 1)
      BY <1>2, <2>1, <3>1
    <3>3. QED BY <2>2, <3>2
  <2>4. at = { f[k] : k \in 1..(n + 1) }
    <3>1. ASSUME NEW y \in at PROVE \E k \in 1..(n + 1) : y = f[k]
      <4>1. \E k \in 0..n : y = e(k)
        BY <1>1, <1>4, <1>5
      <4>2. PICK k \in 0..n : y = e(k)
        BY <4>1
      <4>3. k + 1 \in 1..(n + 1) /\ (k + 1) - 1 = k
        BY <1>1
      <4>4. QED BY <2>2, <4>2, <4>3
    <3>2. ASSUME NEW k \in 1..(n + 1) PROVE f[k] \in at
      <4>1. k = 1 \/ k = n + 1 \/ k - 1 \in 1..(n - 1)
        BY <1>1
      <4>2. CASE k = 1
        <5>1. k - 1 = 0
          BY <4>2
        <5>2. QED BY <1>1, <2>2, <5>1
      <4>3. CASE k = n + 1
        <5>1. k - 1 = n
          BY <1>1, <4>3
        <5>2. QED BY <1>4, <2>2, <5>1
      <4>4. CASE k - 1 \in 1..(n - 1)
        BY <2>2, <4>4
      <4>5. QED BY <4>1, <4>2, <4>3, <4>4
    <3> HIDE DEF at, f
    <3>3. QED BY <3>1, <3>2
  <2> DEFINE m == n + 1
  <2>5. /\ m \in Nat /\ f \in [1..m -> Int] /\ (\A i, j \in 1..m : i < j => f[i] < f[j])
        /\ at = { f[k] : k \in 1..m }
    BY <1>1, <2>2, <2>3, <2>4
  <2> HIDE DEF f, at, m, e
  <2>6. Lists(f, m, at)
    BY <2>5 DEF Lists
  <2>7. \A k \in 1..m : Nth(at, k) = f[k]
    BY <2>6, Increasing
  <2>8. QED BY <2>2, <2>7 DEF m
<1>10. ASSUME NEW k \in 1..n
       PROVE  SubSeq(t, Nth(at, k) + 1, Nth(at, k + 1) - 1) = ls[k]
  <2> DEFINE a == e(k - 1)
             v == ls[k]
             d == Len(v)
  <2>1. k \in 1..(n + 1) /\ k + 1 \in 1..(n + 1) /\ (k + 1) - 1 = k
        /\ k - 1 \in 0..n /\ k \in 0..n
    BY <1>1
  <2>2. Nth(at, k) = a /\ Nth(at, k + 1) = e(k)
    BY <1>9, <2>1
  <2>3. v \in Seq(Byte) /\ d \in Nat /\ a \in Nat /\ e(k) = a + d + 1 /\ e(k) <= l + 1
    <3>1. e(k) <= e(n)
      <4>1. k = n \/ k < n
        BY <1>1
      <4>2. e(k) \in Nat /\ e(n) \in Nat /\ (k < n => e(k) < e(n))
        BY <1>1, <1>2, <1>4, <2>1
      <4> HIDE DEF a, d, v
      <4>3. QED BY <4>1, <4>2
    <3>2. QED BY <1>1, <1>4, <2>1, <3>1
  <2>4. \A i \in 1..d : fl[a + i] = v[i]
    BY <1>1
  <2> HIDE DEF a, v
  <2>5. e(k) - 1 = a + Len(v) /\ a + Len(v) <= l
    BY <1>1, <2>3
  <2>6. \A i \in 1..d : a + i \in 1..l
    BY <1>1, <2>3, <2>5
  <2>7. \A i \in 1..Len(v) : t[a + i] = v[i]
    BY <1>3, <2>4, <2>6
  <2>8. a + Len(v) <= Len(t)
    BY <2>5 DEF l
  <2>9. SubSeq(t, a + 1, a + Len(v)) = v
    BY <2>3, <2>7, <2>8, Slice
  <2>10. QED BY <2>2, <2>5, <2>9 DEF v
<1>11. Parts(t, cuts) = ls
  <2>1. Cardinality(cuts) + 1 = n
    BY <1>1, <1>8
  <2>2. Parts(t, cuts) = [k \in 1..n |-> SubSeq(t, Nth(at, k) + 1, Nth(at, k + 1) - 1)]
    BY <2>1 DEF Parts, l
  <2> HIDE DEF cuts, at
  <2>3. Parts(t, cuts) = [k \in 1..n |-> ls[k]]
    BY <1>10, <2>2
  <2>4. QED BY <2>3 DEF n
<1>12. QED BY <1>6, <1>7, <1>11 DEF l, n

\* One piece more.
LEMMA OneMore ==
  ASSUME NEW ls \in Seq(Seq(Byte)), NEW x \in Byte, NEW l \in Seq(Byte)
  PROVE  /\ Append(ls, l) \in Seq(Seq(Byte)) /\ Len(Append(ls, l)) = Len(ls) + 1
         /\ (\A i \in 1..Len(ls) : Append(ls, l)[i] = ls[i])
         /\ Append(ls, l)[Len(ls) + 1] = l
         /\ FlattenSeq(Ended(Append(ls, l), x)) = FlattenSeq(Ended(ls, x)) \o (l \o <<x>>)
<1> DEFINE n == Len(ls)
           us == Append(ls, l)
           y == l \o <<x>>
           ss == Ended(ls, x)
           ts == Ended(us, x)
<1>1. /\ n \in Nat /\ us \in Seq(Seq(Byte)) /\ Len(us) = n + 1
      /\ (\A i \in 1..n : us[i] = ls[i]) /\ us[n + 1] = l
  BY LenProperties, AppendProperties
<1>2. y \in Seq(Byte)
  <2>1. <<x>> \in Seq(Byte)
    OBVIOUS
  <2>2. QED BY <2>1, ConcatProperties
<1>3. ss \in Seq(Seq(Byte)) /\ Len(ss) = n /\ \A i \in 1..n : ss[i] = ls[i] \o <<x>>
  <2>1. ss \in Seq(Seq(Byte)) /\ Len(ss) = n
    BY EndedIs
  <2>2. QED BY <2>1 DEF Ended
<1>4. ts \in Seq(Seq(Byte)) /\ Len(ts) = n + 1 /\ \A i \in 1..(n + 1) : ts[i] = us[i] \o <<x>>
  <2> HIDE DEF us
  <2>1. ts \in Seq(Seq(Byte)) /\ Len(ts) = n + 1
    BY <1>1, EndedIs
  <2>2. QED BY <1>1, <2>1 DEF Ended
<1> DEFINE vs == Append(ss, y)
<1> HIDE DEF ss, ts, us, y, n
<1>5. /\ vs \in Seq(Seq(Byte)) /\ Len(vs) = n + 1
      /\ (\A i \in 1..n : vs[i] = ss[i]) /\ vs[n + 1] = y
  BY <1>2, <1>3, AppendProperties
<1> HIDE DEF vs
<1>6. \A i \in 1..(n + 1) : ts[i] = vs[i]
  <2>1. TAKE i \in 1..(n + 1)
  <2>2. CASE i = n + 1
    <3>1. us[n + 1] \o <<x>> = y
      BY <1>1 DEF y
    <3>2. QED BY <1>4, <1>5, <2>2, <3>1
  <2>3. CASE i # n + 1
    <3>1. i \in 1..n
      BY <1>1, <2>3
    <3>2. QED BY <1>1, <1>3, <1>4, <1>5, <3>1
  <2>4. QED BY <2>2, <2>3
<1>7. ts = vs
  BY <1>4, <1>5, <1>6, SeqEqual
<1>8. FlattenSeq(vs) = FlattenSeq(ss) \o y
  BY <1>2, <1>3, FlattenAppend DEF vs
<1>9. QED BY <1>1, <1>7, <1>8 DEF ss, ts, us, y, n

\* What a row's line looks like: tabs behind the columns, but for the last.
LEMMA JoinedEnds ==
  ASSUME NEW row, Row(row), Len(row) # 0, NEW ls, ls = [j \in 1..Len(row) |-> Shown(row[j])]
  PROVE  /\ ls \in Seq(Seq(Byte)) /\ Len(ls) = Len(row) /\ Joined(row) \in Seq(Byte)
         /\ Joined(row) \o <<Tab>> = FlattenSeq(Ended(ls, Tab))
<1> DEFINE n == Len(row)
           tb == <<Tab>>
           ss == Shows(row)
           es == Ended(ls, Tab)
<1>1. n \in Nat /\ n # 0 /\ tb \in Seq(Byte) /\ Tab \in Byte
  BY LenProperties, Sizes DEF Row, Tab
<1>2. \A j \in 1..n : Shown(row[j]) \in Seq(Byte)
  BY ShownIs DEF Row
<1>3. ls \in [1..n -> Seq(Byte)]
  BY <1>2
<1>4. ls \in Seq(Seq(Byte)) /\ Len(ls) = n
  <2>1. ls \in Seq(Seq(Byte))
    BY <1>1, <1>3
  <2>2. QED BY <1>1, <1>3, <2>1, LenProperties
<1>5. ss \in Seq(Seq(Byte)) /\ Len(ss) = n /\ Joined(row) = FlattenSeq(ss)
  BY ShowsIs
<1>6. es \in Seq(Seq(Byte)) /\ Len(es) = n
  BY <1>1, <1>4, EndedIs
<1>7. \A k \in 1..n : /\ ss[k] = IF k = 1 THEN ls[k] ELSE tb \o ls[k]
                      /\ es[k] = ls[k] \o tb /\ ls[k] \in Seq(Byte)
  <2>1. \A k \in 1..n : ss[k] = IF k = 1 THEN ls[k] ELSE tb \o ls[k]
    BY DEF Shows
  <2>2. \A k \in 1..n : es[k] = ls[k] \o tb
    BY <1>4 DEF Ended
  <2>3. QED BY <1>3, <2>1, <2>2
<1> HIDE DEF n, ss, es, tb
<1> DEFINE u(k) == Upto(ss, k)
           v(k) == Upto(es, k)
           P == { k \in 0..n : k = 0 \/ u(k) \o tb = v(k) }
<1>8. /\ u(0) = <<>> /\ u(n) = FlattenSeq(ss)
      /\ (\A k \in 0..n : u(k) \in Seq(Byte)) /\ \A k \in 1..n : u(k) = u(k - 1) \o ss[k]
  BY <1>5, UptoIs
<1>9. /\ v(0) = <<>> /\ v(n) = FlattenSeq(es)
      /\ (\A k \in 0..n : v(k) \in Seq(Byte)) /\ \A k \in 1..n : v(k) = v(k - 1) \o es[k]
  BY <1>6, UptoIs
<1> HIDE DEF u, v
<1>10. 0 \in P
  BY <1>1
<1>11. ASSUME NEW k \in 1..n, k - 1 \in P PROVE k \in P
  <2>1. k - 1 \in 0..n /\ k \in 0..n
    BY <1>1
  <2> DEFINE l == ls[k]
             U == u(k - 1)
             V == v(k - 1)
  <2>2. l \in Seq(Byte) /\ U \in Seq(Byte) /\ V \in Seq(Byte)
    BY <1>7, <1>8, <1>9, <2>1
  <2>3. u(k) = U \o ss[k] /\ v(k) = V \o es[k] /\ es[k] = l \o tb
    BY <1>7, <1>8, <1>9
  <2>4. CASE k = 1
    <3>1. ss[k] = l /\ U = <<>> /\ V = <<>>
      BY <1>7, <1>8, <1>9, <2>4
    <3> HIDE DEF l, U, V
    <3>2. l \o tb \in Seq(Byte)
      BY <1>1, <2>2, ConcatProperties
    <3>3. u(k) = l /\ v(k) = l \o tb
      BY <2>2, <2>3, <3>1, <3>2, ConcatEmptySeq
    <3>4. QED BY <2>1, <3>3
  <2>5. CASE k # 1
    <3>1. ss[k] = tb \o l
      BY <1>7, <2>5
    <3>2. U \o tb = V
      <4>1. k - 1 # 0
        BY <1>1, <2>5
      <4>2. QED BY <1>11, <4>1
    <3> HIDE DEF l, U, V
    <3>3. U \o (tb \o l) = V \o l
      BY <1>1, <2>2, <3>2, Assoc, ZenonT(60)
    <3>4. V \o (l \o tb) = (V \o l) \o tb
      BY <1>1, <2>2, Assoc, SMTT(60)
    <3>5. u(k) \o tb = v(k)
      BY <2>3, <3>1, <3>3, <3>4
    <3>6. QED BY <2>1, <3>5
  <2>6. QED BY <2>4, <2>5
<1> HIDE DEF P
<1>12. \A k \in 0..n : k \in P
  BY <1>1, <1>10, <1>11, Induction
<1>13. u(n) \o tb = v(n)
  <2>1. n \in P
    BY <1>1, <1>12
  <2>2. QED BY <1>1, <2>1 DEF P
<1>14. u(n) \in Seq(Byte)
  BY <1>1, <1>8
<1>15. QED BY <1>4, <1>5, <1>8, <1>9, <1>13, <1>14 DEF n, es, tb

\* No line end in it.
Plain(l) == l \in Seq(Byte) /\ \A i \in 1..Len(l) : l[i] # Newline /\ l[i] # Return

\* A tame row's columns come out of its line, which looks like a row's and is one
\* line.
LEMMA RowSplits ==
  ASSUME NEW row, Row(row), Tame(row)
  PROVE  /\ Parts(Joined(row), TabsOf(Joined(row))) = [j \in 1..Len(row) |-> Shown(row[j])]
         /\ Plain(Joined(row)) /\ IsRow(Joined(row))
<1> DEFINE n == Len(row)
           ls == [j \in 1..n |-> Shown(row[j])]
           t == Joined(row)
           l == Len(t)
           fl == FlattenSeq(Ended(ls, Tab))
           e(k) == Ending(ls, Tab, k)
<1>1. n \in Nat /\ n # 0 /\ Tab \in Byte
  BY LenProperties, Sizes, EmptySeq DEF Row, Tame, Tab
<1>2. ls \in Seq(Seq(Byte)) /\ Len(ls) = n /\ t \in Seq(Byte) /\ t \o <<Tab>> = fl
  BY <1>1, JoinedEnds
<1>3. /\ \A k \in 1..n : \A i \in 1..Len(ls[k]) :
           ls[k][i] # Tab /\ ls[k][i] # Newline /\ ls[k][i] # Return
      /\ n = 1 => ls[1] # <<>>
      /\ ls[1] # <<>> => ls[1][1] # Hash
  <2>1. \A k \in 1..n : ls[k] = Shown(row[k])
    OBVIOUS
  <2>2. ls[1] = Shown(row[1])
    BY <1>1, <2>1
  <2> HIDE DEF ls
  <2>3. ASSUME NEW k \in 1..n, NEW i \in 1..Len(ls[k])
        PROVE  ls[k][i] # Tab /\ ls[k][i] # Newline /\ ls[k][i] # Return
    <3> DEFINE v == Shown(row[k])
    <3>1. { v[j] : j \in 1..Len(v) } \cap {Tab, Newline, Return} = {}
      BY DEF Tame
    <3>2. v = ls[k]
      BY <2>1
    <3> HIDE DEF v
    <3>3. v[i] \in { v[j] : j \in 1..Len(v) }
      BY <3>2
    <3>4. v[i] \notin {Tab, Newline, Return}
      BY <3>1, <3>3
    <3>5. QED BY <3>2, <3>4
  <2>4. (n = 1 => ls[1] # <<>>) /\ (ls[1] # <<>> => ls[1][1] # Hash)
    BY <2>2 DEF Tame
  <2>5. QED BY <2>3, <2>4
<1>4. [j \in 1..n |-> Shown(row[j])] = ls
  OBVIOUS
<1> HIDE DEF ls, t, n
<1>5. /\ Parts(t, { p \in 1..Len(t) : t[p] = Tab }) = ls
      /\ \A p \in 1..Len(t) : t[p] # Tab =>
           \E k \in 1..n : \E i \in 1..Len(ls[k]) : t[p] = ls[k][i]
  BY <1>1, <1>2, <1>3, Splits, ZenonT(60)
<1>6. Plain(t)
  <2>1. Tab # Newline /\ Tab # Return
    BY DEF Tab, Newline, Return
  <2>2. ASSUME NEW p \in 1..Len(t) PROVE t[p] # Newline /\ t[p] # Return
    <3>1. CASE t[p] = Tab
      BY <2>1, <3>1
    <3>2. CASE t[p] # Tab
      <4>1. PICK k \in 1..n : \E i \in 1..Len(ls[k]) : t[p] = ls[k][i]
        BY <1>5, <3>2
      <4>2. QED BY <1>3, <4>1
    <3>3. QED BY <3>1, <3>2
  <2>3. t \in Seq(Byte)
    BY <1>2
  <2>4. QED BY <2>2, <2>3 DEF Plain
<1>7. IsRow(t)
  <2> DEFINE b == <<Tab>>
  <2>1. b \in Seq(Byte) /\ Len(b) = 1 /\ t \o b = fl
    BY <1>1, <1>2
  <2>2. /\ e(0) = 0 /\ e(n) = Len(fl) /\ (\A k \in 0..n : e(k) \in Nat)
        /\ \A k \in 1..n :
             /\ Len(ls[k]) \in Nat /\ ls[k] \in Seq(Byte)
             /\ e(k) = e(k - 1) + Len(ls[k]) + 1
             /\ \A i \in 1..Len(ls[k]) : fl[e(k - 1) + i] = ls[k][i]
             /\ fl[e(k)] = Tab
    BY <1>1, <1>2, EndedIs, ZenonT(60)
  <2>3. \A j, k \in 0..n : j < k => e(j) < e(k)
    BY <1>1, <1>2, EndingGrows
  <2> HIDE DEF b, fl, e
  <2>4. l \in Nat /\ Len(fl) = l + 1 /\ \A i \in 1..l : fl[i] = t[i]
    <3>1. /\ Len(t \o b) = Len(t) + Len(b)
          /\ \A i \in 1..(Len(t) + Len(b)) :
               (t \o b)[i] = IF i <= Len(t) THEN t[i] ELSE b[i - Len(t)]
      BY <1>2, <2>1, ConcatProperties
    <3>2. l \in Nat
      BY <1>2, LenProperties
    <3>3. \A i \in 1..l : i \in 1..(Len(t) + Len(b)) /\ i <= Len(t)
      BY <2>1, <3>2
    <3>4. QED BY <2>1, <3>1, <3>2, <3>3
  <2> DEFINE d == Len(ls[1])
  <2>5. 1 \in 1..n /\ 1 - 1 = 0 /\ 0 \in 0..n /\ 1 \in 0..n /\ n \in 0..n /\ e(1) = d + 1
        /\ d \in Nat /\ ls[1] \in Seq(Byte)
    <3>1. 1 \in 1..n /\ 1 - 1 = 0 /\ 0 \in 0..n /\ 1 \in 0..n /\ n \in 0..n
      BY <1>1
    <3>2. d \in Nat /\ ls[1] \in Seq(Byte) /\ e(1) = e(0) + d + 1
      BY <2>2, <3>1
    <3> HIDE DEF d
    <3>3. e(1) = d + 1
      BY <2>2, <3>2
    <3>4. QED BY <3>1, <3>2, <3>3
  <2> HIDE DEF d
  <2>6. CASE ls[1] = <<>>
    <3>1. d = 0 /\ e(1) = 1
      BY <2>5, <2>6, EmptySeq DEF d
    <3>2. 1 < n
      BY <1>1, <1>3, <2>6
    <3>3. e(1) < e(n)
      BY <2>3, <2>5, <3>2
    <3>4. 1 \in 1..l
      BY <2>2, <2>4, <3>1, <3>3
    <3>5. t[1] = Tab
      <4>1. fl[e(1)] = Tab
        BY <2>2, <2>5
      <4>2. QED BY <2>4, <3>1, <3>4, <4>1
    <3>6. QED BY <3>4, <3>5, EmptySeq DEF IsRow, Tab, Hash
  <2>7. CASE ls[1] # <<>>
    <3>1. d # 0
      BY <2>5, <2>7, EmptySeq DEF d
    <3>2. e(1) <= e(n)
      BY <1>1, <2>2, <2>3, <2>5
    <3>3. 1 \in 1..l /\ 1 \in 1..d
      BY <2>2, <2>4, <2>5, <3>1, <3>2
    <3>4. fl[1] = ls[1][1]
      <4>1. \A i \in 1..d : fl[e(0) + i] = ls[1][i]
        BY <2>2, <2>5 DEF d
      <4>2. e(0) + 1 = 1
        BY <2>2
      <4>3. QED BY <3>3, <4>1, <4>2
    <3>5. t[1] # Hash
      BY <1>3, <2>4, <2>7, <3>3, <3>4
    <3>6. QED BY <3>3, <3>5, EmptySeq DEF IsRow
  <2>8. QED BY <2>6, <2>7
<1>8. QED BY <1>4, <1>5, <1>6, <1>7 DEF TabsOf, t, n

\* The lines of rows.
RowLines(ls) == { i \in 1..Len(ls) : IsRow(ls[i]) }

LEMMA OneLineMore ==
  ASSUME NEW ls \in Seq(Seq(Byte)), NEW l \in Seq(Byte)
  PROVE  /\ At(ls, RowLines(ls)) \in Seq(Seq(Byte))
         /\ At(Append(ls, l), RowLines(Append(ls, l))) =
              IF IsRow(l) THEN Append(At(ls, RowLines(ls)), l) ELSE At(ls, RowLines(ls))
<1> DEFINE n == Len(ls)
           us == Append(ls, l)
           I == RowLines(ls)
<1>1. /\ n \in Nat /\ Len(us) = n + 1 /\ (\A i \in 1..n : us[i] = ls[i]) /\ us[n + 1] = l
      /\ I \in SUBSET (1..n)
  BY LenProperties, AppendProperties DEF RowLines
<1>2. /\ At(ls, I) \in Seq(Seq(Byte))
      /\ At(us, I) = At(ls, I)
      /\ At(us, I \cup {n + 1}) = Append(At(ls, I), l)
  <2>1. I \in SUBSET (1..Len(ls))
    BY <1>1
  <2> HIDE DEF I, n, us
  <2>2. /\ At(ls, I) \in Seq(Seq(Byte))
        /\ At(Append(ls, l), I) = At(ls, I)
        /\ At(Append(ls, l), I \cup {Len(ls) + 1}) = Append(At(ls, I), l)
    <3> DEFINE B == Seq(Byte)
    <3>1. Places(B, ls, l, I)
      BY <2>1 DEF Places
    <3> HIDE DEF B
    <3>2. /\ At(ls, I) \in Seq(B)
          /\ At(Append(ls, l), I) = At(ls, I)
          /\ At(Append(ls, l), I \cup {Len(ls) + 1}) = Append(At(ls, I), l)
      <4>1. Longer(B, ls, l, I)
        BY <3>1, AtAppend
      <4>2. QED BY <4>1 DEF Longer
    <3>3. QED BY <3>2 DEF B
  <2>3. QED BY <2>2 DEF n, us
<1> HIDE DEF n, us
<1>3. \A i : i \in 1..(n + 1) <=> i \in 1..n \/ i = n + 1
  BY <1>1
<1>4. RowLines(us) = IF IsRow(l) THEN I \cup {n + 1} ELSE I
  <2>1. RowLines(us) = { i \in 1..(n + 1) : IsRow(us[i]) }
    BY <1>1 DEF RowLines
  <2>2. I = { i \in 1..n : IsRow(ls[i]) }
    BY DEF RowLines, n
  <2> HIDE DEF I
  <2>3. QED BY <1>1, <1>3, <2>1, <2>2
<1> HIDE DEF I
<1>5. QED BY <1>2, <1>4 DEF I, us

\* Lines, none with a line end in it, that make a text, and those of rows.
Lines(ls, text, rows) ==
  /\ ls \in Seq(Seq(Byte)) /\ \A k \in 1..Len(ls) : Plain(ls[k])
  /\ text = FlattenSeq(Ended(ls, Newline))
  /\ Len(At(ls, RowLines(ls))) = Len(rows)
  /\ \A i \in 1..Len(rows) : At(ls, RowLines(ls))[i] = Joined(rows[i].row)

\* One line more, and one row more if it is a row's.
LEMMA LineMore ==
  ASSUME NEW ls, NEW text \in Seq(Byte), NEW rows \in Seq(Message), Lines(ls, text, rows),
         NEW l, Plain(l), NEW rs \in Seq(Message),
         IF IsRow(l) THEN \E m \in Message : l = Joined(m.row) /\ rs = Append(rows, m)
                     ELSE rs = rows
  PROVE  Lines(Append(ls, l), text \o (l \o <<Newline>>), rs)
<1> DEFINE n == Len(ls)
           us == Append(ls, l)
           a == At(ls, RowLines(ls))
           b == At(us, RowLines(us))
<1>1. ls \in Seq(Seq(Byte)) /\ l \in Seq(Byte) /\ Newline \in Byte /\ n \in Nat
  BY LenProperties, Sizes DEF Lines, Plain, Newline
<1>2. /\ us \in Seq(Seq(Byte)) /\ Len(us) = n + 1
      /\ (\A i \in 1..n : us[i] = ls[i]) /\ us[n + 1] = l
      /\ FlattenSeq(Ended(us, Newline)) = text \o (l \o <<Newline>>)
  BY <1>1, OneMore DEF Lines
<1>3. \A k \in 1..(n + 1) : Plain(us[k])
  <2>1. TAKE k \in 1..(n + 1)
  <2>2. k \in 1..n \/ k = n + 1
    BY <1>1
  <2>3. \A i \in 1..n : Plain(ls[i])
    BY DEF Lines
  <2> HIDE DEF us, n
  <2>4. QED BY <1>2, <2>2, <2>3
<1>4. a \in Seq(Seq(Byte)) /\ b = IF IsRow(l) THEN Append(a, l) ELSE a
  BY <1>1, OneLineMore
<1>5. Len(a) = Len(rows) /\ \A i \in 1..Len(rows) : a[i] = Joined(rows[i].row)
  BY DEF Lines
<1> HIDE DEF a, b, us, n
<1>6. Len(b) = Len(rs) /\ \A i \in 1..Len(rs) : b[i] = Joined(rs[i].row)
  <2>1. CASE ~IsRow(l)
    BY <1>4, <1>5, <2>1
  <2>2. CASE IsRow(l)
    <3>1. PICK m \in Message : l = Joined(m.row) /\ rs = Append(rows, m)
      BY <2>2
    <3> DEFINE c == Len(rows)
    <3>2. c \in Nat /\ Len(rs) = c + 1 /\ (\A i \in 1..c : rs[i] = rows[i]) /\ rs[c + 1] = m
      BY <3>1, LenProperties, AppendProperties
    <3>3. b = Append(a, l)
      BY <1>4, <2>2
    <3>4. Len(b) = c + 1 /\ (\A i \in 1..c : b[i] = a[i]) /\ b[c + 1] = l
      BY <1>1, <1>4, <1>5, <3>3, AppendProperties
    <3> HIDE DEF c
    <3>5. \A i \in 1..(c + 1) : b[i] = Joined(rs[i].row)
      <4>1. TAKE i \in 1..(c + 1)
      <4>2. i \in 1..c \/ i = c + 1
        BY <3>2
      <4>3. CASE i \in 1..c
        BY <1>5, <3>2, <3>4, <4>3 DEF c
      <4>4. CASE i = c + 1
        BY <3>1, <3>2, <3>4, <4>4
      <4>5. QED BY <4>2, <4>3, <4>4
    <3>6. QED BY <3>2, <3>4, <3>5
  <2>3. QED BY <2>1, <2>2
<1>7. QED BY <1>2, <1>3, <1>6 DEF Lines, b, us

\* What a message adds to the lines.
LEMMA NextLines ==
  ASSUME NEW ls, NEW text \in Seq(Byte), NEW rows \in Seq(Message), Lines(ls, text, rows),
         NEW m \in Message, Fits(m), m.type # E, m.type = D => Tame(m.row)
  PROVE  \E us : Lines(us, Rendered(text, m), IF m.type = D THEN Append(rows, m) ELSE rows)
<1> DEFINE nl == <<Newline>>
           X == Rendered(text, m)
<1>1. nl \in Seq(Byte) /\ <<Hash>> \in Seq(Byte)
  BY ByteSeqs
<1>2. CASE m.type = D
  <2> DEFINE l == Joined(m.row)
             rs == Append(rows, m)
  <2>1. Row(m.row) /\ Tame(m.row)
    BY <1>2, RowIs
  <2>2. Plain(l) /\ IsRow(l) /\ l \in Seq(Byte)
    BY <2>1, RowSplits DEF Plain
  <2>3. X = (text \o l) \o nl
    BY <1>2, RenderedIs
  <2>4. rs \in Seq(Message) /\ \E w \in Message : l = Joined(w.row) /\ rs = Append(rows, w)
    BY AppendProperties
  <2> HIDE DEF l, rs, nl
  <2>5. X = text \o (l \o nl)
    BY <1>1, <2>2, <2>3, Assoc
  <2>6. Lines(Append(ls, l), text \o (l \o <<Newline>>), rs)
    BY <2>2, <2>4, LineMore
  <2>7. Lines(Append(ls, l), X, rs)
    BY <2>5, <2>6 DEF nl
  <2>8. QED BY <1>2, <2>7 DEF rs
<1>3. CASE m.type = C
  <2> DEFINE h == <<Hash>>
             g == m.tag
             l == h \o g
  <2>1. g \in Tags /\ h \in Seq(Byte) /\ Len(h) = 1 /\ h[1] = Hash
    BY <1>1, <1>3, MessageIs
  <2>2. g \in Seq(Byte) /\ Len(g) \in Nat
        /\ \A i \in 1..Len(g) : g[i] # Newline /\ g[i] # Return
    <3>1. g \in Seq(Byte) /\ Len(g) \in Nat
      BY <2>1, TextIs, LenProperties
    <3>2. \A i \in 1..Len(g) : g[i] \in Byte \ {0, Newline, Return}
      BY <2>1, ElementOfSeq DEF Tags
    <3>3. QED BY <3>1, <3>2
  <2>3. X = ((text \o h) \o g) \o nl
    BY <1>3, RenderedIs
  <2> HIDE DEF h, g, nl
  <2>4. /\ l \in Seq(Byte) /\ Len(l) = Len(h) + Len(g)
        /\ \A i \in 1..(Len(h) + Len(g)) : l[i] = IF i <= Len(h) THEN h[i] ELSE g[i - Len(h)]
    BY <2>1, <2>2, ConcatProperties
  <2> HIDE DEF l
  <2>5. ASSUME NEW i \in 1..Len(l) PROVE l[i] # Newline /\ l[i] # Return
    <3>1. CASE i = 1
      <4>1. l[i] = Hash
        BY <2>1, <2>2, <2>4, <3>1
      <4>2. QED BY <4>1 DEF Hash, Newline, Return
    <3>2. CASE i # 1
      <4>1. i - 1 \in 1..Len(g) /\ ~(i <= Len(h)) /\ i - Len(h) = i - 1
            /\ i \in 1..(Len(h) + Len(g))
        BY <2>1, <2>2, <2>4, <3>2
      <4>2. l[i] = g[i - 1]
        BY <2>4, <4>1
      <4>3. QED BY <2>2, <4>1, <4>2
    <3>3. QED BY <3>1, <3>2
  <2>6. ~IsRow(l)
    <3>1. 1 \in 1..(Len(h) + Len(g)) /\ 1 <= Len(h)
      BY <2>1, <2>2
    <3>2. l[1] = Hash
      BY <2>1, <2>4, <3>1
    <3>3. QED BY <3>2 DEF IsRow
  <2>7. Plain(l)
    BY <2>4, <2>5 DEF Plain
  <2>8. Lines(Append(ls, l), text \o (l \o <<Newline>>), rows)
    BY <2>6, <2>7, LineMore
  <2>9. X = text \o (l \o nl)
    <3>1. (text \o h) \o g = text \o l
      BY <2>1, <2>2, Assoc DEF l
    <3>2. text \o (l \o nl) = (text \o l) \o nl
      BY <1>1, <2>4, Assoc
    <3>3. QED BY <2>3, <3>1, <3>2
  <2>10. m.type # D
    BY <1>3 DEF C, D
  <2>11. QED BY <2>8, <2>9, <2>10 DEF nl
<1>4. CASE m.type \notin {D, C}
  <2>1. X = text
    BY <1>4, RenderedIs
  <2>2. QED BY <1>4, <2>1
<1>5. QED BY <1>2, <1>3, <1>4

\* The rows of some messages and one more.
LEMMA RowsOfIs ==
  /\ RowsOf(<<>>) = <<>>
  /\ \A ms \in Seq(Message), m \in Message :
       /\ RowsOf(ms) \in Seq(Message)
       /\ RowsOf(Append(ms, m)) = IF m.type = D THEN Append(RowsOf(ms), m) ELSE RowsOf(ms)
<1>1. RowsOf(<<>>) = <<>>
  <2>1. OfType(<<>>, D) = {}
    BY EmptySeq DEF OfType
  <2>2. QED BY <2>1, AtNothing DEF RowsOf
<1>2. ASSUME NEW ms \in Seq(Message), NEW m \in Message
      PROVE  /\ RowsOf(ms) \in Seq(Message)
             /\ RowsOf(Append(ms, m)) = IF m.type = D THEN Append(RowsOf(ms), m) ELSE RowsOf(ms)
  <2> DEFINE n == Len(ms)
             us == Append(ms, m)
             I == OfType(ms, D)
  <2>1. /\ n \in Nat /\ Len(us) = n + 1 /\ (\A i \in 1..n : us[i] = ms[i]) /\ us[n + 1] = m
        /\ I \in SUBSET (1..n)
    BY LenProperties, AppendProperties DEF OfType
  <2>2. /\ At(ms, I) \in Seq(Message)
        /\ At(us, I) = At(ms, I)
        /\ At(us, I \cup {n + 1}) = Append(At(ms, I), m)
    <3>1. I \in SUBSET (1..Len(ms))
      BY <2>1
    <3> HIDE DEF I, n, us
    <3>2. /\ At(ms, I) \in Seq(Message)
          /\ At(Append(ms, m), I) = At(ms, I)
          /\ At(Append(ms, m), I \cup {Len(ms) + 1}) = Append(At(ms, I), m)
      <4>1. Places(Message, ms, m, I)
        BY <3>1 DEF Places
      <4>2. Longer(Message, ms, m, I)
        BY <4>1, AtAppend
      <4>3. QED BY <4>2 DEF Longer
    <3>3. QED BY <3>2 DEF n, us
  <2> HIDE DEF n, us
  <2>3. \A i : i \in 1..(n + 1) <=> i \in 1..n \/ i = n + 1
    BY <2>1
  <2>4. OfType(us, D) = IF m.type = D THEN I \cup {n + 1} ELSE I
    <3>1. OfType(us, D) = { i \in 1..(n + 1) : us[i].type = D }
      BY <2>1 DEF OfType
    <3>2. I = { i \in 1..n : ms[i].type = D }
      BY DEF OfType, n
    <3> HIDE DEF I
    <3>3. QED BY <2>1, <2>3, <3>1, <3>2
  <2> HIDE DEF I
  <2>5. QED BY <2>2, <2>4 DEF I, us, RowsOf
<1>3. QED BY <1>1, <1>2

\* The text is lines, and those of rows are the rows', in order.
LEMMA LinesIs ==
  ASSUME NEW ms, Good(ms),
         \A i \in 1..Len(ms) : ms[i].type # E /\ (ms[i].type = D => Tame(ms[i].row))
  PROVE  \E ls : Lines(ls, Rendering(ms), RowsOf(ms))
<1> DEFINE n == Len(ms)
           w(k) == SubSeq(ms, 1, k)
           P == { k \in 0..n : \E ls : Lines(ls, Rendering(w(k)), RowsOf(w(k))) }
<1>1. /\ n \in Nat /\ ms \in Seq(Message)
      /\ \A k \in 1..n : ms[k] \in Message /\ Fits(ms[k])
      /\ \A k \in 0..n : w(k) \in Seq(Message)
      /\ \A k \in 1..n : w(k) = Append(w(k - 1), ms[k])
      /\ w(0) = <<>> /\ w(n) = ms
  <2>1. ms \in Seq(Message)
    BY DEF Good
  <2>2. QED BY <2>1, GoodIs, Firsts
<1>2. /\ Rendering(w(0)) = <<>>
      /\ \A k \in 0..n : Rendering(w(k)) \in Seq(Byte)
      /\ \A k \in 1..n : Rendering(w(k)) = Rendered(Rendering(w(k - 1)), ms[k])
  BY RenderingIs
<1>3. \A k \in 1..n : ms[k].type # E /\ (ms[k].type = D => Tame(ms[k].row))
  OBVIOUS
<1> HIDE DEF n, w
<1>4. 0 \in P
  <2> DEFINE ls == <<>>
  <2>1. ls \in Seq(Seq(Byte)) /\ Len(ls) = 0
    BY EmptySeq
  <2>2. FlattenSeq(Ended(ls, Newline)) = <<>>
    <3>1. Newline \in Byte
      BY Sizes DEF Newline
    <3>2. Ended(ls, Newline) \in Seq(Seq(Byte)) /\ Len(Ended(ls, Newline)) = 0
      BY <2>1, <3>1, EndedIs
    <3>3. Ended(ls, Newline) = <<>>
      BY <3>2, EmptySeq
    <3>4. QED BY <3>3, FlattenEmpty
  <2>3. Len(At(ls, RowLines(ls))) = 0
    <3>1. RowLines(ls) = {}
      BY <2>1 DEF RowLines
    <3>2. At(ls, RowLines(ls)) = <<>>
      BY <3>1, AtNothing
    <3>3. QED BY <3>2, EmptySeq
  <2>4. RowsOf(w(0)) = <<>> /\ Len(<<>>) = 0
    BY <1>1, RowsOfIs, EmptySeq
  <2> HIDE DEF ls
  <2>5. Lines(ls, <<>>, <<>>)
    BY <2>1, <2>2, <2>3, <2>4 DEF Lines
  <2>6. 0 \in 0..n
    BY <1>1
  <2>7. QED BY <1>2, <2>4, <2>5, <2>6
<1>5. ASSUME NEW k \in 1..n, k - 1 \in P PROVE k \in P
  <2>1. k - 1 \in 0..n /\ k \in 0..n
    BY <1>1
  <2> DEFINE text == Rendering(w(k - 1))
             rows == RowsOf(w(k - 1))
             m == ms[k]
  <2>2. PICK ls : Lines(ls, text, rows)
    BY <1>5
  <2>3. text \in Seq(Byte) /\ rows \in Seq(Message) /\ m \in Message /\ Fits(m)
        /\ m.type # E /\ (m.type = D => Tame(m.row))
    BY <1>1, <1>2, <1>3, <2>1, RowsOfIs
  <2>4. Rendering(w(k)) = Rendered(text, m)
    BY <1>2
  <2>5. RowsOf(w(k)) = IF m.type = D THEN Append(rows, m) ELSE rows
    <3> DEFINE u == w(k - 1)
    <3>1. u \in Seq(Message) /\ m \in Message /\ w(k) = Append(u, m)
      BY <1>1, <2>1
    <3> HIDE DEF u, m
    <3>2. RowsOf(Append(u, m)) = IF m.type = D THEN Append(RowsOf(u), m) ELSE RowsOf(u)
      BY <3>1, RowsOfIs
    <3>3. QED BY <3>1, <3>2 DEF u
  <2> HIDE DEF text, rows, m
  <2>6. \E us : Lines(us, Rendered(text, m), IF m.type = D THEN Append(rows, m) ELSE rows)
    BY <2>2, <2>3, NextLines
  <2>7. QED BY <2>1, <2>4, <2>5, <2>6
<1> HIDE DEF P
<1>6. \A k \in 0..n : k \in P
  BY <1>1, <1>4, <1>5, Induction
<1>7. n \in P
  BY <1>1, <1>6
<1>8. QED BY <1>1, <1>7 DEF P

\* rows() takes them apart again.
LEMMA RowsAre ==
  ASSUME NEW text \in Seq(Byte), NEW rows, NEW ls, Lines(ls, text, rows),
         \A i \in 1..Len(rows) : Row(rows[i].row) /\ Tame(rows[i].row)
  PROVE  Rows(text) = [i \in 1..Len(rows) |->
                        [j \in 1..Len(rows[i].row) |-> Shown(rows[i].row[j])]]
<1> DEFINE nl == <<Newline>>
           us == Append(ls, <<>>)
           n == Len(ls)
           a == At(ls, RowLines(ls))
           lines == Parts(text, LineEnds(text))
<1>1. ls \in Seq(Seq(Byte)) /\ <<>> \in Seq(Byte) /\ Newline \in Byte /\ n \in Nat
      /\ nl \in Seq(Byte)
  BY ByteSeqs, LenProperties, Sizes DEF Lines, Newline
<1>2. /\ us \in Seq(Seq(Byte)) /\ Len(us) = n + 1
      /\ (\A i \in 1..n : us[i] = ls[i]) /\ us[n + 1] = <<>>
      /\ FlattenSeq(Ended(us, Newline)) = text \o (<<>> \o nl)
  BY <1>1, OneMore DEF Lines
<1>3. text \o nl = FlattenSeq(Ended(us, Newline))
  BY <1>1, <1>2, ConcatEmptySeq
<1>4. \A k \in 1..Len(us) : \A i \in 1..Len(us[k]) : us[k][i] # Newline /\ us[k][i] # Return
  <2>1. TAKE k \in 1..Len(us)
  <2>2. \A j \in 1..n : Plain(ls[j])
    BY DEF Lines
  <2> HIDE DEF us, n
  <2>3. k \in 1..n \/ k = n + 1
    BY <1>1, <1>2
  <2>4. CASE k \in 1..n
    BY <1>2, <2>2, <2>4 DEF Plain
  <2>5. CASE k = n + 1
    <3>1. us[k] = <<>> /\ Len(<<>>) = 0
      BY <1>2, <2>5, EmptySeq
    <3>2. \A i \in 1..0 : FALSE
      OBVIOUS
    <3>3. QED BY <3>1, <3>2
  <2>6. QED BY <2>3, <2>4, <2>5
<1>5. a = At(us, RowLines(us))
  <2>1. ~IsRow(<<>>)
    BY DEF IsRow
  <2>2. QED BY <1>1, <2>1, OneLineMore
<1>6. Len(a) = Len(rows) /\ \A i \in 1..Len(rows) : a[i] = Joined(rows[i].row)
  BY DEF Lines
<1> HIDE DEF us, a, nl, n
<1>7. /\ Parts(text, { p \in 1..Len(text) : text[p] = Newline }) = us
      /\ \A p \in 1..Len(text) : text[p] # Return
  <2>1. Len(us) # 0
    BY <1>1, <1>2
  <2>2. /\ Parts(text, { p \in 1..Len(text) : text[p] = Newline }) = us
        /\ \A p \in 1..Len(text) : text[p] # Newline =>
             \E k \in 1..Len(us) : \E i \in 1..Len(us[k]) : text[p] = us[k][i]
    BY <1>1, <1>2, <1>3, <1>4, <2>1, Splits DEF nl
  <2>3. Newline # Return
    BY DEF Newline, Return
  <2>4. QED BY <1>4, <2>2, <2>3
<1>8. LineEnds(text) = { p \in 1..Len(text) : text[p] = Newline }
  <2>1. Len(text) \in Nat
    BY LenProperties
  <2>2. \A p \in 1..Len(text) : p = 1 \/ text[p - 1] # Return
    <3>1. \A p \in 1..Len(text) : p = 1 \/ p - 1 \in 1..Len(text)
      BY <2>1
    <3>2. QED BY <1>7, <3>1
  <2>3. QED BY <2>2 DEF LineEnds
<1>9. lines = us
  BY <1>7, <1>8
<1>10. At(lines, { i \in 1..Len(lines) : IsRow(lines[i]) }) = a
  BY <1>5, <1>9 DEF RowLines
<1> HIDE DEF lines
<1>11. Rows(text) = [i \in 1..Len(a) |-> Parts(a[i], TabsOf(a[i]))]
  BY <1>10 DEF Rows, lines
<1>12. \A i \in 1..Len(rows) :
         Parts(a[i], TabsOf(a[i])) = [j \in 1..Len(rows[i].row) |-> Shown(rows[i].row[j])]
  BY <1>6, RowSplits
<1>13. QED BY <1>6, <1>11, <1>12

\* Every row of some messages is one of RowsOf, and the other way round.
LEMMA RowsOfAre ==
  ASSUME NEW ms, Good(ms)
  PROVE  /\ \A i \in 1..Len(RowsOf(ms)) : Row(RowsOf(ms)[i].row)
         /\ \A i \in OfType(ms, D) : \E k \in 1..Len(RowsOf(ms)) : RowsOf(ms)[k] = ms[i]
<1> DEFINE n == Len(ms)
           I == OfType(ms, D)
           c == Cardinality(I)
           rows == RowsOf(ms)
<1>1. /\ n \in Nat /\ ms \in Seq(Message) /\ I \in SUBSET (1..n)
      /\ \A k \in 1..n : ms[k] \in Message /\ Fits(ms[k])
      /\ \A i \in I : ms[i].type = D
  BY GoodIs DEF Good, OfType
<1> HIDE DEF I
<1>2. /\ c \in 0..n /\ (\A k \in 1..c : Nth(I, k) \in I)
      /\ \A i \in I : \E k \in 1..c : Nth(I, k) = i
  BY <1>1, NthIs
<1>3. rows = [k \in 1..c |-> ms[Nth(I, k)]]
  BY DEF RowsOf, At, I
<1>4. rows \in Seq(Message) /\ Len(rows) = c /\ \A k \in 1..c : rows[k] = ms[Nth(I, k)]
  <2>1. \A k \in 1..c : ms[Nth(I, k)] \in Message
    BY <1>1, <1>2
  <2>2. c \in Nat
    BY <1>1, <1>2
  <2> HIDE DEF c, rows
  <2>3. rows \in [1..c -> Message]
    BY <1>3, <2>1
  <2>4. rows \in Seq(Message)
    BY <2>2, <2>3
  <2>5. Len(rows) = c
    BY <2>2, <2>3, <2>4, LenProperties
  <2>6. QED BY <1>3, <2>4, <2>5
<1>5. \A k \in 1..c : Row(rows[k].row)
  <2>1. TAKE k \in 1..c
  <2> DEFINE m == rows[k]
  <2>2. m \in Message /\ Fits(m) /\ m.type = D
    BY <1>1, <1>2, <1>4, ZenonT(60)
  <2> HIDE DEF m
  <2>3. Row(m.row)
    BY <2>2, RowIs
  <2>4. QED BY <2>3 DEF m
<1>6. \A i \in I : \E k \in 1..c : rows[k] = ms[i]
  BY <1>2, <1>4
<1>7. QED BY <1>4, <1>5, <1>6 DEF I

--------------------------------------------------------------------------------
(***************************************************************************)
(* Results.                                                                *)
(***************************************************************************)
\* What is in the buffer fits what was allocated for it, and every offset and
\* length stays in range, whatever the messages and however they are cut.
THEOREM TypeCorrect == ReplySpec => []ReplyTypeOK
<1>1. ReplyInv => ReplyTypeOK
  BY DEF ReplyInv
<1>2. QED BY <1>1, ReplyInvHolds, PTL

\* has_rfq finds ReadyForQuery as soon as all of it has come, and never in the
\* body of another message or in part of one.
THEOREM ReadyFound == ReplySpec => []ReadyIsFound
<1>1. ReplyInv => ReadyIsFound
  BY SentIsGood, RfqFound DEF ReplyInv
<1>2. QED BY <1>1, ReplyInvHolds, PTL

\* At the end of the loop, the caller is behind the messages that are whole.
LEMMA AtTheEnd ==
  ASSUME ReplyInv, phase = "done"
  PROVE  \E k \in 0..Len(sent) :
           /\ ReadTo(k)
           /\ caller # "pgl_exec_wire" => WholeIn(Len(buf)) = SubSeq(sent, 1, k)
<1>1. PICK k \in 0..Len(sent) : ReadTo(k)
  BY DEF ReplyInv
<1>2. Good(sent) /\ Len(buf) \in Nat
  BY SentIsGood, LenProperties DEF ReplyInv, Came
<1>3. ASSUME caller # "pgl_exec_wire" PROVE WholeIn(Len(buf)) = SubSeq(sent, 1, k)
  <2>1. Whole(sent, Len(buf), k)
    BY <1>1, <1>3 DEF ReadTo
  <2>2. QED BY <1>2, <2>1, WholeIs
<1>4. QED BY <1>1, <1>3

\* The password answers the request that came last, with its own salt.
THEOREM RequestAnswered == ReplySpec => []AnswersTheRequest
<1>1. ASSUME ReplyInv PROVE AnswersTheRequest
  <2>1. SUFFICES ASSUME phase = "done", caller = "authenticate" PROVE AnswersTheRequest
    BY DEF AnswersTheRequest
  <2>2. PICK k \in 0..Len(sent) :
          ReadTo(k) /\ WholeIn(Len(buf)) = SubSeq(sent, 1, k)
    BY <1>1, <2>1, AtTheEnd
  <2> DEFINE whole == WholeIn(Len(buf))
             asked == OfType(whole, R)
             last  == whole[CHOOSE i \in asked : \A j \in asked : j <= i]
  <2>3. Matches(auth, whole)
    BY <2>1, <2>2 DEF ReadTo
  <2>4. IF asked = {} THEN auth = NoAuth
        ELSE auth.type = last.code /\ (last.code = 5 => auth.salt = last.salt)
    BY <2>3 DEF Matches
  <2>5. AnswersTheRequest <=>
          PasswordFor(auth) = IF asked = {} THEN <<"none">>
                              ELSE PasswordFor([type |-> last.code, salt |-> last.salt])
    BY <2>1 DEF AnswersTheRequest
  <2> HIDE DEF asked, last
  <2>6. CASE asked = {}
    <3>1. PasswordFor(auth) = <<"none">>
      BY <2>4, <2>6 DEF PasswordFor, NoAuth
    <3>2. QED BY <2>5, <2>6, <3>1
  <2>7. CASE asked # {}
    <3> DEFINE z == [type |-> last.code, salt |-> last.salt]
    <3>1. auth.type = z.type /\ (z.type = 5 => auth.salt = z.salt)
      BY <2>4, <2>7
    <3> HIDE DEF z
    <3>2. PasswordFor(auth) = PasswordFor(z)
      BY <3>1 DEF PasswordFor
    <3>3. QED BY <2>5, <2>7, <3>2 DEF z
  <2>8. QED BY <2>6, <2>7
<1>2. QED BY <1>1, ReplyInvHolds, PTL

\* pgl_exec's text and answer, and pgl_exec_wire's bytes, are what the messages
\* that came are, cut to the caller's buffer.
THEOREM OutputExact == ReplySpec => []OutputIsExact
<1>1. ASSUME ReplyInv PROVE OutputIsExact
  <2>1. SUFFICES ASSUME phase = "done" PROVE OutputIsExact
    BY DEF OutputIsExact
  <2>2. PICK k \in 0..Len(sent) :
          /\ ReadTo(k)
          /\ caller # "pgl_exec_wire" => WholeIn(Len(buf)) = SubSeq(sent, 1, k)
    BY <1>1, <2>1, AtTheEnd
  <2>3. ASSUME caller = "pgl_exec"
        PROVE  /\ out = UpTo(Rendering(WholeIn(Len(buf))), outcap - 1)
               /\ rc = -1 <=> OfType(WholeIn(Len(buf)), E) # {}
    BY <2>2, <2>3 DEF ReadTo
  <2>4. ASSUME caller = "pgl_exec_wire"
        PROVE  out = UpTo(UpTo(Bytes(sent), Len(buf)), outcap)
    <3> DEFINE B == Bytes(sent)
               l == Len(buf)
               u == UpTo(B, l)
    <3>1. /\ buf \in Seq(Byte) /\ l \in Nat /\ l <= Len(B)
          /\ \A i \in 1..l : buf[i] = B[i]
      BY <1>1, LenProperties DEF ReplyInv, Came
    <3>2. B \in Seq(Byte) /\ Len(B) \in Nat
      BY <1>1, SentIsGood, BytesIs, LenProperties DEF ReplyInv
    <3> HIDE DEF B
    <3>3. /\ u \in Seq(Byte) /\ Len(u) = IF Len(B) < l THEN Len(B) ELSE l
          /\ \A i \in 1..Len(u) : u[i] = B[i]
      BY <3>1, <3>2, UpToIs
    <3> HIDE DEF u
    <3>4. Len(u) = l
      BY <3>1, <3>2, <3>3
    <3>5. u = buf
      <4>1. \A i \in 1..l : u[i] = buf[i]
        BY <3>1, <3>3, <3>4
      <4>2. QED BY <3>1, <3>3, <3>4, <4>1, SeqEqual
    <3>6. out = UpTo(buf, outcap)
      BY <2>1, <2>2, <2>4 DEF ReadTo
    <3>7. QED BY <3>5, <3>6 DEF u, B
  <2>5. QED BY <2>3, <2>4 DEF OutputIsExact
<1>2. QED BY <1>1, ReplyInvHolds, PTL

\* rows() gives back the rows of the reply, column for column.
THEOREM RowsReturn == ReplySpec => []RowsComeBack
<1>1. ASSUME ReplyInv PROVE RowsComeBack
  <2> DEFINE whole == WholeIn(Len(buf))
             rows  == RowsOf(whole)
             text  == Rendering(whole)
  <2>1. SUFFICES ASSUME phase = "done", caller = "pgl_exec", rc = 0,
                        \A i \in 1..Len(rows) : Tame(rows[i].row),
                        Len(text) < outcap
                 PROVE  Rows(out) = [i \in 1..Len(rows) |->
                          [j \in 1..Len(rows[i].row) |-> Shown(rows[i].row[j])]]
    BY DEF RowsComeBack
  <2>2. PICK k \in 0..Len(sent) : ReadTo(k) /\ whole = SubSeq(sent, 1, k)
    BY <1>1, <2>1, AtTheEnd
  <2>3. out = UpTo(text, outcap - 1) /\ OfType(whole, E) = {}
    BY <2>1, <2>2 DEF ReadTo
  <2>4. Good(whole)
    BY <1>1, <2>2, SentIsGood, FirstGood DEF ReplyInv
  <2> HIDE DEF whole
  <2>5. text \in Seq(Byte)
    <3> DEFINE n == Len(whole)
    <3>1. n \in Nat /\ whole \in Seq(Message)
      BY <2>4, GoodIs DEF Good
    <3>2. n \in 0..n /\ SubSeq(whole, 1, n) = whole
      BY <3>1, Firsts
    <3> HIDE DEF n
    <3>3. Rendering(SubSeq(whole, 1, n)) \in Seq(Byte)
      BY <2>4, <3>2, RenderingIs DEF n
    <3>4. QED BY <3>2, <3>3
  <2>6. out = text
    <3> DEFINE c == outcap - 1
    <3>1. outcap \in Nat \ {0}
      BY <1>1, OutCap DEF ReplyInv, ReplyTypeOK
    <3>2. Len(text) \in Nat /\ Len(text) < outcap
      BY <2>1, <2>5, LenProperties
    <3>3. c \in Nat /\ Len(text) <= c
      <4> HIDE DEF text
      <4>1. QED BY <3>1, <3>2
    <3> HIDE DEF c, text
    <3>4. UpTo(text, c) = text
      BY <2>5, <3>3, UpToIs
    <3>5. QED BY <2>3, <3>4 DEF c
  <2>7. \A i \in 1..Len(whole) :
          whole[i].type # E /\ (whole[i].type = D => Tame(whole[i].row))
    <3>1. TAKE i \in 1..Len(whole)
    <3>2. whole[i].type # E
      BY <2>3 DEF OfType
    <3>3. ASSUME whole[i].type = D PROVE Tame(whole[i].row)
      <4>1. i \in OfType(whole, D)
        BY <3>3 DEF OfType
      <4>2. PICK h \in 1..Len(rows) : rows[h] = whole[i]
        BY <2>4, <4>1, RowsOfAre
      <4>3. QED BY <2>1, <4>2
    <3>4. QED BY <3>2, <3>3
  <2>8. PICK ls : Lines(ls, text, rows)
    BY <2>4, <2>7, LinesIs
  <2>9. \A i \in 1..Len(rows) : Row(rows[i].row) /\ Tame(rows[i].row)
    BY <2>1, <2>4, RowsOfAre
  <2> HIDE DEF text, rows
  <2>10. Rows(text) = [i \in 1..Len(rows) |->
                        [j \in 1..Len(rows[i].row) |-> Shown(rows[i].row[j])]]
    BY <2>5, <2>8, <2>9, RowsAre
  <2>11. QED BY <2>6, <2>10
<1>2. QED BY <1>1, ReplyInvHolds, PTL

===============================================================================
