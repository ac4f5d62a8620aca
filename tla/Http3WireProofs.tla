--------------------------- MODULE Http3WireProofs ---------------------------
(***************************************************************************)
(* Proofs about the bytes of a request and its reply: module Http3Wire.    *)
(*                                                                         *)
(* What is written is read back, for every number, text, field             *)
(* line and frame, wherever it lies in the bytes; and a reply is taken as  *)
(* the server sent it.  LiesAt(s, data, pos): s is the bytes of data from  *)
(* pos on.  A list whose reader goes from place to place is a chain        *)
(* (Chained): the letters of the Huffman code, the lines of a block, the   *)
(* frames of a stream.  ReplyInv: what has arrived is the beginning of the *)
(* stream, and what has been parsed is all of it.  Reserved(l): a line of  *)
(* the request is no longer than what the encoder sets aside for it, from  *)
(* the lengths of the int before a text and of the text; so the encoder,   *)
(* which stops when a line's reserve does not fit, stays in its buffer.    *)
(* ReadsAs(bytes, field): the server reads these bytes as this field,      *)
(* wherever they lie.  RequestInv: what was sent stays what was made of    *)
(* the request; the URL and the headers text are taken apart into what     *)
(* they were put together from, and the server reads the lines written     *)
(* from them as the lines asked for, all of them since the room made for   *)
(* them is enough (Room), and the first of them with less.                 *)
(***************************************************************************)
EXTENDS Http3Wire, FiniteSetTheorems, SequenceTheorems, WellFoundedInduction, TLAPS

\* Every set of naturals has a least element: < is well-founded on them.
LEMMA LeastNatural ==
  ASSUME NEW S \in SUBSET Nat, S # {}
  PROVE  \E x \in S : \A y \in S : x <= y
<1>. DEFINE R == {p \in Nat \X Nat : p[1] < p[2]}
<1>1. IsWellFoundedOn(R, Nat)
  BY NatLessThanWellFounded, Zenon DEF OpToRel
<1>. HIDE DEF R
<1>2. S \subseteq Nat
  OBVIOUS
<1>3. PICK x \in S : \A y \in S : ~(<<y, x>> \in R)
  BY <1>1, <1>2, WFMin, Zenon
<1>4. ASSUME NEW y \in S PROVE x <= y
  <2>1. ~(y < x)
    BY <1>3 DEF R
  <2>. QED
    BY <2>1
<1>. QED
  BY <1>4

-----------------------------------------------------------------------------
(* Recursion over the naturals, and concatenations. *)

\* What holds of 0 and passes on to the next number holds of every number.
LEMMA InductionSet ==
  ASSUME NEW T, 0 \in T, \A n \in Nat : n \in T => n + 1 \in T
  PROVE  \A n \in Nat : n \in T
<1>. SUFFICES ASSUME Nat \ T # {} PROVE FALSE
  OBVIOUS
<1>1. PICK x \in Nat \ T : \A y \in Nat \ T : x <= y
  BY LeastNatural
<1>2. x # 0 /\ x - 1 \in Nat /\ ~(x <= x - 1)
  BY <1>1
<1>3. x - 1 \in T
  BY <1>1, <1>2
<1>4. (x - 1) + 1 \in T
  BY <1>2, <1>3
<1>5. (x - 1) + 1 = x
  BY <1>1
<1>. QED
  BY <1>1, <1>4, <1>5

\* F gives the value of a function at x from its values at what has a lower rank.
Descends(D, V, rank, F) ==
  /\ V # {} /\ rank \in [D -> Nat] /\ F \in [D \X [D -> V] -> V]
  /\ \A x \in D : \A g, h \in [D -> V] :
       (\A y \in D : rank[y] < rank[x] => g[y] = h[y]) => F[<<x, g>>] = F[<<x, h>>]

Solves(f, D, V, F) == f \in [D -> V] /\ \A x \in D : f[x] = F[<<x, f>>]

\* Such a recursion has a solution.
LEMMA Recursion ==
  ASSUME NEW D, NEW V, NEW rank, NEW F, Descends(D, V, rank, F)
  PROVE  \E f : Solves(f, D, V, F)
<1>0. /\ rank \in [D -> Nat] /\ F \in [D \X [D -> V] -> V]
      /\ \A x \in D : \A g, h \in [D -> V] :
           (\A y \in D : rank[y] < rank[x] => g[y] = h[y]) => F[<<x, g>>] = F[<<x, h>>]
  BY DEF Descends
<1>. USE <1>0
<1>. PICK anything : anything \in V
  BY DEF Descends
<1>. DEFINE Good(n, g) == g \in [D -> V] /\ \A x \in D : rank[x] < n => g[x] = F[<<x, g>>]
            T == {n \in Nat : \E g \in [D -> V] : Good(n, g)}
<1>1. 0 \in T
  <2>1. Good(0, [x \in D |-> anything])
    OBVIOUS
  <2>. QED
    BY <2>1
<1>2. ASSUME NEW n \in Nat, n \in T PROVE n + 1 \in T
  <2>1. PICK g \in [D -> V] : Good(n, g)
    BY <1>2
  <2>. DEFINE h == [x \in D |-> IF rank[x] = n THEN F[<<x, g>>] ELSE g[x]]
  <2>2. h \in [D -> V]
    OBVIOUS
  <2>3. ASSUME NEW x \in D, rank[x] < n + 1 PROVE h[x] = F[<<x, h>>]
    <3>1. F[<<x, h>>] = F[<<x, g>>]
      <4>1. \A y \in D : rank[y] < rank[x] => h[y] = g[y]
        BY <2>3
      <4>. QED
        BY <2>2, <4>1
    <3>2. CASE rank[x] = n
      BY <3>1, <3>2
    <3>3. CASE rank[x] < n
      BY <3>1, <3>3, <2>1
    <3>4. rank[x] = n \/ rank[x] < n
      <4>1. rank[x] \in Nat
        OBVIOUS
      <4>2. \A a, b \in Nat : a < b + 1 => a = b \/ a < b
        BY SMTT(30)
      <4>. QED
        BY <2>3, <4>1, <4>2, Zenon
    <3>. QED
      BY <3>2, <3>3, <3>4, Zenon
  <2>. HIDE DEF h
  <2>4. Good(n + 1, h)
    BY <2>2, <2>3
  <2>. QED
    BY <2>2, <2>4
<1>. HIDE DEF T
<1>3. \A n \in Nat : n \in T
  BY <1>1, <1>2, InductionSet
<1>4. \A n \in Nat : \E g \in [D -> V] : Good(n, g)
  BY <1>3 DEF T
<1>. HIDE DEF Good
<1>. DEFINE G == [n \in Nat |-> CHOOSE g \in [D -> V] : Good(n, g)]
<1>5. \A n \in Nat : G[n] \in [D -> V] /\ Good(n, G[n])
  BY <1>4
<1>. HIDE DEF G
\* Two of them agree where both are good.
<1>6. ASSUME NEW m \in Nat, NEW n \in Nat, NEW g \in [D -> V], NEW h \in [D -> V],
             m <= n, Good(m, g), Good(n, h)
      PROVE  \A x \in D : rank[x] < m => g[x] = h[x]
  <2>. DEFINE Bad == {k \in Nat : k < m /\ \E x \in D : rank[x] = k /\ g[x] # h[x]}
  <2>. SUFFICES ASSUME Bad # {} PROVE FALSE
    OBVIOUS
  <2>1. PICK k \in Bad : \A j \in Bad : k <= j
    BY LeastNatural
  <2>2. PICK x \in D : rank[x] = k /\ g[x] # h[x]
    OBVIOUS
  <2>3. \A y \in D : rank[y] < rank[x] => g[y] = h[y]
    <3>. SUFFICES ASSUME NEW y \in D, rank[y] < rank[x], g[y] # h[y] PROVE FALSE
      OBVIOUS
    <3>1. rank[y] \in Bad
      BY <2>2
    <3>. QED
      BY <2>1, <2>2, <3>1
  <2>4. F[<<x, g>>] = F[<<x, h>>]
    BY <2>3
  <2>. QED
    BY <1>6, <2>2, <2>4 DEF Good
<1>. DEFINE f == [x \in D |-> G[rank[x] + 1][x]]
<1>7. f \in [D -> V]
  BY <1>5
<1>8. ASSUME NEW x \in D PROVE f[x] = F[<<x, f>>]
  <2>. DEFINE g == G[rank[x] + 1]
  <2>1. g \in [D -> V] /\ Good(rank[x] + 1, g)
    BY <1>5
  <2>2. g[x] = F[<<x, g>>]
    <3>. HIDE DEF g
    <3>1. rank[x] < rank[x] + 1
      OBVIOUS
    <3>. QED
      BY <2>1, <3>1 DEF Good
  <2>3. ASSUME NEW y \in D, rank[y] < rank[x] PROVE f[y] = g[y]
    <3>1. G[rank[y] + 1] \in [D -> V] /\ Good(rank[y] + 1, G[rank[y] + 1])
      BY <1>5
    <3>2. rank[y] + 1 \in Nat /\ rank[x] + 1 \in Nat /\ rank[y] + 1 <= rank[x] + 1
          /\ rank[y] < rank[y] + 1
      BY <2>3
    <3>. HIDE DEF g
    <3>3. G[rank[y] + 1][y] = g[y]
      BY <2>1, <3>1, <3>2, <1>6, SMTT(30)
    <3>. QED
      BY <3>3
  <2>4. F[<<x, f>>] = F[<<x, g>>]
    <3>. HIDE DEF f, g
    <3>. QED
      BY <1>7, <2>1, <2>3
  <2>. QED
    BY <2>2, <2>4
<1>. QED
  BY <1>7, <1>8 DEF Solves

\* The same for a function that grows from 0 by a step.
Grows(V, base, n, step) == base \in V /\ n \in Nat /\ step \in [(1 .. n) \X V -> V]

Grown(f, V, base, n, step) ==
  f \in [0 .. n -> V] /\ f[0] = base /\ \A i \in 1 .. n : f[i] = step[<<i, f[i - 1]>>]

\* A recursive function on 0 .. n exists: each value from the one before.
LEMMA Iteration ==
  ASSUME NEW V, NEW base, NEW n, NEW step, Grows(V, base, n, step)
  PROVE  \E f : Grown(f, V, base, n, step)
<1>. DEFINE D == 0 .. n
            rank == [i \in D |-> i]
            F == [p \in D \X [D -> V] |-> IF p[1] = 0 THEN base ELSE step[<<p[1], p[2][p[1] - 1]>>]]
<1>0. base \in V /\ n \in Nat /\ step \in [(1 .. n) \X V -> V]
  BY DEF Grows
<1>1. rank \in [D -> Nat]
  BY <1>0
<1>2. ASSUME NEW i \in D, i # 0 PROVE i \in 1 .. n /\ i - 1 \in D /\ rank[i - 1] < rank[i]
  BY <1>0, <1>2
<1>3. F \in [D \X [D -> V] -> V]
  <2>. SUFFICES ASSUME NEW i \in D, NEW g \in [D -> V], i # 0 PROVE step[<<i, g[i - 1]>>] \in V
    BY <1>0
  <2>1. i \in 1 .. n /\ i - 1 \in D
    BY <1>2
  <2>. QED
    BY <1>0, <2>1
<1>4. \A i \in D, g \in [D -> V] :
        F[<<i, g>>] = IF i = 0 THEN base ELSE step[<<i, g[i - 1]>>]
  OBVIOUS
<1>. HIDE DEF D, rank, F
<1>5. \A i \in D : \A g, h \in [D -> V] :
         (\A y \in D : rank[y] < rank[i] => g[y] = h[y]) => F[<<i, g>>] = F[<<i, h>>]
  <2>. SUFFICES ASSUME NEW i \in D, NEW g \in [D -> V], NEW h \in [D -> V],
                       \A y \in D : rank[y] < rank[i] => g[y] = h[y]
                PROVE  F[<<i, g>>] = F[<<i, h>>]
    OBVIOUS
  <2>1. CASE i = 0
    BY <2>1, <1>4
  <2>2. CASE i # 0
    <3>1. i - 1 \in D /\ rank[i - 1] < rank[i]
      BY <1>2, <2>2
    <3>2. g[i - 1] = h[i - 1]
      BY <3>1
    <3>3. F[<<i, g>>] = step[<<i, g[i - 1]>>] /\ F[<<i, h>>] = step[<<i, h[i - 1]>>]
      BY <1>4, <2>2
    <3>. QED
      BY <3>2, <3>3
  <2>. QED
    BY <2>1, <2>2
<1>6. \E f : Solves(f, D, V, F)
  <2>1. Descends(D, V, rank, F)
    BY <1>0, <1>1, <1>3, <1>5 DEF Descends
  <2>. QED
    BY <2>1, Recursion
<1>7. PICK f \in [D -> V] : \A i \in D : f[i] = IF i = 0 THEN base ELSE step[<<i, f[i - 1]>>]
  BY <1>4, <1>6 DEF Solves
<1>8. f \in [0 .. n -> V]
  BY <1>7 DEF D
<1>9. \A i \in 1 .. n : f[i] = step[<<i, f[i - 1]>>]
  BY <1>0, <1>7 DEF D
<1>10. f[0] = base
  <2>1. 0 \in D
    BY <1>0 DEF D
  <2>. QED
    BY <1>7, <2>1
<1>. QED
  BY <1>8, <1>9, <1>10 DEF Grown

-----------------------------------------------------------------------------
(* FlattenSeq *)

\* f has what the first parts of s make together.
Parts(f, S, s) ==
  /\ f[0] = <<>> /\ \A i \in 0 .. Len(s) : f[i] \in Seq(S)
  /\ \A i \in 1 .. Len(s) : f[i] = f[i - 1] \o s[i]

\* FlattenSeq is the last of the partial concatenations of a list of sequences.
LEMMA FlattenIs ==
  ASSUME NEW S, NEW s \in Seq(Seq(S)), NEW f, Parts(f, S, s)
  PROVE  FlattenSeq(s) = f[Len(s)]
<1>1. CASE Len(s) = 0
  <2>1. s = <<>>
    BY <1>1
  <2>. QED
    BY <1>1, <2>1 DEF FlattenSeq, Parts
<1>2. CASE Len(s) # 0
  <2>. DEFINE fl[i \in 1 .. Len(s)] == IF i = 1 THEN s[i] ELSE fl[i - 1] \o s[i]
              g == [i \in 1 .. Len(s) |-> f[i]]
              T == {i \in Nat : i \in 1 .. Len(s) => fl[i] = f[i]}
  <2>0. Len(s) \in Nat /\ Len(s) \in 1 .. Len(s)
    BY <1>2
  <2>1. g = [i \in 1 .. Len(s) |-> IF i = 1 THEN s[i] ELSE g[i - 1] \o s[i]]
    <3>1. f[1] = s[1]
      <4>1. 1 \in 1 .. Len(s)
        BY <1>2
      <4>2. f[1] = f[1 - 1] \o s[1] /\ f[0] = <<>>
        BY <4>1 DEF Parts
      <4>3. 1 - 1 = 0
        OBVIOUS
      <4>4. f[1] = <<>> \o s[1]
        BY <4>2, <4>3
      <4>5. s[1] \in Seq(S)
        BY <4>1
      <4>. QED
        BY <4>4, <4>5
    <3>2. ASSUME NEW i \in 1 .. Len(s) PROVE g[i] = IF i = 1 THEN s[i] ELSE g[i - 1] \o s[i]
      <4>1. CASE i = 1
        BY <3>1, <4>1
      <4>2. CASE i # 1
        <5>1. f[i] = f[i - 1] \o s[i]
          BY DEF Parts
        <5>2. i - 1 \in 1 .. Len(s)
          BY <4>2
        <5>. QED
          BY <4>2, <5>1, <5>2
      <4>. QED
        BY <4>1, <4>2
    <3>. QED
      BY <3>2
  <2>2. fl = [i \in 1 .. Len(s) |-> IF i = 1 THEN s[i] ELSE fl[i - 1] \o s[i]]
    <3>. HIDE DEF g
    <3>1. \E h : h = [i \in 1 .. Len(s) |-> IF i = 1 THEN s[i] ELSE h[i - 1] \o s[i]]
      BY <2>1
    <3>. QED
      BY <3>1, Zenon
  <2>3. FlattenSeq(s) = fl[Len(s)]
    BY <1>2 DEF FlattenSeq
  <2>. HIDE DEF fl, g
  <2>4. 0 \in T
    OBVIOUS
  <2>5. ASSUME NEW i \in Nat, i \in T PROVE i + 1 \in T
    <3>1. SUFFICES ASSUME i + 1 \in 1 .. Len(s) PROVE fl[i + 1] = f[i + 1]
      OBVIOUS
    <3>2. (i + 1) - 1 = i
      OBVIOUS
    <3>3. fl[i + 1] = IF i + 1 = 1 THEN s[i + 1] ELSE fl[(i + 1) - 1] \o s[i + 1]
      BY <2>2, <3>1
    <3>4. f[i + 1] = f[(i + 1) - 1] \o s[i + 1] /\ f[0] = <<>>
      BY <3>1 DEF Parts
    <3>7. s[i + 1] \in Seq(S)
      BY <3>1
    <3>5. CASE i = 0
      <4>1. f[i + 1] = <<>> \o s[i + 1]
        BY <3>2, <3>4, <3>5
      <4>. QED
        BY <3>3, <3>7, <3>5, <4>1
    <3>6. CASE i # 0
      <4>1. fl[i] = f[i]
        BY <2>5, <3>1, <3>6
      <4>2. i + 1 # 1
        BY <3>6
      <4>. QED
        BY <3>2, <3>3, <3>4, <4>1, <4>2
    <3>. QED
      BY <3>5, <3>6
  <2>. HIDE DEF T
  <2>6. \A i \in Nat : i \in T
    BY <2>4, <2>5, InductionSet
  <2>. QED
    BY <2>0, <2>3, <2>6 DEF T
<1>. QED
  BY <1>1, <1>2

\* Every list of sequences has partial concatenations.
LEMMA FlattenParts ==
  ASSUME NEW S, NEW s \in Seq(Seq(S))
  PROVE  \E f : Parts(f, S, s)
<1>. DEFINE V == Seq(S)
            n == Len(s)
            step == [p \in (1 .. n) \X V |-> p[2] \o s[p[1]]]
<1>1. Grows(V, <<>>, n, step)
  BY DEF Grows
<1>2. \A i \in 1 .. n : \A v \in V : step[<<i, v>>] = v \o s[i]
  OBVIOUS
<1>. HIDE DEF step, V, n
<1>3. PICK f : Grown(f, V, <<>>, n, step)
  BY <1>1, Iteration
<1>4. n \in Nat
  BY DEF n
<1>5. ASSUME NEW i \in 1 .. n PROVE f[i] = f[i - 1] \o s[i]
  <2>1. i - 1 \in 0 .. n
    BY <1>4
  <2>. QED
    BY <1>2, <1>3, <2>1 DEF Grown
<1>. QED
  BY <1>3, <1>5 DEF Parts, Grown, V, n

\* The concatenation of sequences over S is one.
LEMMA FlattenType ==
  ASSUME NEW S, NEW s \in Seq(Seq(S))
  PROVE  FlattenSeq(s) \in Seq(S)
<1>1. PICK f : Parts(f, S, s)
  BY FlattenParts
<1>2. FlattenSeq(s) = f[Len(s)]
  BY <1>1, FlattenIs
<1>. QED
  BY <1>1, <1>2 DEF Parts

\* The concatenation of nothing.
LEMMA FlattenEmpty == FlattenSeq(<<>>) = <<>>
BY DEF FlattenSeq

\* The concatenation of a list with one more sequence.
LEMMA FlattenAppend ==
  ASSUME NEW S, NEW s \in Seq(Seq(S)), NEW e \in Seq(S)
  PROVE  FlattenSeq(Append(s, e)) = FlattenSeq(s) \o e
<1>. DEFINE t == Append(s, e)
<1>1. t \in Seq(Seq(S)) /\ Len(t) = Len(s) + 1 /\ t[Len(t)] = e /\ \A i \in 1 .. Len(s) : t[i] = s[i]
  OBVIOUS
<1>. HIDE DEF t
<1>2. PICK f : Parts(f, S, t)
  BY <1>1, FlattenParts
<1>3. FlattenSeq(t) = f[Len(t)]
  BY <1>1, <1>2, FlattenIs
<1>4. Parts(f, S, s)
  <2>1. Len(s) \in Nat /\ 0 .. Len(s) \subseteq 0 .. Len(t) /\ 1 .. Len(s) \subseteq 1 .. Len(t)
    BY <1>1
  <2>2. ASSUME NEW i \in 1 .. Len(s) PROVE f[i] = f[i - 1] \o s[i]
    <3>1. f[i] = f[i - 1] \o t[i] /\ t[i] = s[i]
      BY <1>1, <1>2, <2>1 DEF Parts
    <3>. QED
      BY <3>1
  <2>. QED
    BY <1>2, <2>1, <2>2 DEF Parts
<1>5. FlattenSeq(s) = f[Len(s)]
  BY <1>4, FlattenIs
<1>6. f[Len(t)] = f[Len(s)] \o e
  <2>1. Len(t) \in 1 .. Len(t) /\ Len(t) - 1 = Len(s)
    BY <1>1
  <2>2. f[Len(t)] = f[Len(t) - 1] \o t[Len(t)]
    BY <1>2, <2>1 DEF Parts
  <2>. QED
    BY <1>1, <2>1, <2>2
<1>. QED
  BY <1>3, <1>5, <1>6 DEF t

-----------------------------------------------------------------------------
(* Integers of QUIC. *)

\* UpTo finds the first place.
LEMMA UpToPlace ==
  ASSUME NEW s \in Bytes, NEW i \in 1 .. Len(s) + 1, NEW stops
  PROVE  /\ UpTo(s, i, stops) \in i .. Len(s) + 1
         /\ \A k \in i .. UpTo(s, i, stops) - 1 : s[k] \notin stops
         /\ UpTo(s, i, stops) <= Len(s) => s[UpTo(s, i, stops)] \in stops
<1>. DEFINE found == {k \in i .. Len(s) : s[k] \in stops}
<1>0. Len(s) \in Nat /\ i \in Nat
  BY DEF Bytes
<1>1. CASE found = {}
  <2>1. UpTo(s, i, stops) = Len(s) + 1
    BY <1>1 DEF UpTo
  <2>. QED
    BY <1>0, <1>1, <2>1
<1>2. CASE found # {}
  <2>1. found \in SUBSET Nat
    BY <1>0
  <2>2. \E k \in found : \A j \in found : k <= j
    <3>. HIDE DEF found
    <3>. QED
      BY <1>2, <2>1, LeastNatural
  <2>3. UpTo(s, i, stops) \in found /\ \A j \in found : UpTo(s, i, stops) <= j
    BY <1>2, <2>2 DEF UpTo
  <2>. QED
    BY <1>0, <2>3
<1>. QED
  BY <1>1, <1>2

\* UpTo is the place before which nothing stops it and where something does.
LEMMA UpToIs ==
  ASSUME NEW s \in Bytes, NEW i \in 1 .. Len(s) + 1, NEW stops, NEW e \in i .. Len(s) + 1,
         \A k \in i .. e - 1 : s[k] \notin stops, e <= Len(s) => s[e] \in stops
  PROVE  UpTo(s, i, stops) = e
<1>. DEFINE u == UpTo(s, i, stops)
<1>0. Len(s) \in Nat /\ i \in Nat /\ e \in Nat
  BY DEF Bytes
<1>1. /\ u \in i .. Len(s) + 1 /\ \A k \in i .. u - 1 : s[k] \notin stops
      /\ u <= Len(s) => s[u] \in stops
  BY UpToPlace
<1>. HIDE DEF u
<1>2. ~(u < e)
  BY <1>0, <1>1
<1>3. ~(e < u)
  BY <1>0, <1>1
<1>4. u = e
  BY <1>0, <1>1, <1>2, <1>3
<1>. QED
  BY <1>4 DEF u

-----------------------------------------------------------------------------
(* Integers of QUIC *)

\* The bytes of s are those of data from pos on.
LiesAt(s, data, pos) ==
  /\ pos \in 1 .. Len(data) + 1 /\ pos + Len(s) - 1 <= Len(data)
  /\ \A k \in 1 .. Len(s) : data[pos + k - 1] = s[k]

\* The powers of two an integer's length is read from.
LEMMA LengthOfVarint ==
  /\ 2 ^ 0 = 1 /\ 2 ^ 1 = 2 /\ 2 ^ 2 = 4 /\ 2 ^ 3 = 8
  /\ \A b \in 0 .. 3 : 2 ^ b \in {1, 2, 4, 8}
<1>1. 2 ^ 0 = 1 /\ 2 ^ 1 = 2 /\ 2 ^ 2 = 4 /\ 2 ^ 3 = 8
  OBVIOUS
<1>2. ASSUME NEW b \in 0 .. 3 PROVE 2 ^ b \in {1, 2, 4, 8}
  <2>1. b = 0 \/ b = 1 \/ b = 2 \/ b = 3
    OBVIOUS
  <2>2. CASE b = 0
    BY <2>2
  <2>3. CASE b = 1
    BY <2>3
  <2>4. CASE b = 2
    BY <2>4
  <2>5. CASE b = 3
    BY <2>5
  <2>. QED
    BY <2>1, <2>2, <2>3, <2>4, <2>5
<1>. QED
  BY <1>1, <1>2

\* The quotients a number is written from.
Quotients(q, v) ==
  /\ q \in [0 .. 8 -> Nat] /\ q[0] = v /\ \A i \in 1 .. 8 : q[i] = q[i - 1] \div 256

\* The quotients BigEndian shifts through exist.
LEMMA QuotientsExist ==
  ASSUME NEW v \in Nat
  PROVE  \E q : Quotients(q, v)
<1>. DEFINE step == [p \in (1 .. 8) \X Nat |-> p[2] \div 256]
<1>1. Grows(Nat, v, 8, step)
  BY DEF Grows
<1>2. \A i \in 1 .. 8, w \in Nat : step[<<i, w>>] = w \div 256
  OBVIOUS
<1>. HIDE DEF step
<1>3. PICK q : Grown(q, Nat, v, 8, step)
  BY <1>1, Iteration
<1>4. ASSUME NEW i \in 1 .. 8 PROVE q[i] = q[i - 1] \div 256
  <2>1. q[i - 1] \in Nat /\ q[i] = step[<<i, q[i - 1]>>]
    BY <1>3 DEF Grown
  <2>. QED
    BY <1>2, <2>1
<1>. QED
  BY <1>3, <1>4 DEF Quotients, Grown

LowBytes(q, n) == [i \in 1 .. n |-> q[n - i] % 256]

\* BigEndian is the remainders of those quotients, the last one first.
LEMMA BigEndianIs ==
  ASSUME NEW v \in Nat, NEW q, Quotients(q, v), NEW n \in 0 .. 8
  PROVE  BigEndian(n, v) = LowBytes(q, n)
<1>. DEFINE shifted[i \in 0 .. 8] == IF i = 0 THEN v ELSE shifted[i - 1] \div 256
<1>1. q = [i \in 0 .. 8 |-> IF i = 0 THEN v ELSE q[i - 1] \div 256]
  <2>1. ASSUME NEW i \in 0 .. 8 PROVE q[i] = IF i = 0 THEN v ELSE q[i - 1] \div 256
    BY SMTT(30) DEF Quotients
  <2>. QED
    BY <2>1 DEF Quotients
<1>2. shifted = [i \in 0 .. 8 |-> IF i = 0 THEN v ELSE shifted[i - 1] \div 256]
  <2>1. \E f : f = [i \in 0 .. 8 |-> IF i = 0 THEN v ELSE f[i - 1] \div 256]
    BY <1>1
  <2>. QED
    BY <2>1, Zenon
<1>3. BigEndian(n, v) = [i \in 1 .. n |-> shifted[n - i] % 256]
  BY DEF BigEndian
<1>. HIDE DEF shifted
<1>4. shifted[0] = q[0]
  BY <1>1, <1>2
<1>5. ASSUME NEW i \in 1 .. 8, shifted[i - 1] = q[i - 1] PROVE shifted[i] = q[i]
  BY <1>1, <1>2, <1>5
<1>6. \A i \in 0 .. 8 : shifted[i] = q[i]
  <2>1. shifted[1] = q[1]
    BY <1>4, <1>5
  <2>2. shifted[2] = q[2]
    BY <2>1, <1>5
  <2>3. shifted[3] = q[3]
    BY <2>2, <1>5
  <2>4. shifted[4] = q[4]
    BY <2>3, <1>5
  <2>5. shifted[5] = q[5]
    BY <2>4, <1>5
  <2>6. shifted[6] = q[6]
    BY <2>5, <1>5
  <2>7. shifted[7] = q[7]
    BY <2>6, <1>5
  <2>8. shifted[8] = q[8]
    BY <2>7, <1>5
  <2>. QED
    BY <1>4, <2>1, <2>2, <2>3, <2>4, <2>5, <2>6, <2>7, <2>8
<1>7. ASSUME NEW i \in 1 .. n PROVE shifted[n - i] % 256 = q[n - i] % 256
  BY <1>6
<1>. QED
  BY <1>3, <1>7 DEF LowBytes

\* A byte is a number below 256.
LEMMA ByteIsNat ==
  ASSUME NEW b \in Byte
  PROVE  b \in Nat /\ b < 256
BY DEF Byte

\* 2 ^ 62, what no longer fits.
VarintEnd == 256 * (256 * (256 * (256 * (256 * (256 * (256 * 64))))))

\* A number below 256 * b has, one byte less, a quotient below b.
LEMMA OneByteLess ==
  ASSUME NEW a \in Nat, NEW b \in Nat, a < 256 * b
  PROVE  a \div 256 < b
OBVIOUS

\* Below 2^62 the first of eight bytes leaves two bits for the length.
LEMMA TopByte ==
  ASSUME NEW v \in Nat, v < VarintEnd, NEW q, Quotients(q, v)
  PROVE  q[7] < 64
<1>. DEFINE k1 == 256 * 64  k2 == 256 * k1  k3 == 256 * k2  k4 == 256 * k3
            k5 == 256 * k4  k6 == 256 * k5
<1>1. /\ k2 = 256 * k1 /\ k3 = 256 * k2 /\ k4 = 256 * k3 /\ k5 = 256 * k4 /\ k6 = 256 * k5
      /\ VarintEnd = 256 * k6 /\ k1 = 256 * 64
  BY Zenon DEF VarintEnd
<1>. HIDE DEF k1, k2, k3, k4, k5, k6
<1>2. k1 \in Nat /\ k2 \in Nat /\ k3 \in Nat /\ k4 \in Nat /\ k5 \in Nat /\ k6 \in Nat
  BY <1>1
<1>3. \A i \in 1 .. 8 : q[i - 1] \in Nat /\ q[i] = q[i - 1] \div 256
  BY DEF Quotients
<1>4. \A i \in 0 .. 7, b \in Nat : q[i] < 256 * b => q[i + 1] < b
  <2>. TAKE i \in 0 .. 7, b \in Nat
  <2>. HAVE q[i] < 256 * b
  <2>1. i + 1 \in 1 .. 8 /\ (i + 1) - 1 = i
    OBVIOUS
  <2>2. q[i] \in Nat /\ q[i + 1] = q[i] \div 256
    BY <1>3, <2>1
  <2>. QED
    BY <2>2, OneByteLess
<1>5. q[0] < 256 * k6
  BY <1>1 DEF Quotients
<1>6. q[1] < k6
  BY <1>2, <1>4, <1>5
<1>7. q[2] < k5
  BY <1>1, <1>2, <1>4, <1>6
<1>8. q[3] < k4
  BY <1>1, <1>2, <1>4, <1>7
<1>9. q[4] < k3
  BY <1>1, <1>2, <1>4, <1>8
<1>10. q[5] < k2
  BY <1>1, <1>2, <1>4, <1>9
<1>11. q[6] < k1
  BY <1>1, <1>2, <1>4, <1>10
<1>. QED
  BY <1>1, <1>4, <1>11

\* WriteQuicVarint: its length in the two high bits of the first byte, then bytes of v.
LEMMA VarintForm ==
  ASSUME NEW v \in Nat, v < VarintEnd, NEW q, Quotients(q, v)
  PROVE  /\ VarintLength(v) \in {1, 2, 4, 8} /\ q[VarintLength(v) - 1] \in 0 .. 63
         /\ WriteQuicVarint(v) =
              [i \in 1 .. VarintLength(v) |->
                 IF i = 1 THEN q[VarintLength(v) - 1] + LengthBits(VarintLength(v))
                 ELSE q[VarintLength(v) - i] % 256]
<1>. DEFINE n == VarintLength(v)
<1>1. n \in {1, 2, 4, 8}
  BY SMT DEF VarintLength
<1>2. q[n - 1] \in 0 .. 63
  <2>1. /\ q[0] = v /\ q[1] = q[0] \div 256 /\ q[2] = q[1] \div 256 /\ q[3] = q[2] \div 256
        /\ q[4] = q[3] \div 256 /\ q[5] = q[4] \div 256 /\ q[6] = q[5] \div 256
        /\ q[7] = q[6] \div 256
    BY DEF Quotients
  <2>6. q[0] \in Nat /\ q[1] \in Nat /\ q[2] \in Nat /\ q[3] \in Nat /\ q[7] \in Nat
    BY DEF Quotients
  <2>7. q[0] = v /\ q[1] = v \div 256 /\ q[3] = ((v \div 256) \div 256) \div 256
    <3>1. q[0] = v /\ q[1] = v \div 256
      BY <2>1, Zenon
    <3>2. q[2] = (v \div 256) \div 256
      BY <2>1, <3>1, ZenonT(40)
    <3>. QED
      BY <2>1, <3>1, <3>2, ZenonT(40)
  <2>2. CASE v <= 63
    <3>1. n = 1
      BY <2>2, SMT DEF VarintLength
    <3>2. q[0] \in 0 .. 63 /\ n - 1 = 0
      BY <2>2, <2>7, <3>1, SMT
    <3>. QED
      BY <3>2, Zenon
  <2>3. CASE v > 63 /\ v <= 16383
    <3>1. n = 2
      BY <2>3, SMT DEF VarintLength
    <3>2. q[1] \in 0 .. 63
      <4>1. \A a \in Nat : a <= 16383 => a \div 256 \in 0 .. 63
        BY SMT
      <4>. QED
        BY <2>3, <2>7, <4>1, SMT
    <3>3. n - 1 = 1
      BY <3>1, SMT
    <3>. QED
      BY <3>2, <3>3, Zenon
  <2>4. CASE v > 16383 /\ v <= 1073741823
    <3>1. n = 4
      BY <2>4, SMT DEF VarintLength
    <3>2. q[3] \in 0 .. 63
      <4>1. \A a \in Nat : a <= 1073741823 => ((a \div 256) \div 256) \div 256 \in 0 .. 63
        BY SMT
      <4>. QED
        BY <2>4, <2>7, <4>1, SMT
    <3>3. n - 1 = 3
      BY <3>1, SMT
    <3>. QED
      BY <3>2, <3>3, Zenon
  <2>5. CASE v > 1073741823
    <3>5. q[7] \in 0 .. 63
      BY <2>6, TopByte
    <3>6. n = 8
      BY <2>5, SMT DEF VarintLength
    <3>7. n - 1 = 7
      BY <3>6, SMT
    <3>. QED
      BY <3>5, <3>7, Zenon
  <2>. QED
    BY <2>2, <2>3, <2>4, <2>5, SMT
<1>4. n \in 0 .. 8
  BY <1>1
<1>3. BigEndian(n, v) = LowBytes(q, n)
  BY <1>4, BigEndianIs
<1>7. q[n - 1] % 256 = q[n - 1]
  BY <1>2
<1>5. WriteQuicVarint(v) = [BigEndian(n, v) EXCEPT ![1] = @ + LengthBits(n)]
  BY DEF WriteQuicVarint
<1>. HIDE DEF n
<1>6. [LowBytes(q, n) EXCEPT ![1] = @ + LengthBits(n)] =
        [i \in 1 .. n |-> IF i = 1 THEN q[n - 1] + LengthBits(n) ELSE q[n - i] % 256]
  BY <1>1, <1>7, SMTT(30) DEF LowBytes
<1>. QED
  BY <1>1, <1>2, <1>3, <1>5, <1>6 DEF n

\* WriteQuicVarint writes as many bytes as VarintLength says.
LEMMA VarintType ==
  ASSUME NEW v \in Nat, v < VarintEnd
  PROVE  WriteQuicVarint(v) \in Bytes /\ Len(WriteQuicVarint(v)) = VarintLength(v)
<1>. DEFINE n == VarintLength(v)
<1>1. PICK q : Quotients(q, v)
  BY QuotientsExist
<1>2. n \in {1, 2, 4, 8} /\ q[n - 1] \in 0 .. 63
  BY <1>1, VarintForm
<1>3. WriteQuicVarint(v) =
        [i \in 1 .. n |-> IF i = 1 THEN q[n - 1] + LengthBits(n) ELSE q[n - i] % 256]
  BY <1>1, VarintForm
<1>4. LengthBits(n) \in {0, 64, 128, 192}
  BY <1>2 DEF LengthBits
<1>. HIDE DEF n
<1>5. ASSUME NEW i \in 1 .. n
      PROVE  (IF i = 1 THEN q[n - 1] + LengthBits(n) ELSE q[n - i] % 256) \in Byte
  <2>1. CASE i = 1
    BY <1>2, <1>4, <2>1 DEF Byte
  <2>2. CASE i # 1
    <3>1. q[n - i] \in Nat
      BY <1>1, <1>2 DEF Quotients
    <3>. QED
      BY <2>2, <3>1 DEF Byte
  <2>. QED
    BY <2>1, <2>2
<1>. QED
  BY <1>2, <1>3, <1>5 DEF Bytes, n

\* The value a reader accumulates.
VarintReads(w, data, pos, n) ==
  /\ w \in [0 .. n - 1 -> Nat] /\ w[0] = data[pos] % 64
  /\ \A i \in 1 .. n - 1 : w[i] = 256 * w[i - 1] + data[pos + i]

\* The partial values of a reader exist.
LEMMA VarintReadsExist ==
  ASSUME NEW data \in Bytes, NEW pos \in Nat \ {0}, NEW n \in Nat \ {0}, pos + n - 1 <= Len(data)
  PROVE  \E w : VarintReads(w, data, pos, n)
<1>. DEFINE m == n - 1
            step == [p \in (1 .. m) \X Nat |-> 256 * p[2] + data[pos + p[1]]]
<1>1. ASSUME NEW i \in 0 .. m PROVE data[pos + i] \in Nat
  <2>1. pos + i \in 1 .. Len(data)
    BY DEF Bytes
  <2>2. data[pos + i] \in Byte
    BY <2>1 DEF Bytes
  <2>. QED
    BY <2>2, ByteIsNat
<1>2. Grows(Nat, data[pos] % 64, m, step)
  <2>0. pos + 0 = pos /\ 0 \in 0 .. m
    OBVIOUS
  <2>1. data[pos] % 64 \in Nat
    <3>1. data[pos] \in Nat
      BY <2>0, <1>1
    <3>. QED
      BY <3>1
  <2>2. step \in [(1 .. m) \X Nat -> Nat]
    <3>1. ASSUME NEW i \in 1 .. m, NEW w \in Nat PROVE 256 * w + data[pos + i] \in Nat
      <4>0. i \in 0 .. m
        OBVIOUS
      <4>1. data[pos + i] \in Nat
        BY <1>1, <4>0, Zenon
      <4>2. \A d \in Nat : 256 * w + d \in Nat
        OBVIOUS
      <4>. QED
        BY <4>1, <4>2
    <3>. QED
      BY <3>1, ZenonT(40)
  <2>. QED
    BY <2>1, <2>2 DEF Grows
<1>3. \A i \in 1 .. m, w \in Nat : step[<<i, w>>] = 256 * w + data[pos + i]
  OBVIOUS
<1>. HIDE DEF step, m
<1>4. PICK w : Grown(w, Nat, data[pos] % 64, m, step)
  BY <1>2, Iteration
<1>5. ASSUME NEW i \in 1 .. m PROVE w[i] = 256 * w[i - 1] + data[pos + i]
  <2>1. w[i - 1] \in Nat /\ w[i] = step[<<i, w[i - 1]>>]
    BY <1>4 DEF Grown, m
  <2>. QED
    BY <1>3, <2>1
<1>. QED
  BY <1>4, <1>5 DEF VarintReads, Grown, m

\* VarintValue is the last of them.
LEMMA VarintValueIs ==
  ASSUME NEW data \in Bytes, NEW pos \in Nat \ {0}, NEW n \in Nat \ {0}, pos + n - 1 <= Len(data),
         NEW w, VarintReads(w, data, pos, n)
  PROVE  VarintValue(data, pos, n) = w[n - 1]
<1>. DEFINE value[i \in 0 .. n - 1] ==
              IF i = 0 THEN data[pos] % 64 ELSE 256 * value[i - 1] + data[pos + i]
            T == {i \in Nat : i \in 0 .. n - 1 => value[i] = w[i]}
<1>1. w = [i \in 0 .. n - 1 |-> IF i = 0 THEN data[pos] % 64 ELSE 256 * w[i - 1] + data[pos + i]]
  <2>1. ASSUME NEW i \in 0 .. n - 1
        PROVE  w[i] = IF i = 0 THEN data[pos] % 64 ELSE 256 * w[i - 1] + data[pos + i]
    BY SMTT(30) DEF VarintReads
  <2>. QED
    BY <2>1 DEF VarintReads
<1>2. value = [i \in 0 .. n - 1 |->
                 IF i = 0 THEN data[pos] % 64 ELSE 256 * value[i - 1] + data[pos + i]]
  <2>1. \E f : f = [i \in 0 .. n - 1 |->
                      IF i = 0 THEN data[pos] % 64 ELSE 256 * f[i - 1] + data[pos + i]]
    BY <1>1, ZenonT(40)
  <2>. QED
    BY <2>1
<1>3. VarintValue(data, pos, n) = value[n - 1]
  BY DEF VarintValue
<1>. HIDE DEF value
<1>4. 0 \in T
  BY <1>1, <1>2
<1>5. ASSUME NEW i \in Nat, i \in T PROVE i + 1 \in T
  BY <1>1, <1>2, <1>5
<1>. HIDE DEF T
<1>6. \A i \in Nat : i \in T
  BY <1>4, <1>5, InductionSet
<1>. QED
  BY <1>3, <1>6 DEF T

\* Reading: how far, and a number.
LEMMA VarintRead ==
  ASSUME NEW data \in Bytes, NEW pos \in Nat \ {0}
  PROVE  LET r == ReadQuicVarint(data, pos) IN
         /\ r.n \in {0, 1, 2, 4, 8} /\ r.value \in Nat
         /\ r.n # 0 => pos + r.n - 1 <= Len(data)
<1>. DEFINE n == 2 ^ (data[pos] \div 64)
<1>1. CASE pos > Len(data) \/ pos + n - 1 > Len(data)
  <2>1. ReadQuicVarint(data, pos) = TooFew
    BY <1>1 DEF ReadQuicVarint
  <2>. QED
    BY <2>1 DEF TooFew
<1>2. CASE ~(pos > Len(data) \/ pos + n - 1 > Len(data))
  <2>1. ReadQuicVarint(data, pos) = [n |-> n, value |-> VarintValue(data, pos, n)]
    BY <1>2 DEF ReadQuicVarint
  <2>2. data[pos] \in Byte
    BY <1>2 DEF Bytes
  <2>3. data[pos] \div 64 \in 0 .. 3
    BY <2>2 DEF Byte
  <2>4. n \in {1, 2, 4, 8}
    BY <2>3, LengthOfVarint
  <2>. HIDE DEF n
  <2>9. n \in Nat \ {0}
    BY <2>4
  <2>5. pos + n - 1 <= Len(data)
    BY <1>2, <2>4 DEF Bytes
  <2>6. PICK w : VarintReads(w, data, pos, n)
    BY <2>4, <2>5, <2>9, VarintReadsExist, Zenon
  <2>7. VarintValue(data, pos, n) = w[n - 1]
    BY <2>5, <2>6, <2>9, VarintValueIs, Zenon
  <2>8. w[n - 1] \in Nat
    BY <2>6, <2>9 DEF VarintReads
  <2>. QED
    BY <2>1, <2>4, <2>5, <2>7, <2>8
<1>. QED
  BY <1>1, <1>2

\* Two texts one after the other.
LEMMA LiesAtParts ==
  ASSUME NEW s \in Bytes, NEW t \in Bytes, NEW data \in Bytes, NEW pos, LiesAt(s \o t, data, pos)
  PROVE  LiesAt(s, data, pos) /\ LiesAt(t, data, pos + Len(s))
<1>1. /\ Len(s) \in Nat /\ Len(t) \in Nat /\ Len(data) \in Nat /\ Len(s \o t) = Len(s) + Len(t)
      /\ pos \in 1 .. Len(data) + 1 /\ pos + Len(s) + Len(t) - 1 <= Len(data)
  BY DEF LiesAt, Bytes
<1>2. ASSUME NEW k \in 1 .. Len(s) PROVE data[pos + k - 1] = s[k]
  <2>1. k \in 1 .. Len(s \o t) /\ (s \o t)[k] = s[k]
    BY <1>1 DEF Bytes
  <2>. QED
    BY <2>1 DEF LiesAt
<1>3. ASSUME NEW k \in 1 .. Len(t) PROVE data[pos + Len(s) + k - 1] = t[k]
  <2>1. Len(s) + k \in 1 .. Len(s \o t) /\ (s \o t)[Len(s) + k] = t[k]
    BY <1>1 DEF Bytes
  <2>2. data[pos + (Len(s) + k) - 1] = (s \o t)[Len(s) + k]
    BY <2>1 DEF LiesAt
  <2>3. pos + (Len(s) + k) - 1 = pos + Len(s) + k - 1
    BY <1>1
  <2>. QED
    BY <2>1, <2>2, <2>3
<1>. QED
  BY <1>1, <1>2, <1>3 DEF LiesAt

\* A text lies at its own first place.
LEMMA LiesAtWhole ==
  ASSUME NEW s \in Bytes
  PROVE  LiesAt(s, s, 1)
BY DEF LiesAt, Bytes

\* What is written is read, from wherever it lies.
THEOREM VarintRoundTrip ==
  ASSUME NEW v \in Nat, v < VarintEnd, NEW data \in Bytes, NEW pos \in Nat \ {0},
         LiesAt(WriteQuicVarint(v), data, pos)
  PROVE  ReadQuicVarint(data, pos) = [n |-> Len(WriteQuicVarint(v)), value |-> v]
<1>. DEFINE n == VarintLength(v)
<1>1. PICK q : Quotients(q, v)
  BY QuotientsExist
<1>2. n \in {1, 2, 4, 8} /\ q[n - 1] \in 0 .. 63
  BY <1>1, VarintForm
<1>3. WriteQuicVarint(v) =
        [i \in 1 .. n |-> IF i = 1 THEN q[n - 1] + LengthBits(n) ELSE q[n - i] % 256]
  BY <1>1, VarintForm
<1>4. Len(WriteQuicVarint(v)) = n
  BY VarintType
<1>5. \A i \in 0 .. 8 : q[i] \in Nat
  BY <1>1 DEF Quotients
<1>6. \A i \in 1 .. 8 : q[i - 1] = 256 * q[i] + (q[i - 1] % 256)
  <2>. TAKE i \in 1 .. 8
  <2>1. i - 1 \in 0 .. 8 /\ i \in 0 .. 8
    OBVIOUS
  <2>2. q[i] = q[i - 1] \div 256 /\ q[i - 1] \in Nat
    BY <1>1, <1>5, <2>1 DEF Quotients
  <2>. QED
    BY <2>2
<1>. HIDE DEF n
<1>7. /\ pos + n - 1 <= Len(data) /\ pos <= Len(data) /\ n \in Nat \ {0}
      /\ \A k \in 1 .. n : data[pos + k - 1] =
                             IF k = 1 THEN q[n - 1] + LengthBits(n) ELSE q[n - k] % 256
  <2>1. pos + n - 1 <= Len(data) /\ n \in Nat \ {0} /\ Len(data) \in Nat
    BY <1>2, <1>4 DEF LiesAt, Bytes
  <2>2. ASSUME NEW k \in 1 .. n
        PROVE  data[pos + k - 1] = IF k = 1 THEN q[n - 1] + LengthBits(n) ELSE q[n - k] % 256
    BY <1>3, <1>4, ZenonT(40) DEF LiesAt
  <2>. QED
    BY <2>1, <2>2
<1>8. data[pos] = q[n - 1] + LengthBits(n)
  <2>1. 1 \in 1 .. n /\ pos + 1 - 1 = pos
    BY <1>7
  <2>. QED
    BY <1>7, <2>1
<1>9. data[pos] % 64 = q[n - 1] /\ 2 ^ (data[pos] \div 64) = n
  <2>1. CASE n = 1
    <3>1. data[pos] % 64 = q[n - 1] /\ data[pos] \div 64 = 0
      BY <1>2, <1>8, <2>1 DEF LengthBits
    <3>. QED
      BY <2>1, <3>1, LengthOfVarint
  <2>2. CASE n = 2
    <3>1. data[pos] % 64 = q[n - 1] /\ data[pos] \div 64 = 1
      BY <1>2, <1>8, <2>2 DEF LengthBits
    <3>. QED
      BY <2>2, <3>1, LengthOfVarint
  <2>3. CASE n = 4
    <3>1. data[pos] % 64 = q[n - 1] /\ data[pos] \div 64 = 2
      BY <1>2, <1>8, <2>3 DEF LengthBits
    <3>. QED
      BY <2>3, <3>1, LengthOfVarint
  <2>4. CASE n = 8
    <3>1. data[pos] % 64 = q[n - 1] /\ data[pos] \div 64 = 3
      BY <1>2, <1>8, <2>4 DEF LengthBits
    <3>. QED
      BY <2>4, <3>1, LengthOfVarint
  <2>. QED
    BY <1>2, <2>1, <2>2, <2>3, <2>4
<1>10. ReadQuicVarint(data, pos) = [n |-> n, value |-> VarintValue(data, pos, n)]
  <2>1. ~(pos > Len(data)) /\ ~(pos + n - 1 > Len(data))
    BY <1>7 DEF Bytes
  <2>. QED
    BY <1>9, <2>1 DEF ReadQuicVarint
<1>. DEFINE w == [i \in 0 .. n - 1 |-> q[n - 1 - i]]
<1>11. VarintReads(w, data, pos, n)
  <2>1. w \in [0 .. n - 1 -> Nat]
    BY <1>2, <1>5
  <2>2. w[0] = data[pos] % 64
    BY <1>7, <1>9
  <2>3. ASSUME NEW i \in 1 .. n - 1 PROVE w[i] = 256 * w[i - 1] + data[pos + i]
    <3>1. i + 1 \in 1 .. n /\ i + 1 # 1 /\ pos + (i + 1) - 1 = pos + i
      BY <1>7
    <3>2. data[pos + i] = q[n - (i + 1)] % 256
      BY <1>7, <3>1, ZenonT(40)
    <3>3. n - i \in 1 .. 8 /\ (n - i) - 1 = n - (i + 1) /\ n - 1 - i = n - (i + 1)
          /\ n - 1 - (i - 1) = n - i
      BY <1>2
    <3>4. q[(n - i) - 1] = 256 * q[n - i] + (q[(n - i) - 1] % 256)
      BY <1>6, <3>3
    <3>5. w[i] = q[n - 1 - i] /\ w[i - 1] = q[n - 1 - (i - 1)]
      BY <1>7
    <3>. HIDE DEF w
    <3>. QED
      BY <3>2, <3>3, <3>4, <3>5
  <2>. QED
    BY <2>1, <2>2, <2>3 DEF VarintReads
<1>12. VarintValue(data, pos, n) = w[n - 1]
  BY <1>7, <1>11, VarintValueIs
<1>13. w[n - 1] = v
  <2>1. n - 1 \in 0 .. n - 1 /\ n - 1 - (n - 1) = 0
    BY <1>7
  <2>2. w[n - 1] = q[n - 1 - (n - 1)]
    BY <2>1
  <2>. QED
    BY <1>1, <2>1, <2>2 DEF Quotients
<1>. QED
  BY <1>4, <1>10, <1>12, <1>13

-----------------------------------------------------------------------------
(* Integers of QPACK. *)

\* What holds of a number when it holds of all that are smaller holds of every number.
LEMMA StrongInduction ==
  ASSUME NEW T, \A n \in Nat : (\A m \in Nat : m < n => m \in T) => n \in T
  PROVE  \A n \in Nat : n \in T
<1>. SUFFICES ASSUME Nat \ T # {} PROVE FALSE
  OBVIOUS
<1>1. PICK x \in Nat \ T : \A y \in Nat \ T : x <= y
  BY LeastNatural
<1>2. ASSUME NEW m \in Nat, m < x PROVE m \in T
  BY <1>1, <1>2
<1>. QED
  BY <1>1, <1>2

\* The continuations of the numbers up to n.
Continues(r, n) ==
  /\ r \in [0 .. n -> Bytes]
  /\ \A w \in 0 .. n : r[w] = IF w < 128 THEN <<w>> ELSE <<128 + (w % 128)>> \o r[w \div 128]

\* Seven bits taken off a number of eight or more.
LEMMA Shorter ==
  ASSUME NEW w \in Nat, w >= 128
  PROVE  w \div 128 \in Nat /\ w \div 128 < w /\ w = 128 * (w \div 128) + (w % 128)
         /\ w % 128 \in 0 .. 127
OBVIOUS

\* What a continuation writes is bytes.
LEMMA ContinuationByte ==
  ASSUME NEW w \in Nat
  PROVE  (w < 128 => <<w>> \in Bytes) /\ <<128 + (w % 128)>> \in Bytes
<1>1. w % 128 \in 0 .. 127
  OBVIOUS
<1>2. 128 + (w % 128) \in Byte
  BY <1>1 DEF Byte
<1>3. w < 128 => w \in Byte
  BY DEF Byte
<1>. QED
  BY <1>2, <1>3 DEF Bytes

\* The continuations of all numbers up to n exist.
LEMMA ContinuesExist ==
  ASSUME NEW n \in Nat
  PROVE  \E r : Continues(r, n)
<1>. DEFINE D == 0 .. n
            rank == [w \in D |-> w]
            F == [p \in D \X [D -> Bytes] |->
                    IF p[1] < 128 THEN <<p[1]>> ELSE <<128 + (p[1] % 128)>> \o p[2][p[1] \div 128]]
<1>1. rank \in [D -> Nat]
  OBVIOUS
<1>2. ASSUME NEW w \in D, ~(w < 128) PROVE w \div 128 \in D /\ rank[w \div 128] < rank[w]
  BY <1>2, Shorter
<1>3. F \in [D \X [D -> Bytes] -> Bytes]
  <2>. SUFFICES ASSUME NEW w \in D, NEW g \in [D -> Bytes]
                PROVE  (IF w < 128 THEN <<w>> ELSE <<128 + (w % 128)>> \o g[w \div 128]) \in Bytes
    OBVIOUS
  <2>1. CASE w < 128
    <3>0. w \in Nat
      OBVIOUS
    <3>1. <<w>> \in Bytes
      BY <2>1, <3>0, ContinuationByte
    <3>. QED
      BY <2>1, <3>1, Zenon
  <2>2. CASE ~(w < 128)
    <3>1. g[w \div 128] \in Bytes /\ <<128 + (w % 128)>> \in Bytes
      BY <1>2, <2>2, ContinuationByte
    <3>2. <<128 + (w % 128)>> \o g[w \div 128] \in Bytes
      BY <3>1 DEF Bytes
    <3>. QED
      BY <2>2, <3>2
  <2>. QED
    BY <2>1, <2>2
<1>4. \A w \in D, g \in [D -> Bytes] :
        F[<<w, g>>] = IF w < 128 THEN <<w>> ELSE <<128 + (w % 128)>> \o g[w \div 128]
  OBVIOUS
<1>. HIDE DEF D, rank, F
<1>5. ASSUME NEW w \in D, NEW g \in [D -> Bytes], NEW h \in [D -> Bytes],
             \A y \in D : rank[y] < rank[w] => g[y] = h[y]
      PROVE  F[<<w, g>>] = F[<<w, h>>]
  <2>1. CASE w < 128
    <3>1. F[<<w, g>>] = <<w>> /\ F[<<w, h>>] = <<w>>
      BY <1>4, <2>1, Zenon
    <3>. QED
      BY <3>1
  <2>2. CASE ~(w < 128)
    <3>1. g[w \div 128] = h[w \div 128]
      BY <1>2, <1>5, <2>2
    <3>2. /\ F[<<w, g>>] = <<128 + (w % 128)>> \o g[w \div 128]
          /\ F[<<w, h>>] = <<128 + (w % 128)>> \o h[w \div 128]
      BY <1>4, <2>2, ZenonT(40)
    <3>. QED
      BY <3>1, <3>2
  <2>. QED
    BY <2>1, <2>2
<1>6. Descends(D, Bytes, rank, F)
  <2>1. Bytes # {}
    BY EmptySeq DEF Bytes
  <2>. QED
    BY <1>1, <1>3, <1>5, <2>1 DEF Descends
<1>7. PICK r : Solves(r, D, Bytes, F)
  BY <1>6, Recursion
<1>8. \A w \in D : r[w] = IF w < 128 THEN <<w>> ELSE <<128 + (w % 128)>> \o r[w \div 128]
  BY <1>4, <1>7, ZenonT(40) DEF Solves
<1>. QED
  BY <1>7, <1>8, ZenonT(40) DEF Solves, Continues, D

\* Continuation does not depend on how far the function goes.
LEMMA ContinuationIs ==
  ASSUME NEW v \in Nat, NEW n \in Nat, v <= n, NEW r, Continues(r, n)
  PROVE  Continuation(v) = r[v]
<1>. DEFINE rest[w \in 0 .. v] ==
              IF w < 128 THEN <<w>> ELSE <<128 + (w % 128)>> \o rest[w \div 128]
            g == [w \in 0 .. v |-> r[w]]
            T == {w \in Nat : w <= v => rest[w] = r[w]}
<1>1. g = [w \in 0 .. v |-> IF w < 128 THEN <<w>> ELSE <<128 + (w % 128)>> \o g[w \div 128]]
  <2>1. ASSUME NEW w \in 0 .. v
        PROVE  g[w] = IF w < 128 THEN <<w>> ELSE <<128 + (w % 128)>> \o g[w \div 128]
    <3>0. w \in 0 .. n
      OBVIOUS
    <3>1. r[w] = IF w < 128 THEN <<w>> ELSE <<128 + (w % 128)>> \o r[w \div 128]
      BY <3>0, Zenon DEF Continues
    <3>2. ~(w < 128) => w \div 128 \in 0 .. v
      BY Shorter
    <3>. QED
      BY <3>1, <3>2
  <2>. QED
    BY <2>1
<1>2. rest = [w \in 0 .. v |-> IF w < 128 THEN <<w>> ELSE <<128 + (w % 128)>> \o rest[w \div 128]]
  <2>. HIDE DEF g
  <2>1. \E h : h = [w \in 0 .. v |-> IF w < 128 THEN <<w>> ELSE <<128 + (w % 128)>> \o h[w \div 128]]
    BY <1>1
  <2>. QED
    BY <2>1
<1>3. Continuation(v) = rest[v]
  BY DEF Continuation
<1>. HIDE DEF rest, g
<1>4. ASSUME NEW w \in Nat, \A m \in Nat : m < w => m \in T PROVE w \in T
  <2>. SUFFICES ASSUME w <= v PROVE rest[w] = r[w]
    OBVIOUS
  <2>0. w \in 0 .. v /\ w \in 0 .. n
    OBVIOUS
  <2>1. rest[w] = IF w < 128 THEN <<w>> ELSE <<128 + (w % 128)>> \o rest[w \div 128]
    BY <1>2, <2>0, Zenon
  <2>2. r[w] = IF w < 128 THEN <<w>> ELSE <<128 + (w % 128)>> \o r[w \div 128]
    BY <2>0, Zenon DEF Continues
  <2>3. ~(w < 128) => rest[w \div 128] = r[w \div 128]
    BY <1>4, Shorter
  <2>. QED
    BY <2>1, <2>2, <2>3
<1>. HIDE DEF T
<1>5. \A w \in Nat : w \in T
  BY <1>4, StrongInduction
<1>. QED
  BY <1>3, <1>5 DEF T

\* Continuation, one byte at a time.
LEMMA ContinuationStep ==
  ASSUME NEW v \in Nat
  PROVE  /\ Continuation(v) \in Bytes
         /\ v < 128 => Continuation(v) = <<v>>
         /\ v >= 128 => Continuation(v) = <<128 + (v % 128)>> \o Continuation(v \div 128)
<1>1. PICK r : Continues(r, v)
  BY ContinuesExist
<1>2. Continuation(v) = r[v]
  BY <1>1, ContinuationIs
<1>3. ASSUME v >= 128 PROVE Continuation(v \div 128) = r[v \div 128]
  <2>1. v \div 128 \in Nat /\ v \div 128 <= v
    BY <1>3, Shorter
  <2>. QED
    BY <1>1, <2>1, ContinuationIs
<1>4. r[v] \in Bytes /\ r[v] = IF v < 128 THEN <<v>> ELSE <<128 + (v % 128)>> \o r[v \div 128]
  BY <1>1 DEF Continues
<1>. QED
  BY <1>2, <1>3, <1>4

\* What the bytes from each place to last say.
Says(w, data, first, last) ==
  /\ w \in [first .. last -> Nat]
  /\ \A i \in first .. last :
       w[i] = IF i = last THEN data[i] ELSE (data[i] % 128) + 128 * w[i + 1]

\* The values of the tails of a continuation exist.
LEMMA SaysExist ==
  ASSUME NEW data \in Bytes, NEW first \in Nat \ {0}, NEW last \in first .. Len(data)
  PROVE  \E w : Says(w, data, first, last)
<1>. DEFINE D == first .. last
            rank == [i \in D |-> last - i]
            F == [p \in D \X [D -> Nat] |->
                    IF p[1] = last THEN data[p[1]] ELSE (data[p[1]] % 128) + 128 * p[2][p[1] + 1]]
<1>0. first \in Nat /\ last \in Nat /\ Len(data) \in Nat
  BY DEF Bytes
<1>1. rank \in [D -> Nat]
  BY <1>0
<1>2. ASSUME NEW i \in D, i # last PROVE i + 1 \in D /\ rank[i + 1] < rank[i]
  BY <1>0, <1>2
<1>3. ASSUME NEW i \in D PROVE data[i] \in Nat /\ data[i] % 128 \in Nat
  <2>1. i \in 1 .. Len(data)
    BY <1>0
  <2>2. data[i] \in Byte
    BY <2>1 DEF Bytes
  <2>3. data[i] \in Nat
    BY <2>2, ByteIsNat
  <2>. QED
    BY <2>3
<1>4. F \in [D \X [D -> Nat] -> Nat]
  <2>. SUFFICES ASSUME NEW i \in D, NEW g \in [D -> Nat]
                PROVE  (IF i = last THEN data[i] ELSE (data[i] % 128) + 128 * g[i + 1]) \in Nat
    BY ZenonT(40)
  <2>. HIDE DEF D
  <2>1. CASE i = last
    BY <1>3, <2>1
  <2>2. CASE i # last
    <3>1. g[i + 1] \in Nat /\ data[i] % 128 \in Nat
      BY <1>2, <1>3, <2>2
    <3>2. \A a, b \in Nat : a + 128 * b \in Nat
      OBVIOUS
    <3>. QED
      BY <2>2, <3>1, <3>2
  <2>. QED
    BY <2>1, <2>2
<1>5. \A i \in D, g \in [D -> Nat] :
        F[<<i, g>>] = IF i = last THEN data[i] ELSE (data[i] % 128) + 128 * g[i + 1]
  OBVIOUS
<1>. HIDE DEF D, rank, F
<1>6. ASSUME NEW i \in D, NEW g \in [D -> Nat], NEW h \in [D -> Nat],
             \A y \in D : rank[y] < rank[i] => g[y] = h[y]
      PROVE  F[<<i, g>>] = F[<<i, h>>]
  <2>1. CASE i = last
    <3>1. F[<<i, g>>] = data[i] /\ F[<<i, h>>] = data[i]
      BY <1>5, <2>1, Zenon
    <3>. QED
      BY <3>1
  <2>2. CASE i # last
    <3>1. g[i + 1] = h[i + 1]
      BY <1>2, <1>6, <2>2
    <3>2. /\ F[<<i, g>>] = (data[i] % 128) + 128 * g[i + 1]
          /\ F[<<i, h>>] = (data[i] % 128) + 128 * h[i + 1]
      BY <1>5, <2>2, ZenonT(40)
    <3>. QED
      BY <3>1, <3>2
  <2>. QED
    BY <2>1, <2>2
<1>7. Descends(D, Nat, rank, F)
  BY <1>1, <1>4, <1>6 DEF Descends
<1>8. PICK w : Solves(w, D, Nat, F)
  BY <1>7, Recursion
<1>9. \A i \in D : w[i] = IF i = last THEN data[i] ELSE (data[i] % 128) + 128 * w[i + 1]
  BY <1>5, <1>8, ZenonT(40) DEF Solves
<1>. QED
  BY <1>8, <1>9 DEF Solves, Says, D

\* ContinuationValue is the one of the whole.
LEMMA ContinuationValueIs ==
  ASSUME NEW data \in Bytes, NEW first \in Nat \ {0}, NEW last \in first .. Len(data),
         NEW k \in first .. last, NEW w, Says(w, data, first, last)
  PROVE  ContinuationValue(data, k, last) = w[k]
<1>. DEFINE value[i \in k .. last] ==
              IF i = last THEN data[i] ELSE (data[i] % 128) + 128 * value[i + 1]
            g == [i \in k .. last |-> w[i]]
            T == {d \in Nat : last - d >= k => value[last - d] = w[last - d]}
<1>0. first \in Nat /\ last \in Nat /\ k \in Nat
  BY DEF Bytes
<1>1. g = [i \in k .. last |-> IF i = last THEN data[i] ELSE (data[i] % 128) + 128 * g[i + 1]]
  <2>1. ASSUME NEW i \in k .. last
        PROVE  g[i] = IF i = last THEN data[i] ELSE (data[i] % 128) + 128 * g[i + 1]
    <3>0. i \in first .. last
      BY <1>0
    <3>1. w[i] = IF i = last THEN data[i] ELSE (data[i] % 128) + 128 * w[i + 1]
      BY <3>0, Zenon DEF Says
    <3>2. i # last => i + 1 \in k .. last
      BY <1>0
    <3>. QED
      BY <3>1, <3>2
  <2>. QED
    BY <2>1
<1>2. value = [i \in k .. last |->
                 IF i = last THEN data[i] ELSE (data[i] % 128) + 128 * value[i + 1]]
  <2>. HIDE DEF g
  <2>1. \E h : h = [i \in k .. last |->
                      IF i = last THEN data[i] ELSE (data[i] % 128) + 128 * h[i + 1]]
    BY <1>1
  <2>. QED
    BY <2>1
<1>3. ContinuationValue(data, k, last) = value[k]
  BY DEF ContinuationValue
<1>. HIDE DEF value, g
<1>4. 0 \in T
  <2>1. last - 0 = last /\ last \in k .. last /\ last \in first .. last
    BY <1>0
  <2>2. value[last] = data[last] /\ w[last] = data[last]
    BY <1>2, <2>1 DEF Says
  <2>. QED
    BY <2>1, <2>2
<1>5. ASSUME NEW d \in Nat, d \in T PROVE d + 1 \in T
  <2>. SUFFICES ASSUME last - (d + 1) >= k PROVE value[last - (d + 1)] = w[last - (d + 1)]
    OBVIOUS
  <2>. DEFINE i == last - (d + 1)
  <2>1. i \in k .. last /\ i \in first .. last /\ i # last /\ i + 1 = last - d /\ last - d >= k
    BY <1>0
  <2>. HIDE DEF i
  <2>2. value[i] = (data[i] % 128) + 128 * value[i + 1]
    BY <1>2, <2>1
  <2>3. w[i] = (data[i] % 128) + 128 * w[i + 1]
    BY <2>1, Zenon DEF Says
  <2>4. value[i + 1] = w[i + 1]
    BY <1>5, <2>1
  <2>5. value[i] = w[i]
    BY <2>2, <2>3, <2>4
  <2>. QED
    BY <2>5 DEF i
<1>. HIDE DEF T
<1>6. \A d \in Nat : d \in T
  BY <1>4, <1>5, InductionSet
<1>7. last - k \in Nat /\ last - (last - k) = k
  BY <1>0
<1>8. value[k] = w[k]
  <2>. DEFINE d == last - k
  <2>1. d \in T /\ d \in Nat /\ last - d = k
    BY <1>6, <1>7
  <2>. HIDE DEF d
  <2>2. last - d >= k => value[last - d] = w[last - d]
    BY <2>1 DEF T
  <2>3. last - d >= k
    BY <1>0, <2>1
  <2>. QED
    BY <2>1, <2>2, <2>3
<1>. QED
  BY <1>3, <1>8

\* ContinuationValue, one byte at a time.
LEMMA ContinuationValueStep ==
  ASSUME NEW data \in Bytes, NEW first \in Nat \ {0}, NEW last \in first .. Len(data)
  PROVE  /\ ContinuationValue(data, first, last) \in Nat
         /\ first = last => ContinuationValue(data, first, last) = data[first]
         /\ first # last => ContinuationValue(data, first, last) =
                              (data[first] % 128) + 128 * ContinuationValue(data, first + 1, last)
<1>1. PICK w : Says(w, data, first, last)
  BY SaysExist
<1>2. ASSUME NEW k \in first .. last PROVE ContinuationValue(data, k, last) = w[k]
  BY <1>1, ContinuationValueIs
<1>3. first \in first .. last /\ (first # last => first + 1 \in first .. last)
  BY DEF Bytes
<1>4. w[first] \in Nat
      /\ w[first] = IF first = last THEN data[first] ELSE (data[first] % 128) + 128 * w[first + 1]
  BY <1>1, <1>3 DEF Says
<1>. QED
  BY <1>2, <1>3, <1>4

\* The bytes of data from first on are a continuation that says v.
Continued(data, first, v) ==
  \E last \in first .. Len(data) :
    /\ last = first + Len(Continuation(v)) - 1
    /\ \A k \in first .. last - 1 : data[k] \notin 0 .. 127
    /\ data[last] \in 0 .. 127
    /\ ContinuationValue(data, first, last) = v

\* The bytes of Continuation(v) end at the first byte below 128 and say v.
LEMMA ContinuationRoundTrip ==
  ASSUME NEW v \in Nat, NEW data \in Bytes, NEW first \in Nat \ {0},
         LiesAt(Continuation(v), data, first)
  PROVE  Continued(data, first, v)
<1>. DEFINE T == {n \in Nat : \A d \in Bytes, f \in Nat \ {0} :
                    LiesAt(Continuation(n), d, f) => Continued(d, f, n)}
<1>1. ASSUME NEW n \in Nat, \A m \in Nat : m < n => m \in T PROVE n \in T
  <2>. SUFFICES ASSUME NEW d \in Bytes, NEW f \in Nat \ {0}, LiesAt(Continuation(n), d, f)
                PROVE  Continued(d, f, n)
    OBVIOUS
  <2>0. Len(d) \in Nat
    BY DEF Bytes
  <2>1. CASE n < 128
    <3>1. Continuation(n) = <<n>>
      BY <2>1, ContinuationStep
    <3>2. f <= Len(d) /\ d[f] = n
      <4>1. f + 1 - 1 <= Len(d) /\ d[f + 1 - 1] = n
        BY <3>1 DEF LiesAt
      <4>. QED
        BY <2>0, <4>1
    <3>3. f \in f .. Len(d) /\ f = f + Len(Continuation(n)) - 1
      BY <2>0, <3>1, <3>2
    <3>4. ContinuationValue(d, f, f) = n
      BY <3>2, <3>3, ContinuationValueStep
    <3>5. \A k \in f .. f - 1 : d[k] \notin 0 .. 127
      OBVIOUS
    <3>6. d[f] \in 0 .. 127
      BY <2>1, <3>2
    <3>. QED
      BY <3>3, <3>4, <3>5, <3>6, Zenon DEF Continued
  <2>2. CASE ~(n < 128)
    <3>. DEFINE m == n \div 128
                b == 128 + (n % 128)
    <3>1. m \in Nat /\ m < n /\ n = 128 * m + (n % 128) /\ n % 128 \in 0 .. 127
      BY <2>2, Shorter
    <3>2. Continuation(n) = <<b>> \o Continuation(m)
      BY <2>2, ContinuationStep, SMTT(30)
    <3>. HIDE DEF m
    <3>3. Continuation(m) \in Bytes /\ <<b>> \in Bytes /\ Len(<<b>>) = 1
      BY <3>1, ContinuationStep, ContinuationByte
    <3>. HIDE DEF b
    <3>4. LiesAt(<<b>>, d, f) /\ LiesAt(Continuation(m), d, f + 1)
      <4>1. LiesAt(<<b>> \o Continuation(m), d, f)
        BY <3>2
      <4>2. LiesAt(<<b>>, d, f) /\ LiesAt(Continuation(m), d, f + Len(<<b>>))
        BY <3>3, <4>1, LiesAtParts
      <4>. QED
        BY <3>3, <4>2
    <3>5. d[f] = b
      <4>1. d[f + 1 - 1] = b
        BY <3>4 DEF LiesAt
      <4>2. f + 1 - 1 = f
        OBVIOUS
      <4>. QED
        BY <4>1, <4>2
    <3>6. m \in T
      BY <1>1, <3>1
    <3>7. Continued(d, f + 1, m)
      BY <3>4, <3>6
    <3>8. PICK last \in f + 1 .. Len(d) :
            /\ last = f + 1 + Len(Continuation(m)) - 1
            /\ \A k \in f + 1 .. last - 1 : d[k] \notin 0 .. 127
            /\ d[last] \in 0 .. 127
            /\ ContinuationValue(d, f + 1, last) = m
      BY <3>7, Zenon DEF Continued
    <3>9. last \in f .. Len(d) /\ f # last /\ last \in Nat
      BY <2>0
    <3>10. last = f + Len(Continuation(n)) - 1
      <4>1. Len(Continuation(n)) = 1 + Len(Continuation(m)) /\ Len(Continuation(m)) \in Nat
        BY <3>2, <3>3 DEF Bytes
      <4>. QED
        BY <3>8, <4>1
    <3>11. ASSUME NEW k \in f .. last - 1 PROVE d[k] \notin 0 .. 127
      <4>1. CASE k = f
        <5>1. b \notin 0 .. 127
          BY <3>1 DEF b
        <5>. QED
          BY <3>5, <4>1, <5>1
      <4>2. CASE k # f
        <5>1. k \in f + 1 .. last - 1
          BY <3>9, <4>2
        <5>. QED
          BY <3>8, <5>1
      <4>. QED
        BY <4>1, <4>2
    <3>12. ContinuationValue(d, f, last) = n
      <4>1. ContinuationValue(d, f, last) = (d[f] % 128) + 128 * ContinuationValue(d, f + 1, last)
        BY <3>9, ContinuationValueStep
      <4>2. d[f] % 128 = n % 128
        BY <3>1, <3>5 DEF b
      <4>3. ContinuationValue(d, f, last) = (n % 128) + 128 * m
        BY <3>8, <4>1, <4>2
      <4>. QED
        BY <3>1, <4>3
    <3>. QED
      BY <3>8, <3>9, <3>10, <3>11, <3>12, Zenon DEF Continued
  <2>. QED
    BY <2>1, <2>2
<1>. HIDE DEF T
<1>2. \A n \in Nat : n \in T
  BY <1>1, StrongInduction
<1>. QED
  BY <1>2 DEF T

\* The prefixes the code uses.
PrefixMost(bits) == IF bits = 3 THEN 7 ELSE IF bits = 4 THEN 15 ELSE IF bits = 6 THEN 63 ELSE 127

\* The powers of two of the four prefixes QPACK uses.
LEMMA PrefixBits ==
  ASSUME NEW bits \in {3, 4, 6, 7}
  PROVE  2 ^ bits = PrefixMost(bits) + 1 /\ 2 ^ bits - 1 = PrefixMost(bits)
         /\ PrefixMost(bits) \in {7, 15, 63, 127}
<1>1. CASE bits = 3
  BY <1>1 DEF PrefixMost
<1>2. CASE bits = 4
  BY <1>2 DEF PrefixMost
<1>3. CASE bits = 6
  BY <1>3 DEF PrefixMost
<1>4. CASE bits = 7
  BY <1>4 DEF PrefixMost
<1>. QED
  BY <1>1, <1>2, <1>3, <1>4

\* The fixed bits lie above the prefix.
FixedBits(bits) == {f \in 0 .. 255 : f % (PrefixMost(bits) + 1) = 0}

\* WriteQpackInt writes bytes, at least one, where the fixed bits leave the prefix free.
LEMMA QpackIntType ==
  ASSUME NEW bits \in {3, 4, 6, 7}, NEW fixed \in FixedBits(bits), NEW v \in Nat
  PROVE  WriteQpackInt(bits, fixed, v) \in Bytes /\ WriteQpackInt(bits, fixed, v) # <<>>
<1>. DEFINE most == PrefixMost(bits)
<1>1. 2 ^ bits - 1 = most /\ most \in {7, 15, 63, 127}
  BY PrefixBits
<1>2. \A x \in 0 .. most : fixed + x \in Byte
  <2>1. CASE most = 7
    BY <2>1 DEF FixedBits, Byte
  <2>2. CASE most = 15
    BY <2>2 DEF FixedBits, Byte
  <2>3. CASE most = 63
    BY <2>3 DEF FixedBits, Byte
  <2>4. CASE most = 127
    BY <2>4 DEF FixedBits, Byte
  <2>. QED
    BY <1>1, <2>1, <2>2, <2>3, <2>4
<1>. HIDE DEF most
<1>3. WriteQpackInt(bits, fixed, v) =
        IF v < most THEN <<fixed + v>> ELSE <<fixed + most>> \o Continuation(v - most)
  BY <1>1 DEF WriteQpackInt
<1>4. CASE v < most
  <2>1. fixed + v \in Byte
    BY <1>1, <1>2, <1>4
  <2>. QED
    BY <1>3, <1>4, <2>1 DEF Bytes
<1>5. CASE ~(v < most)
  <2>1. fixed + most \in Byte /\ v - most \in Nat
    BY <1>1, <1>2, <1>5
  <2>2. Continuation(v - most) \in Bytes
    BY <2>1, ContinuationStep
  <2>. QED
    BY <1>3, <1>5, <2>1, <2>2 DEF Bytes
<1>. QED
  BY <1>4, <1>5

\* ReadQpackInt reads back what WriteQpackInt wrote, whatever surrounds it, for every
\* number, and the fixed bits of the first byte survive.
THEOREM QpackIntRoundTrip ==
  ASSUME NEW bits \in {3, 4, 6, 7}, NEW fixed \in FixedBits(bits), NEW v \in Nat,
         NEW data \in Bytes, NEW pos \in Nat \ {0},
         LiesAt(WriteQpackInt(bits, fixed, v), data, pos)
  PROVE  /\ ReadQpackInt(data, pos, bits) = [n |-> Len(WriteQpackInt(bits, fixed, v)), value |-> v]
         /\ data[pos] \in fixed .. fixed + PrefixMost(bits)
<1>. DEFINE most == PrefixMost(bits)
            first == data[pos] % 2 ^ bits
            last == UpTo(data, pos + 1, 0 .. 127)
<1>1. 2 ^ bits - 1 = most /\ most \in {7, 15, 63, 127} /\ 2 ^ bits = most + 1
  BY PrefixBits
<1>2. \A x \in 0 .. most : (fixed + x) % (most + 1) = x
  <2>1. CASE most = 7
    BY <2>1 DEF FixedBits
  <2>2. CASE most = 15
    BY <2>2 DEF FixedBits
  <2>3. CASE most = 63
    BY <2>3 DEF FixedBits
  <2>4. CASE most = 127
    BY <2>4 DEF FixedBits
  <2>. QED
    BY <1>1, <2>1, <2>2, <2>3, <2>4
<1>. HIDE DEF most
<1>3. WriteQpackInt(bits, fixed, v) =
        IF v < most THEN <<fixed + v>> ELSE <<fixed + most>> \o Continuation(v - most)
  BY <1>1 DEF WriteQpackInt
<1>4. ReadQpackInt(data, pos, bits) =
        IF pos > Len(data) THEN TooFew
        ELSE IF first # most THEN [n |-> 1, value |-> first]
        ELSE IF last > Len(data) THEN TooFew
        ELSE [n |-> last - pos + 1, value |-> most + ContinuationValue(data, pos + 1, last)]
  BY <1>1 DEF ReadQpackInt
<1>5. Len(data) \in Nat /\ fixed \in Nat
  BY DEF Bytes, FixedBits
<1>6. pos + 1 - 1 = pos
  OBVIOUS
<1>. HIDE DEF last
<1>7. CASE v < most
  <2>1. LiesAt(<<fixed + v>>, data, pos)
    BY <1>3, <1>7
  <2>2. pos <= Len(data) /\ data[pos] = fixed + v
    <3>1. pos + 1 - 1 <= Len(data) /\ data[pos + 1 - 1] = fixed + v
      BY <2>1 DEF LiesAt
    <3>. QED
      BY <1>6, <3>1
  <2>3. first = v
    BY <1>1, <1>2, <1>7, <2>2
  <2>4. ReadQpackInt(data, pos, bits) = [n |-> 1, value |-> v]
    BY <1>1, <1>4, <1>5, <1>7, <2>2, <2>3
  <2>5. data[pos] \in fixed .. fixed + most
    BY <1>1, <1>5, <1>7, <2>2
  <2>. QED
    BY <1>3, <1>7, <2>4, <2>5 DEF most
<1>8. CASE ~(v < most)
  <2>1. fixed + most \in Byte /\ v - most \in Nat
    <3>1. fixed + most \in Byte
      <4>1. CASE most = 7
        BY <4>1 DEF FixedBits, Byte, most
      <4>2. CASE most = 15
        BY <4>2 DEF FixedBits, Byte, most
      <4>3. CASE most = 63
        BY <4>3 DEF FixedBits, Byte, most
      <4>4. CASE most = 127
        BY <4>4 DEF FixedBits, Byte, most
      <4>. QED
        BY <1>1, <4>1, <4>2, <4>3, <4>4
    <3>. QED
      BY <1>1, <1>8, <3>1
  <2>. DEFINE c == Continuation(v - most)
  <2>2. c \in Bytes /\ <<fixed + most>> \in Bytes /\ Len(<<fixed + most>>) = 1
    <3>1. c \in Bytes
      BY <2>1, ContinuationStep
    <3>2. <<fixed + most>> \in Bytes /\ Len(<<fixed + most>>) = 1
      BY <2>1 DEF Bytes
    <3>. QED
      BY <3>1, <3>2
  <2>. HIDE DEF c
  <2>3. WriteQpackInt(bits, fixed, v) = <<fixed + most>> \o c
    BY <1>3, <1>8 DEF c
  <2>4. LiesAt(<<fixed + most>>, data, pos) /\ LiesAt(c, data, pos + 1)
    <3>1. LiesAt(<<fixed + most>> \o c, data, pos)
      BY <2>3
    <3>. QED
      BY <2>2, <3>1, LiesAtParts
  <2>5. pos <= Len(data) /\ data[pos] = fixed + most
    <3>1. pos + 1 - 1 <= Len(data) /\ data[pos + 1 - 1] = fixed + most
      BY <2>4 DEF LiesAt
    <3>. QED
      BY <1>6, <3>1
  <2>6. first = most
    BY <1>1, <1>2, <2>5
  <2>7. Continued(data, pos + 1, v - most)
    BY <2>1, <2>4, ContinuationRoundTrip DEF c
  <2>8. PICK e \in pos + 1 .. Len(data) :
          /\ e = pos + 1 + Len(c) - 1
          /\ \A k \in pos + 1 .. e - 1 : data[k] \notin 0 .. 127
          /\ data[e] \in 0 .. 127
          /\ ContinuationValue(data, pos + 1, e) = v - most
    BY <2>7, Zenon DEF Continued, c
  <2>9. last = e
    <3>1. pos + 1 \in 1 .. Len(data) + 1 /\ e \in pos + 1 .. Len(data) + 1
      BY <1>5
    <3>. QED
      BY <2>8, <3>1, UpToIs DEF last
  <2>10. ~(last > Len(data)) /\ ~(pos > Len(data))
    BY <1>5, <2>5, <2>9
  <2>11. most + ContinuationValue(data, pos + 1, last) = v
    BY <1>1, <2>8, <2>9
  <2>12. last - pos + 1 = Len(WriteQpackInt(bits, fixed, v))
    <3>1. Len(WriteQpackInt(bits, fixed, v)) = 1 + Len(c) /\ Len(c) \in Nat
      BY <2>2, <2>3 DEF Bytes
    <3>. QED
      BY <2>8, <2>9, <3>1
  <2>13. ReadQpackInt(data, pos, bits) = [n |-> last - pos + 1, value |-> v]
    BY <1>4, <2>6, <2>10, <2>11
  <2>14. data[pos] \in fixed .. fixed + most
    BY <1>1, <1>5, <2>5
  <2>. QED
    BY <2>12, <2>13, <2>14 DEF most
<1>. QED
  BY <1>7, <1>8

-----------------------------------------------------------------------------
(* The buffer a reply is collected in. *)

\* A capacity doubled until it reaches a length is found, and reaches it.
LEMMA DoubledEnough ==
  ASSUME NEW len \in Nat, NEW first \in Nat \ {0}, NEW c0 \in Nat \ {0}, NEW most \in Nat,
         2 * len <= most, c0 <= most
  PROVE  LET enough[c \in 1 .. most] == IF c < len THEN enough[2 * c] ELSE c
         IN enough[c0] \in Nat /\ len <= enough[c0]
<1>. DEFINE D == 1 .. most
            rank == [c \in D |-> most - c]
            F == [p \in D \X [D -> Nat] |-> IF p[1] < len THEN p[2][2 * p[1]] ELSE p[1]]
            enough[c \in 1 .. most] == IF c < len THEN enough[2 * c] ELSE c
<1>1. rank \in [D -> Nat] /\ D \subseteq Nat \ {0}
  OBVIOUS
<1>2. ASSUME NEW c \in D, c < len PROVE 2 * c \in D /\ most - 2 * c \in Nat /\ most - 2 * c < most - c
  BY <1>2
<1>3. ASSUME NEW c \in D, c < len PROVE rank[2 * c] < rank[c]
  BY <1>2, <1>3
<1>4. \A c \in D, g \in [D -> Nat] : F[<<c, g>>] = IF c < len THEN g[2 * c] ELSE c
  OBVIOUS
<1>5. F \in [D \X [D -> Nat] -> Nat]
  <2>. SUFFICES ASSUME NEW c \in D, NEW g \in [D -> Nat]
                PROVE  (IF c < len THEN g[2 * c] ELSE c) \in Nat
    OBVIOUS
  <2>. QED
    BY <1>1, <1>2
<1>. HIDE DEF D, rank, F
<1>6. ASSUME NEW c \in D, NEW g \in [D -> Nat], NEW h \in [D -> Nat],
             \A y \in D : rank[y] < rank[c] => g[y] = h[y]
      PROVE  F[<<c, g>>] = F[<<c, h>>]
  <2>1. CASE c < len
    <3>1. F[<<c, g>>] = g[2 * c] /\ F[<<c, h>>] = h[2 * c]
      BY <1>4, <2>1
    <3>2. g[2 * c] = h[2 * c]
      BY <1>2, <1>3, <1>6, <2>1
    <3>. QED
      BY <3>1, <3>2
  <2>2. CASE ~(c < len)
    BY <1>4, <2>2
  <2>. QED
    BY <2>1, <2>2
<1>7. Descends(D, Nat, rank, F)
  BY <1>1, <1>5, <1>6 DEF Descends
<1>8. PICK f : Solves(f, D, Nat, F)
  BY <1>7, Recursion
<1>9. f = [c \in 1 .. most |-> IF c < len THEN f[2 * c] ELSE c]
  <2>1. f \in [D -> Nat] /\ \A c \in D : f[c] = IF c < len THEN f[2 * c] ELSE c
    BY <1>4, <1>8 DEF Solves
  <2>. QED
    BY <2>1 DEF D
<1>10. enough = [c \in 1 .. most |-> IF c < len THEN enough[2 * c] ELSE c]
  <2>. HIDE DEF enough
  <2>1. \E h : h = [c \in 1 .. most |-> IF c < len THEN h[2 * c] ELSE c]
    BY <1>9
  <2>. QED
    BY <2>1 DEF enough
<1>. HIDE DEF enough
<1>11. \A c \in D : enough[c] = IF c < len THEN enough[2 * c] ELSE c
  BY <1>10 DEF D
<1>. DEFINE T == {d \in Nat : \A c \in D : most - c = d => enough[c] \in Nat /\ len <= enough[c]}
<1>12. ASSUME NEW d \in Nat, \A e \in Nat : e < d => e \in T PROVE d \in T
  <2>. SUFFICES ASSUME NEW c \in D, most - c = d PROVE enough[c] \in Nat /\ len <= enough[c]
    OBVIOUS
  <2>1. CASE c < len
    <3>1. enough[c] = enough[2 * c]
      BY <1>11, <2>1
    <3>2. 2 * c \in D /\ most - 2 * c \in T
      BY <1>2, <1>12, <2>1
    <3>. QED
      BY <3>1, <3>2
  <2>2. CASE ~(c < len)
    <3>1. enough[c] = c /\ c \in Nat
      BY <1>1, <1>11, <2>2
    <3>. QED
      BY <2>2, <3>1
  <2>. QED
    BY <2>1, <2>2
<1>. HIDE DEF T
<1>13. \A d \in Nat : d \in T
  BY <1>12, StrongInduction
<1>14. c0 \in D /\ most - c0 \in Nat
  BY DEF D
<1>15. enough[c0] \in Nat /\ len <= enough[c0]
  BY <1>13, <1>14 DEF T
<1>. QED
  BY <1>15 DEF enough

\* What is appended fits, and is all that is appended.
LEMMA BufferGrown ==
  ASSUME NEW buf \in [bytes : Bytes, cap : Nat], NEW data \in Bytes
  PROVE  LET b == GrowBufferAppend(buf, data) IN
         /\ b \in [bytes : Bytes, cap : Nat] /\ b.bytes = buf.bytes \o data
         /\ Len(b.bytes) <= b.cap
<1>. DEFINE len == Len(buf.bytes) + Len(data)
            c0 == IF buf.cap > 0 THEN 2 * buf.cap ELSE FirstCap
            most == 2 * (FirstCap + buf.cap + len)
            enough[c \in 1 .. most] == IF c < len THEN enough[2 * c] ELSE c
            b == GrowBufferAppend(buf, data)
<1>1. b = [bytes |-> buf.bytes \o data, cap |-> IF len <= buf.cap THEN buf.cap ELSE enough[c0]]
  BY DEF GrowBufferAppend
<1>2. /\ len \in Nat /\ FirstCap \in Nat \ {0} /\ c0 \in Nat \ {0} /\ most \in Nat
      /\ 2 * len <= most /\ c0 <= most
  BY WireAssumption DEF Bytes
<1>3. buf.bytes \o data \in Bytes /\ Len(buf.bytes \o data) = len
  BY DEF Bytes
<1>. HIDE DEF len, c0, most, b
<1>4. enough[c0] \in Nat /\ len <= enough[c0]
  BY <1>2, DoubledEnough, Zenon
<1>. HIDE DEF enough
<1>5. b.bytes = buf.bytes \o data /\ b.cap = IF len <= buf.cap THEN buf.cap ELSE enough[c0]
  BY <1>1
<1>6. b.cap \in Nat /\ len <= b.cap
  BY <1>2, <1>4, <1>5
<1>7. b \in [bytes : Bytes, cap : Nat]
  BY <1>1, <1>3, <1>5, <1>6
<1>. QED
  BY <1>3, <1>5, <1>6, <1>7 DEF b

-----------------------------------------------------------------------------
(* The Huffman code. *)

\* The first five bits of a code, as a number.
Fifth(c) ==
  CASE c = 48 -> 0 [] c = 49 -> 1 [] c = 50 -> 2 [] c = 97 -> 3 [] c = 99 -> 4 [] c = 101 -> 5
    [] c = 105 -> 6 [] c = 111 -> 7 [] c = 115 -> 8 [] c = 116 -> 9 [] c = 51 -> 12 [] c = 52 -> 13
    [] c = 58 -> 23 [] c = 120 -> 30
BitsOf(c) == CASE c \in {51, 52} -> 6 [] c \in {58, 120} -> 7 [] OTHER -> 5

Coded(c, s) ==
  /\ s \in [1 .. BitsOf(c) -> {0, 1}]
  /\ 16 * s[1] + 8 * s[2] + 4 * s[3] + 2 * s[4] + s[5] = Fifth(c)

\* A remainder of two is a bit.
LEMMA TwoBits == ASSUME NEW x \in Nat PROVE x % 2 \in {0, 1}
OBVIOUS
\* The powers of two of a byte.
LEMMA Powers == 2 ^ 0 = 1 /\ 2 ^ 1 = 2 /\ 2 ^ 2 = 4 /\ 2 ^ 3 = 8 /\ 2 ^ 4 = 16 /\ 2 ^ 5 = 32 /\ 2 ^ 6 = 64
BY SMTT(30)
\* The table: every code has its length and begins with the number Fifth gives it.
LEMMA HuffmanCodes ==
  ASSUME NEW c \in DOMAIN HuffmanBits
  PROVE  Coded(c, HuffmanBits[c])
<1>1. CASE c = 48
  <2>. DEFINE s == [i \in 1 .. 5 |-> (0 \div 2 ^ (5 - i)) % 2]
  <2>1. HuffmanBits[c] = s
    BY <1>1 DEF HuffmanBits
  <2>2. s[1] = 0 /\ s[2] = 0 /\ s[3] = 0 /\ s[4] = 0 /\ s[5] = 0
    OBVIOUS
  <2>3. s \in [1 .. 5 -> {0, 1}]
    BY Powers, TwoBits
  <2>. HIDE DEF s
  <2>. QED
    BY <1>1, <2>1, <2>2, <2>3 DEF Coded, Fifth, BitsOf
<1>2. CASE c = 49
  <2>. DEFINE s == [i \in 1 .. 5 |-> (1 \div 2 ^ (5 - i)) % 2]
  <2>1. HuffmanBits[c] = s
    BY <1>2 DEF HuffmanBits
  <2>2. s[1] = 0 /\ s[2] = 0 /\ s[3] = 0 /\ s[4] = 0 /\ s[5] = 1
    OBVIOUS
  <2>3. s \in [1 .. 5 -> {0, 1}]
    BY Powers, TwoBits
  <2>. HIDE DEF s
  <2>. QED
    BY <1>2, <2>1, <2>2, <2>3 DEF Coded, Fifth, BitsOf
<1>3. CASE c = 50
  <2>. DEFINE s == [i \in 1 .. 5 |-> (2 \div 2 ^ (5 - i)) % 2]
  <2>1. HuffmanBits[c] = s
    BY <1>3 DEF HuffmanBits
  <2>2. s[1] = 0 /\ s[2] = 0 /\ s[3] = 0 /\ s[4] = 1 /\ s[5] = 0
    OBVIOUS
  <2>3. s \in [1 .. 5 -> {0, 1}]
    BY Powers, TwoBits
  <2>. HIDE DEF s
  <2>. QED
    BY <1>3, <2>1, <2>2, <2>3 DEF Coded, Fifth, BitsOf
<1>4. CASE c = 97
  <2>. DEFINE s == [i \in 1 .. 5 |-> (3 \div 2 ^ (5 - i)) % 2]
  <2>1. HuffmanBits[c] = s
    BY <1>4 DEF HuffmanBits
  <2>2. s[1] = 0 /\ s[2] = 0 /\ s[3] = 0 /\ s[4] = 1 /\ s[5] = 1
    OBVIOUS
  <2>3. s \in [1 .. 5 -> {0, 1}]
    BY Powers, TwoBits
  <2>. HIDE DEF s
  <2>. QED
    BY <1>4, <2>1, <2>2, <2>3 DEF Coded, Fifth, BitsOf
<1>5. CASE c = 99
  <2>. DEFINE s == [i \in 1 .. 5 |-> (4 \div 2 ^ (5 - i)) % 2]
  <2>1. HuffmanBits[c] = s
    BY <1>5 DEF HuffmanBits
  <2>2. s[1] = 0 /\ s[2] = 0 /\ s[3] = 1 /\ s[4] = 0 /\ s[5] = 0
    OBVIOUS
  <2>3. s \in [1 .. 5 -> {0, 1}]
    BY Powers, TwoBits
  <2>. HIDE DEF s
  <2>. QED
    BY <1>5, <2>1, <2>2, <2>3 DEF Coded, Fifth, BitsOf
<1>6. CASE c = 101
  <2>. DEFINE s == [i \in 1 .. 5 |-> (5 \div 2 ^ (5 - i)) % 2]
  <2>1. HuffmanBits[c] = s
    BY <1>6 DEF HuffmanBits
  <2>2. s[1] = 0 /\ s[2] = 0 /\ s[3] = 1 /\ s[4] = 0 /\ s[5] = 1
    OBVIOUS
  <2>3. s \in [1 .. 5 -> {0, 1}]
    BY Powers, TwoBits
  <2>. HIDE DEF s
  <2>. QED
    BY <1>6, <2>1, <2>2, <2>3 DEF Coded, Fifth, BitsOf
<1>7. CASE c = 105
  <2>. DEFINE s == [i \in 1 .. 5 |-> (6 \div 2 ^ (5 - i)) % 2]
  <2>1. HuffmanBits[c] = s
    BY <1>7 DEF HuffmanBits
  <2>2. s[1] = 0 /\ s[2] = 0 /\ s[3] = 1 /\ s[4] = 1 /\ s[5] = 0
    OBVIOUS
  <2>3. s \in [1 .. 5 -> {0, 1}]
    BY Powers, TwoBits
  <2>. HIDE DEF s
  <2>. QED
    BY <1>7, <2>1, <2>2, <2>3 DEF Coded, Fifth, BitsOf
<1>8. CASE c = 111
  <2>. DEFINE s == [i \in 1 .. 5 |-> (7 \div 2 ^ (5 - i)) % 2]
  <2>1. HuffmanBits[c] = s
    BY <1>8 DEF HuffmanBits
  <2>2. s[1] = 0 /\ s[2] = 0 /\ s[3] = 1 /\ s[4] = 1 /\ s[5] = 1
    OBVIOUS
  <2>3. s \in [1 .. 5 -> {0, 1}]
    BY Powers, TwoBits
  <2>. HIDE DEF s
  <2>. QED
    BY <1>8, <2>1, <2>2, <2>3 DEF Coded, Fifth, BitsOf
<1>9. CASE c = 115
  <2>. DEFINE s == [i \in 1 .. 5 |-> (8 \div 2 ^ (5 - i)) % 2]
  <2>1. HuffmanBits[c] = s
    BY <1>9 DEF HuffmanBits
  <2>2. s[1] = 0 /\ s[2] = 1 /\ s[3] = 0 /\ s[4] = 0 /\ s[5] = 0
    OBVIOUS
  <2>3. s \in [1 .. 5 -> {0, 1}]
    BY Powers, TwoBits
  <2>. HIDE DEF s
  <2>. QED
    BY <1>9, <2>1, <2>2, <2>3 DEF Coded, Fifth, BitsOf
<1>10. CASE c = 116
  <2>. DEFINE s == [i \in 1 .. 5 |-> (9 \div 2 ^ (5 - i)) % 2]
  <2>1. HuffmanBits[c] = s
    BY <1>10 DEF HuffmanBits
  <2>2. s[1] = 0 /\ s[2] = 1 /\ s[3] = 0 /\ s[4] = 0 /\ s[5] = 1
    OBVIOUS
  <2>3. s \in [1 .. 5 -> {0, 1}]
    BY Powers, TwoBits
  <2>. HIDE DEF s
  <2>. QED
    BY <1>10, <2>1, <2>2, <2>3 DEF Coded, Fifth, BitsOf
<1>11. CASE c = 51
  <2>. DEFINE s == [i \in 1 .. 6 |-> (25 \div 2 ^ (6 - i)) % 2]
  <2>1. HuffmanBits[c] = s
    BY <1>11 DEF HuffmanBits
  <2>2. s[1] = 0 /\ s[2] = 1 /\ s[3] = 1 /\ s[4] = 0 /\ s[5] = 0
    OBVIOUS
  <2>3. s \in [1 .. 6 -> {0, 1}]
    BY Powers, TwoBits
  <2>. HIDE DEF s
  <2>. QED
    BY <1>11, <2>1, <2>2, <2>3 DEF Coded, Fifth, BitsOf
<1>12. CASE c = 52
  <2>. DEFINE s == [i \in 1 .. 6 |-> (26 \div 2 ^ (6 - i)) % 2]
  <2>1. HuffmanBits[c] = s
    BY <1>12 DEF HuffmanBits
  <2>2. s[1] = 0 /\ s[2] = 1 /\ s[3] = 1 /\ s[4] = 0 /\ s[5] = 1
    OBVIOUS
  <2>3. s \in [1 .. 6 -> {0, 1}]
    BY Powers, TwoBits
  <2>. HIDE DEF s
  <2>. QED
    BY <1>12, <2>1, <2>2, <2>3 DEF Coded, Fifth, BitsOf
<1>13. CASE c = 58
  <2>. DEFINE s == [i \in 1 .. 7 |-> (92 \div 2 ^ (7 - i)) % 2]
  <2>1. HuffmanBits[c] = s
    BY <1>13 DEF HuffmanBits
  <2>2. s[1] = 1 /\ s[2] = 0 /\ s[3] = 1 /\ s[4] = 1 /\ s[5] = 1
    OBVIOUS
  <2>3. s \in [1 .. 7 -> {0, 1}]
    BY Powers, TwoBits
  <2>. HIDE DEF s
  <2>. QED
    BY <1>13, <2>1, <2>2, <2>3 DEF Coded, Fifth, BitsOf
<1>14. CASE c = 120
  <2>. DEFINE s == [i \in 1 .. 7 |-> (121 \div 2 ^ (7 - i)) % 2]
  <2>1. HuffmanBits[c] = s
    BY <1>14 DEF HuffmanBits
  <2>2. s[1] = 1 /\ s[2] = 1 /\ s[3] = 1 /\ s[4] = 1 /\ s[5] = 0
    OBVIOUS
  <2>3. s \in [1 .. 7 -> {0, 1}]
    BY Powers, TwoBits
  <2>. HIDE DEF s
  <2>. QED
    BY <1>14, <2>1, <2>2, <2>3 DEF Coded, Fifth, BitsOf
<1>. QED
  BY <1>1, <1>2, <1>3, <1>4, <1>5, <1>6, <1>7, <1>8, <1>9, <1>10, <1>11, <1>12, <1>13, <1>14 DEF HuffmanBits

-----------------------------------------------------------------------------
(* Eight bits to a byte. *)

Bit == {0, 1}

OctetValue(b) ==
  128 * b[1] + 64 * b[2] + 32 * b[3] + 16 * b[4] + 8 * b[5] + 4 * b[6] + 2 * b[7] + b[8]

\* Octet adds up the bits of a byte.
LEMMA OctetIs ==
  ASSUME NEW b \in [1 .. 8 -> Bit]
  PROVE  Octet(b) = OctetValue(b)
<1>. DEFINE value[k \in 0 .. 8] == IF k = 0 THEN 0 ELSE 2 * value[k - 1] + b[k]
            step == [p \in (1 .. 8) \X Nat |-> 2 * p[2] + b[p[1]]]
<1>0. \A k \in 1 .. 8 : b[k] \in Nat
  BY DEF Bit
<1>1. Grows(Nat, 0, 8, step)
  <2>1. \A k \in 1 .. 8, v \in Nat : 2 * v + b[k] \in Nat
    BY <1>0
  <2>. QED
    BY <2>1 DEF Grows
<1>2. \A k \in 1 .. 8, v \in Nat : step[<<k, v>>] = 2 * v + b[k]
  OBVIOUS
<1>. HIDE DEF step
<1>3. PICK f : Grown(f, Nat, 0, 8, step)
  BY <1>1, Iteration
<1>4. f = [k \in 0 .. 8 |-> IF k = 0 THEN 0 ELSE 2 * f[k - 1] + b[k]]
  <2>1. f \in [0 .. 8 -> Nat] /\ f[0] = 0 /\ \A k \in 1 .. 8 : f[k] = step[<<k, f[k - 1]>>]
    BY <1>3 DEF Grown
  <2>2. ASSUME NEW k \in 1 .. 8 PROVE f[k] = 2 * f[k - 1] + b[k]
    <3>1. f[k - 1] \in Nat
      BY <2>1
    <3>. QED
      BY <1>2, <2>1, <3>1
  <2>. QED
    BY <2>1, <2>2
<1>5. value = [k \in 0 .. 8 |-> IF k = 0 THEN 0 ELSE 2 * value[k - 1] + b[k]]
  <2>. HIDE DEF value
  <2>1. \E h : h = [k \in 0 .. 8 |-> IF k = 0 THEN 0 ELSE 2 * h[k - 1] + b[k]]
    BY <1>4
  <2>. QED
    BY <2>1 DEF value
<1>6. Octet(b) = value[8]
  BY DEF Octet
<1>. HIDE DEF value
<1>7. value[0] = 0 /\ \A k \in 1 .. 8 : value[k] = 2 * value[k - 1] + b[k]
  BY <1>5
<1>8. value[1] = b[1] /\ value[2] = 2 * b[1] + b[2] /\ value[3] = 4 * b[1] + 2 * b[2] + b[3]
  <2>1. value[1] = 2 * value[0] + b[1] /\ value[2] = 2 * value[1] + b[2] /\ value[3] = 2 * value[2] + b[3]
    BY <1>7
  <2>. QED
    BY <1>0, <1>7, <2>1
<1>9. value[4] = 8 * b[1] + 4 * b[2] + 2 * b[3] + b[4]
      /\ value[5] = 16 * b[1] + 8 * b[2] + 4 * b[3] + 2 * b[4] + b[5]
  <2>1. value[4] = 2 * value[3] + b[4] /\ value[5] = 2 * value[4] + b[5]
    BY <1>7
  <2>. QED
    BY <1>0, <1>8, <2>1
<1>10. value[6] = 2 * value[5] + b[6] /\ value[7] = 2 * value[6] + b[7] /\ value[8] = 2 * value[7] + b[8]
  BY <1>7
<1>11. b[1] \in Nat /\ b[2] \in Nat /\ b[3] \in Nat /\ b[4] \in Nat /\ b[5] \in Nat /\ b[6] \in Nat
       /\ b[7] \in Nat /\ b[8] \in Nat
  BY <1>0
<1>12. value[6] = 32 * b[1] + 16 * b[2] + 8 * b[3] + 4 * b[4] + 2 * b[5] + b[6]
  BY <1>9, <1>10, <1>11
<1>13. value[7] = 64 * b[1] + 32 * b[2] + 16 * b[3] + 8 * b[4] + 4 * b[5] + 2 * b[6] + b[7]
  BY <1>10, <1>11, <1>12
<1>14. value[8] = OctetValue(b)
  BY <1>10, <1>11, <1>13 DEF OctetValue
<1>. QED
  BY <1>6, <1>14

BitOf(v, k) == (v \div 2 ^ (8 - k)) % 2

\* The bits of a byte made of bits are those bits.
LEMMA OctetBits ==
  ASSUME NEW b \in [1 .. 8 -> Bit]
  PROVE  /\ Octet(b) \in Byte
         /\ \A k \in 1 .. 8 : BitOf(Octet(b), k) = b[k]
<1>. DEFINE v == OctetValue(b)
<1>0. b[1] \in Bit /\ b[2] \in Bit /\ b[3] \in Bit /\ b[4] \in Bit /\ b[5] \in Bit /\ b[6] \in Bit
      /\ b[7] \in Bit /\ b[8] \in Bit
  OBVIOUS
<1>1. v \in 0 .. 255
  BY <1>0 DEF OctetValue, Bit
<1>2. /\ v \div 128 = b[1]
      /\ v \div 64 = 2 * b[1] + b[2]
      /\ v \div 32 = 4 * b[1] + 2 * b[2] + b[3]
      /\ v \div 16 = 8 * b[1] + 4 * b[2] + 2 * b[3] + b[4]
      /\ v \div 8 = 16 * b[1] + 8 * b[2] + 4 * b[3] + 2 * b[4] + b[5]
      /\ v \div 4 = 32 * b[1] + 16 * b[2] + 8 * b[3] + 4 * b[4] + 2 * b[5] + b[6]
      /\ v \div 2 = 64 * b[1] + 32 * b[2] + 16 * b[3] + 8 * b[4] + 4 * b[5] + 2 * b[6] + b[7]
      /\ v \div 1 = v
  BY <1>0 DEF OctetValue, Bit
<1>3. \A k \in 1 .. 8 : BitOf(v, k) = b[k]
  <2>1. \A k \in 1 .. 8 : k = 1 \/ k = 2 \/ k = 3 \/ k = 4 \/ k = 5 \/ k = 6 \/ k = 7 \/ k = 8
    OBVIOUS
  <2>. HIDE DEF v
  <2>2. BitOf(v, 1) = (v \div 128) % 2 /\ BitOf(v, 2) = (v \div 64) % 2 /\ BitOf(v, 3) = (v \div 32) % 2
        /\ BitOf(v, 4) = (v \div 16) % 2 /\ BitOf(v, 5) = (v \div 8) % 2
        /\ BitOf(v, 6) = (v \div 4) % 2 /\ BitOf(v, 7) = (v \div 2) % 2 /\ BitOf(v, 8) = (v \div 1) % 2
    BY DEF BitOf
  <2>3. BitOf(v, 1) = b[1] /\ BitOf(v, 2) = b[2] /\ BitOf(v, 3) = b[3] /\ BitOf(v, 4) = b[4]
    BY <1>0, <1>2, <2>2 DEF Bit
  <2>4. BitOf(v, 5) = b[5] /\ BitOf(v, 6) = b[6] /\ BitOf(v, 7) = b[7]
    BY <1>0, <1>2, <2>2 DEF Bit
  <2>5. BitOf(v, 8) = b[8]
    BY <1>0, <1>2, <2>2 DEF Bit, v, OctetValue
  <2>. QED
    BY <2>1, <2>3, <2>4, <2>5
<1>4. Octet(b) = v
  BY OctetIs
<1>. HIDE DEF v
<1>. QED
  BY <1>1, <1>3, <1>4 DEF Byte

\* What the first parts make together begins what more of them make.
LEMMA PartsGrow ==
  ASSUME NEW S, NEW s \in Seq(Seq(S)), NEW f, Parts(f, S, s), NEW i \in 0 .. Len(s)
  PROVE  \A j \in i .. Len(s) : /\ Len(f[i]) <= Len(f[j])
                                /\ \A m \in 1 .. Len(f[i]) : f[j][m] = f[i][m]
<1>. DEFINE T == {d \in Nat : i + d <= Len(s) =>
                    /\ Len(f[i]) <= Len(f[i + d])
                    /\ \A m \in 1 .. Len(f[i]) : f[i + d][m] = f[i][m]}
<1>0. Len(s) \in Nat /\ \A k \in 0 .. Len(s) : f[k] \in Seq(S) /\ Len(f[k]) \in Nat
  BY DEF Parts
<1>1. 0 \in T
  BY <1>0
<1>2. ASSUME NEW d \in Nat, d \in T PROVE d + 1 \in T
  <2>. SUFFICES ASSUME i + (d + 1) <= Len(s)
                PROVE  /\ Len(f[i]) <= Len(f[i + (d + 1)])
                       /\ \A m \in 1 .. Len(f[i]) : f[i + (d + 1)][m] = f[i][m]
    OBVIOUS
  <2>. DEFINE j == i + d
              e == s[j + 1]
  <2>1. j \in 0 .. Len(s) /\ j + 1 \in 1 .. Len(s) /\ i + (d + 1) = j + 1 /\ (j + 1) - 1 = j
    BY <1>0
  <2>2. Len(f[i]) <= Len(f[j]) /\ \A m \in 1 .. Len(f[i]) : f[j][m] = f[i][m]
    BY <1>0, <1>2, <2>1, SMTT(30)
  <2>. HIDE DEF j
  <2>3. e \in Seq(S) /\ f[j + 1] = f[j] \o e
    <3>1. s[j + 1] \in Seq(S)
      BY <2>1
    <3>2. f[j + 1] = f[(j + 1) - 1] \o s[j + 1]
      BY <2>1, Zenon DEF Parts
    <3>. QED
      BY <2>1, <3>1, <3>2
  <2>. HIDE DEF e
  <2>4. Len(f[j + 1]) = Len(f[j]) + Len(e) /\ Len(e) \in Nat /\ Len(f[j]) \in Nat /\ Len(f[i]) \in Nat
    BY <1>0, <2>1, <2>3
  <2>5. ASSUME NEW m \in 1 .. Len(f[i]) PROVE f[j + 1][m] = f[i][m]
    <3>1. m \in 1 .. Len(f[j])
      BY <2>2, <2>4
    <3>2. f[j + 1][m] = f[j][m]
      BY <1>0, <2>1, <2>3, <3>1
    <3>. QED
      BY <2>2, <3>2
  <2>6. Len(f[i]) <= Len(f[j + 1])
    BY <2>2, <2>4, SMTT(30)
  <2>. QED
    BY <2>1, <2>5, <2>6, Zenon
<1>. HIDE DEF T
<1>3. \A d \in Nat : d \in T
  BY <1>1, <1>2, InductionSet
<1>4. ASSUME NEW j \in i .. Len(s)
      PROVE  Len(f[i]) <= Len(f[j]) /\ \A m \in 1 .. Len(f[i]) : f[j][m] = f[i][m]
  <2>. DEFINE d == j - i
  <2>1. d \in Nat /\ i + d = j /\ i + d <= Len(s)
    BY <1>0
  <2>. HIDE DEF d
  <2>2. d \in T
    BY <1>3, <2>1
  <2>. QED
    BY <2>1, <2>2 DEF T
<1>. QED
  BY <1>4

\* Where the parts lie in the whole.
PartLies(f, s, i) ==
  /\ Len(f[i]) = Len(f[i - 1]) + Len(s[i]) /\ Len(f[i]) <= Len(FlattenSeq(s))
  /\ \A k \in 1 .. Len(s[i]) : FlattenSeq(s)[Len(f[i - 1]) + k] = s[i][k]

\* Each sequence of a list lies in the concatenation where the one before it ends.
LEMMA PartsLie ==
  ASSUME NEW S, NEW s \in Seq(Seq(S)), NEW f, Parts(f, S, s), NEW i \in 1 .. Len(s)
  PROVE  PartLies(f, s, i)
<1>1. FlattenSeq(s) = f[Len(s)]
  BY FlattenIs
<1>2. Len(s) \in Nat /\ i \in 0 .. Len(s) /\ i - 1 \in 0 .. Len(s) /\ Len(s) \in i .. Len(s)
  OBVIOUS
<1>3. f[i] = f[i - 1] \o s[i] /\ f[i - 1] \in Seq(S) /\ s[i] \in Seq(S)
  <2>1. f[i] = f[i - 1] \o s[i]
    BY Zenon DEF Parts
  <2>2. f[i - 1] \in Seq(S)
    BY <1>2 DEF Parts
  <2>3. s[i] \in Seq(S)
    OBVIOUS
  <2>. QED
    BY <2>1, <2>2, <2>3
<1>4. Len(f[i]) = Len(f[i - 1]) + Len(s[i])
  BY <1>3
<1>5. Len(f[i]) <= Len(f[Len(s)]) /\ \A m \in 1 .. Len(f[i]) : f[Len(s)][m] = f[i][m]
  BY <1>2, PartsGrow
<1>6. ASSUME NEW k \in 1 .. Len(s[i]) PROVE f[Len(s)][Len(f[i - 1]) + k] = s[i][k]
  <2>. DEFINE a == f[i - 1]
              e == s[i]
  <2>0. a \in Seq(S) /\ e \in Seq(S) /\ k \in 1 .. Len(e) /\ f[i] = a \o e
    BY <1>3
  <2>. HIDE DEF a, e
  <2>1. Len(a) + k \in 1 .. Len(a \o e) /\ (a \o e)[Len(a) + k] = e[k]
    BY <2>0
  <2>2. Len(f[i - 1]) + k \in 1 .. Len(f[i])
    BY <2>0, <2>1, Zenon DEF a
  <2>3. f[i][Len(f[i - 1]) + k] = s[i][k]
    BY <2>0, <2>1, Zenon DEF a, e
  <2>. QED
    BY <1>5, <2>2, <2>3
<1>. QED
  BY <1>1, <1>4, <1>5, <1>6 DEF PartLies

\* Parts of eight.
LEMMA EightsLie ==
  ASSUME NEW S, NEW s \in Seq(Seq(S)), \A i \in 1 .. Len(s) : Len(s[i]) = 8
  PROVE  /\ FlattenSeq(s) \in Seq(S) /\ Len(FlattenSeq(s)) = 8 * Len(s)
         /\ \A i \in 1 .. Len(s), k \in 1 .. 8 : FlattenSeq(s)[8 * (i - 1) + k] = s[i][k]
<1>1. PICK f : Parts(f, S, s)
  BY FlattenParts
<1>0. ASSUME NEW i \in 1 .. Len(s)
      PROVE  /\ Len(f[i]) = Len(f[i - 1]) + Len(s[i])
             /\ \A k \in 1 .. Len(s[i]) : FlattenSeq(s)[Len(f[i - 1]) + k] = s[i][k]
  <2>1. PartLies(f, s, i)
    BY <1>1, PartsLie
  <2>. QED
    BY <2>1, Zenon DEF PartLies
<1>. DEFINE T == {i \in Nat : i <= Len(s) => Len(f[i]) = 8 * i}
<1>2. 0 \in T
  BY <1>1 DEF Parts
<1>3. ASSUME NEW i \in Nat, i \in T PROVE i + 1 \in T
  <2>. SUFFICES ASSUME i + 1 <= Len(s) PROVE Len(f[i + 1]) = 8 * (i + 1)
    OBVIOUS
  <2>1. i + 1 \in 1 .. Len(s) /\ (i + 1) - 1 = i /\ i <= Len(s)
    OBVIOUS
  <2>2. Len(f[i + 1]) = Len(f[(i + 1) - 1]) + Len(s[i + 1])
    BY <1>0, <2>1, Zenon
  <2>3. Len(s[i + 1]) = 8
    BY <2>1, Zenon
  <2>4. Len(f[i + 1]) = Len(f[i]) + 8
    BY <2>1, <2>2, <2>3, Zenon
  <2>5. Len(f[i]) = 8 * i
    BY <1>3, <2>1
  <2>. QED
    BY <2>4, <2>5
<1>. HIDE DEF T
<1>4. \A i \in Nat : i \in T
  BY <1>2, <1>3, InductionSet
<1>5. \A i \in 0 .. Len(s) : Len(f[i]) = 8 * i
  BY <1>4 DEF T
<1>6. FlattenSeq(s) = f[Len(s)]
  BY <1>1, FlattenIs
<1>7. Len(FlattenSeq(s)) = 8 * Len(s)
  BY <1>5, <1>6
<1>8. ASSUME NEW i \in 1 .. Len(s), NEW k \in 1 .. 8 PROVE FlattenSeq(s)[8 * (i - 1) + k] = s[i][k]
  <2>1. Len(s[i]) = 8 /\ i - 1 \in 0 .. Len(s)
    OBVIOUS
  <2>3. Len(f[i - 1]) = 8 * (i - 1)
    BY <1>5, <2>1
  <2>2. FlattenSeq(s)[Len(f[i - 1]) + k] = s[i][k]
    BY <1>0, <2>1, Zenon
  <2>. QED
    BY <2>2, <2>3
<1>. QED
  BY <1>7, <1>8, FlattenType

Codes(s) == [i \in 1 .. Len(s) |-> HuffmanBits[s[i]]]

\* A code is a sequence of five to seven bits.
LEMMA CodeForm ==
  ASSUME NEW c \in DOMAIN HuffmanBits
  PROVE  /\ HuffmanBits[c] \in Seq(Bit) /\ Len(HuffmanBits[c]) \in 5 .. 7
         /\ Len(HuffmanBits[c]) \in Nat /\ 5 <= Len(HuffmanBits[c])
<1>. DEFINE h == HuffmanBits[c]
<1>1. h \in [1 .. BitsOf(c) -> Bit] /\ BitsOf(c) \in 5 .. 7
  BY HuffmanCodes DEF Coded, Bit, BitsOf
<1>. HIDE DEF h
<1>2. h \in Seq(Bit) /\ Len(h) = BitsOf(c)
  BY <1>1
<1>. QED
  BY <1>1, <1>2 DEF h

\* The codes of a text, one after the other.
LEMMA CodesType ==
  ASSUME NEW s \in HuffmanText
  PROVE  /\ Codes(s) \in Seq(Seq(Bit)) /\ Len(Codes(s)) = Len(s)
         /\ \A i \in 1 .. Len(s) : s[i] \in DOMAIN HuffmanBits /\ Codes(s)[i] = HuffmanBits[s[i]]
         /\ HuffmanCode(s) = FlattenSeq(Codes(s)) /\ HuffmanCode(s) \in Seq(Bit)
<1>1. Len(s) \in Nat /\ \A i \in 1 .. Len(s) : s[i] \in DOMAIN HuffmanBits
  BY DEF HuffmanText
<1>2. \A i \in 1 .. Len(s) : HuffmanBits[s[i]] \in Seq(Bit)
  BY <1>1, CodeForm
<1>3. Codes(s) \in Seq(Seq(Bit)) /\ Len(Codes(s)) = Len(s)
  BY <1>1, <1>2 DEF Codes
<1>4. HuffmanCode(s) = FlattenSeq(Codes(s))
  BY DEF HuffmanCode, Codes
<1>5. FlattenSeq(Codes(s)) \in Seq(Bit)
  BY <1>3, FlattenType
<1>6. \A i \in 1 .. Len(s) : Codes(s)[i] = HuffmanBits[s[i]]
  BY DEF Codes
<1>. QED
  BY <1>1, <1>3, <1>4, <1>5, <1>6

\* The bits of the whole bytes: the code, then ones.
PaddedBit(bits, j) == IF j <= Len(bits) THEN bits[j] ELSE 1
Octets(bits) == (Len(bits) + 7) \div 8
Eight(bits, b) == [k \in 1 .. 8 |-> PaddedBit(bits, 8 * (b - 1) + k)]

\* HuffmanEncode is the octets of the code and of at most seven ones behind it.
LEMMA EncodeForm ==
  ASSUME NEW s \in HuffmanText
  PROVE  LET bits == HuffmanCode(s) IN
         /\ Octets(bits) \in Nat /\ 8 * Octets(bits) - Len(bits) \in 0 .. 7
         /\ \A b \in 1 .. Octets(bits) : Eight(bits, b) \in [1 .. 8 -> Bit]
         /\ HuffmanEncode(s) = [b \in 1 .. Octets(bits) |-> Octet(Eight(bits, b))]
<1>. DEFINE bits == HuffmanCode(s)
<1>1. bits \in Seq(Bit)
  BY CodesType
<1>2. HuffmanEncode(s) = [b \in 1 .. Octets(bits) |-> Octet(Eight(bits, b))]
  BY DEF HuffmanEncode, Octets, Eight, PaddedBit
<1>. HIDE DEF bits
<1>3. Len(bits) \in Nat
  BY <1>1
<1>4. Octets(bits) \in Nat /\ 8 * Octets(bits) - Len(bits) \in 0 .. 7
  BY <1>3 DEF Octets
<1>5. ASSUME NEW b \in 1 .. Octets(bits), NEW k \in 1 .. 8
      PROVE  PaddedBit(bits, 8 * (b - 1) + k) \in Bit
  <2>. DEFINE j == 8 * (b - 1) + k
  <2>1. j \in Nat \ {0}
    OBVIOUS
  <2>. HIDE DEF j
  <2>2. PaddedBit(bits, j) \in Bit
    <3>1. CASE j <= Len(bits)
      <4>1. bits[j] \in Bit
        BY <1>1, <1>3, <2>1, <3>1
      <4>. QED
        BY <3>1, <4>1 DEF PaddedBit
    <3>2. CASE ~(j <= Len(bits))
      BY <3>2 DEF PaddedBit, Bit
    <3>. QED
      BY <3>1, <3>2
  <2>. QED
    BY <2>2 DEF j
<1>6. \A b \in 1 .. Octets(bits) : Eight(bits, b) \in [1 .. 8 -> Bit]
  BY <1>5 DEF Eight
<1>. QED
  BY <1>2, <1>4, <1>6 DEF bits

\* HuffmanEncode writes bytes.
LEMMA EncodeType ==
  ASSUME NEW s \in HuffmanText
  PROVE  HuffmanEncode(s) \in Bytes /\ Len(HuffmanEncode(s)) = Octets(HuffmanCode(s))
<1>. DEFINE bits == HuffmanCode(s)
            n == Octets(bits)
            e == [b \in 1 .. n |-> Octet(Eight(bits, b))]
<1>1. n \in Nat /\ HuffmanEncode(s) = e /\ \A b \in 1 .. n : Eight(bits, b) \in [1 .. 8 -> Bit]
  BY EncodeForm
<1>. HIDE DEF bits, n
<1>2. \A b \in 1 .. n : Octet(Eight(bits, b)) \in Byte
  BY <1>1, OctetBits
<1>3. e \in Bytes /\ Len(e) = n
  BY <1>1, <1>2 DEF Bytes
<1>. QED
  BY <1>1, <1>3 DEF bits, n

EightsOf(bytes) ==
  [i \in 1 .. Len(bytes) |-> [k \in 1 .. 8 |-> (bytes[i] \div 2 ^ (8 - k)) % 2]]

\* Bits takes every byte apart, the high bit first.
LEMMA BitsForm ==
  ASSUME NEW bytes \in Bytes
  PROVE  /\ Bits(bytes) \in Seq(Bit) /\ Len(Bits(bytes)) = 8 * Len(bytes)
         /\ \A i \in 1 .. Len(bytes), k \in 1 .. 8 : Bits(bytes)[8 * (i - 1) + k] = BitOf(bytes[i], k)
<1>. DEFINE e == EightsOf(bytes)
<1>1. Bits(bytes) = FlattenSeq(e)
  BY DEF Bits, EightsOf
<1>2. Len(bytes) \in Nat /\ \A i \in 1 .. Len(bytes) : bytes[i] \in Nat
  <2>1. \A i \in 1 .. Len(bytes) : bytes[i] \in Byte
    BY DEF Bytes
  <2>. QED
    BY <2>1, ByteIsNat DEF Bytes
<1>3. ASSUME NEW i \in 1 .. Len(bytes)
      PROVE  /\ e[i] \in Seq(Bit) /\ Len(e[i]) = 8
             /\ \A k \in 1 .. 8 : e[i][k] = BitOf(bytes[i], k)
  <2>. DEFINE x == bytes[i]
              y == [k \in 1 .. 8 |-> (x \div 2 ^ (8 - k)) % 2]
  <2>1. e[i] = y
    BY DEF EightsOf
  <2>2. x \in Nat
    BY <1>2
  <2>. HIDE DEF x
  <2>3. ASSUME NEW k \in 1 .. 8 PROVE (x \div 2 ^ (8 - k)) % 2 \in Bit
    <3>1. k = 1 \/ k = 2 \/ k = 3 \/ k = 4 \/ k = 5 \/ k = 6 \/ k = 7 \/ k = 8
      OBVIOUS
    <3>2. 2 ^ (8 - k) \in {1, 2, 4, 8, 16, 32, 64, 128}
      <4>1. CASE k = 1
        BY <4>1
      <4>2. CASE k = 2
        BY <4>2
      <4>3. CASE k = 3
        BY <4>3
      <4>4. CASE k = 4
        BY <4>4
      <4>5. CASE k = 5
        BY <4>5
      <4>6. CASE k = 6
        BY <4>6
      <4>7. CASE k = 7
        BY <4>7
      <4>8. CASE k = 8
        BY <4>8
      <4>. QED
        BY <3>1, <4>1, <4>2, <4>3, <4>4, <4>5, <4>6, <4>7, <4>8
    <3>. DEFINE p == 2 ^ (8 - k)
    <3>. HIDE DEF p
    <3>3. p \in {1, 2, 4, 8, 16, 32, 64, 128} => x \div p \in Nat
      BY <2>2
    <3>4. x \div p \in Nat
      BY <3>2, <3>3 DEF p
    <3>5. \A z \in Nat : z % 2 \in Bit
      BY DEF Bit
    <3>6. (x \div p) % 2 \in Bit
      BY <3>4, <3>5
    <3>. QED
      BY <3>6 DEF p
  <2>4. y \in Seq(Bit) /\ Len(y) = 8
    BY <2>3
  <2>5. \A k \in 1 .. 8 : y[k] = BitOf(x, k)
    BY DEF BitOf
  <2>. HIDE DEF y
  <2>. QED
    BY <2>1, <2>4, <2>5 DEF x
<1>4. e \in Seq(Seq(Bit)) /\ Len(e) = Len(bytes)
  <2>1. e = [i \in 1 .. Len(bytes) |-> e[i]]
    BY DEF EightsOf
  <2>. QED
    BY <1>2, <1>3, <2>1
<1>. HIDE DEF e
<1>5. \A i \in 1 .. Len(e) : Len(e[i]) = 8
  BY <1>3, <1>4
<1>6. /\ FlattenSeq(e) \in Seq(Bit) /\ Len(FlattenSeq(e)) = 8 * Len(e)
      /\ \A i \in 1 .. Len(e), k \in 1 .. 8 : FlattenSeq(e)[8 * (i - 1) + k] = e[i][k]
  BY <1>4, <1>5, EightsLie
<1>. QED
  BY <1>1, <1>3, <1>4, <1>6

\* The bits that are read are the bits that were written.
LEMMA BitsBack ==
  ASSUME NEW s \in HuffmanText
  PROVE  /\ Bits(HuffmanEncode(s)) \in Seq(Bit)
         /\ Len(Bits(HuffmanEncode(s))) = 8 * Octets(HuffmanCode(s))
         /\ \A j \in 1 .. 8 * Octets(HuffmanCode(s)) :
              Bits(HuffmanEncode(s))[j] = PaddedBit(HuffmanCode(s), j)
<1>. DEFINE bits == HuffmanCode(s)
            n == Octets(bits)
            e == HuffmanEncode(s)
<1>1. e \in Bytes /\ Len(e) = n
  BY EncodeType
<1>2. /\ n \in Nat /\ e = [b \in 1 .. n |-> Octet(Eight(bits, b))]
      /\ \A b \in 1 .. n : Eight(bits, b) \in [1 .. 8 -> Bit]
  BY EncodeForm
<1>. HIDE DEF bits, n, e
<1>3. /\ Bits(e) \in Seq(Bit) /\ Len(Bits(e)) = 8 * n
      /\ \A i \in 1 .. n, k \in 1 .. 8 : Bits(e)[8 * (i - 1) + k] = BitOf(e[i], k)
  BY <1>1, BitsForm
<1>4. ASSUME NEW j \in 1 .. 8 * n PROVE Bits(e)[j] = PaddedBit(bits, j)
  <2>. DEFINE i == (j + 7) \div 8
              k == j - 8 * (i - 1)
  <2>1. i \in 1 .. n /\ k \in 1 .. 8 /\ 8 * (i - 1) + k = j
    BY <1>2
  <2>. HIDE DEF i, k
  <2>2. Bits(e)[8 * (i - 1) + k] = BitOf(e[i], k)
    BY <1>3, <2>1, Zenon
  <2>3. e[i] = Octet(Eight(bits, i)) /\ Eight(bits, i) \in [1 .. 8 -> Bit]
    BY <1>2, <2>1
  <2>4. BitOf(Octet(Eight(bits, i)), k) = Eight(bits, i)[k]
    BY <2>1, <2>3, OctetBits
  <2>5. Eight(bits, i)[k] = PaddedBit(bits, 8 * (i - 1) + k)
    BY <2>1 DEF Eight
  <2>. QED
    BY <2>1, <2>2, <2>3, <2>4, <2>5, Zenon
<1>. QED
  BY <1>3, <1>4 DEF bits, n, e

Matches(bits, p) ==
  {c \in DOMAIN HuffmanBits :
     SubSeq(bits, p, Min({Len(bits), p + Len(HuffmanBits[c]) - 1})) = HuffmanBits[c]}

\* The code of c lies in bits from p on.
CodeAt(c, bits, p) ==
  /\ p + Len(HuffmanBits[c]) - 1 <= Len(bits)
  /\ \A k \in 1 .. Len(HuffmanBits[c]) : bits[p + k - 1] = HuffmanBits[c][k]

\* The smaller of two numbers.
LEMMA MinOfTwo ==
  ASSUME NEW a \in Nat, NEW b \in Nat
  PROVE  Min({a, b}) = IF a <= b THEN a ELSE b
<1>. DEFINE m == IF a <= b THEN a ELSE b
<1>1. m \in {a, b} /\ \A y \in {a, b} : m <= y
  OBVIOUS
<1>2. \A x \in {a, b} : (\A y \in {a, b} : x <= y) => x = m
  OBVIOUS
<1>. HIDE DEF m
<1>3. Min({a, b}) \in {a, b} /\ \A y \in {a, b} : Min({a, b}) <= y
  BY <1>1 DEF Min
<1>. QED
  BY <1>2, <1>3 DEF m

\* A letter matches where its code lies.
LEMMA MatchIs ==
  ASSUME NEW bits \in Seq(Bit), NEW p \in 1 .. Len(bits), NEW c \in DOMAIN HuffmanBits
  PROVE  c \in Matches(bits, p) <=> CodeAt(c, bits, p)
<1>. DEFINE h == HuffmanBits[c]
            m == Min({Len(bits), p + Len(h) - 1})
<1>1. h \in Seq(Bit) /\ Len(h) \in 5 .. 7 /\ Len(bits) \in Nat
  BY CodeForm
<1>. HIDE DEF h
<1>2. m = IF Len(bits) <= p + Len(h) - 1 THEN Len(bits) ELSE p + Len(h) - 1
  <2>1. p + Len(h) - 1 \in Nat
    BY <1>1
  <2>. QED
    BY <1>1, <2>1, MinOfTwo, Zenon
<1>. HIDE DEF m
<1>3. m \in p .. Len(bits)
  BY <1>1, <1>2, SMTT(30)
<1>4. SubSeq(bits, p, m) \in Seq(Bit) /\ Len(SubSeq(bits, p, m)) = m - p + 1
      /\ \A k \in 1 .. m - p + 1 : SubSeq(bits, p, m)[k] = bits[p + k - 1]
  BY <1>3
<1>5. ASSUME SubSeq(bits, p, m) = h PROVE CodeAt(c, bits, p)
  <2>1. m - p + 1 = Len(h)
    BY <1>4, <1>5
  <2>2. p + Len(h) - 1 <= Len(bits)
    BY <1>1, <1>3, <2>1
  <2>3. \A k \in 1 .. Len(h) : bits[p + k - 1] = h[k]
    BY <1>4, <1>5, <2>1
  <2>. QED
    BY <2>2, <2>3 DEF CodeAt, h
<1>6. ASSUME CodeAt(c, bits, p) PROVE SubSeq(bits, p, m) = h
  <2>1. p + Len(h) - 1 <= Len(bits) /\ \A k \in 1 .. Len(h) : bits[p + k - 1] = h[k]
    BY <1>6 DEF CodeAt, h
  <2>2. m - p + 1 = Len(h)
    <3>. DEFINE a == Len(h)
                n == Len(bits)
    <3>1. a \in Nat /\ n \in Nat /\ p \in Nat /\ p + a - 1 <= n
      BY <1>1, <2>1
    <3>2. m = IF n <= p + a - 1 THEN n ELSE p + a - 1
      BY <1>2
    <3>. HIDE DEF a, n
    <3>3. m = p + a - 1
      BY <3>1, <3>2
    <3>4. m - p + 1 = a
      BY <3>1, <3>3
    <3>. QED
      BY <3>4 DEF a
  <2>. DEFINE u == SubSeq(bits, p, m)
  <2>3. u \in Seq(Bit) /\ Len(u) = Len(h) /\ \A k \in 1 .. Len(h) : u[k] = h[k]
    BY <1>4, <2>1, <2>2
  <2>. HIDE DEF u
  <2>4. u = h
    BY <1>1, <2>3
  <2>. QED
    BY <2>4 DEF u
<1>7. c \in Matches(bits, p) <=> SubSeq(bits, p, m) = h
  BY DEF Matches, m, h
<1>. QED
  BY <1>5, <1>6, <1>7

\* No code begins another.
LEMMA MatchOne ==
  ASSUME NEW bits \in Seq(Bit), NEW p \in 1 .. Len(bits),
         NEW c \in DOMAIN HuffmanBits, NEW d \in DOMAIN HuffmanBits,
         CodeAt(c, bits, p), CodeAt(d, bits, p)
  PROVE  c = d
<1>1. ASSUME NEW x \in DOMAIN HuffmanBits, CodeAt(x, bits, p)
      PROVE  16 * bits[p] + 8 * bits[p + 1] + 4 * bits[p + 2] + 2 * bits[p + 3] + bits[p + 4] = Fifth(x)
  <2>. DEFINE h == HuffmanBits[x]
  <2>1. Len(h) \in 5 .. 7
    BY CodeForm
  <2>2. 16 * h[1] + 8 * h[2] + 4 * h[3] + 2 * h[4] + h[5] = Fifth(x)
    BY HuffmanCodes DEF Coded
  <2>3. \A k \in 1 .. Len(h) : bits[p + k - 1] = h[k]
    BY <1>1 DEF CodeAt
  <2>. HIDE DEF h
  <2>4. bits[p + 1 - 1] = h[1] /\ bits[p + 2 - 1] = h[2] /\ bits[p + 3 - 1] = h[3]
        /\ bits[p + 4 - 1] = h[4] /\ bits[p + 5 - 1] = h[5]
    BY <2>1, <2>3
  <2>5. p + 1 - 1 = p /\ p + 2 - 1 = p + 1 /\ p + 3 - 1 = p + 2 /\ p + 4 - 1 = p + 3 /\ p + 5 - 1 = p + 4
    OBVIOUS
  <2>. QED
    BY <2>2, <2>4, <2>5, Zenon
<1>2. Fifth(c) = Fifth(d)
  BY <1>1, Zenon
<1>3. /\ c \in {48, 49, 50, 51, 52, 58, 97, 99, 101, 105, 111, 115, 116, 120}
      /\ d \in {48, 49, 50, 51, 52, 58, 97, 99, 101, 105, 111, 115, 116, 120}
  BY DEF HuffmanBits
<1>. DEFINE back(v) ==
              IF v = 0 THEN 48 ELSE IF v = 1 THEN 49 ELSE IF v = 2 THEN 50 ELSE IF v = 3 THEN 97
              ELSE IF v = 4 THEN 99 ELSE IF v = 5 THEN 101 ELSE IF v = 6 THEN 105 ELSE IF v = 7 THEN 111
              ELSE IF v = 8 THEN 115 ELSE IF v = 9 THEN 116 ELSE IF v = 12 THEN 51
              ELSE IF v = 13 THEN 52 ELSE IF v = 23 THEN 58 ELSE 120
<1>. HIDE DEF back
<1>4. ASSUME NEW x \in {48, 49, 50, 51, 52, 58, 97, 99, 101, 105, 111, 115, 116, 120}
      PROVE  x = back(Fifth(x))
  <2>1. \/ x = 48 \/ x = 49 \/ x = 50 \/ x = 51 \/ x = 52 \/ x = 58 \/ x = 97
        \/ x = 99 \/ x = 101 \/ x = 105 \/ x = 111 \/ x = 115 \/ x = 116 \/ x = 120
    OBVIOUS
  <2>2. CASE x = 48 \/ x = 49 \/ x = 50 \/ x = 51 \/ x = 52 \/ x = 58 \/ x = 97
    BY <2>2, SMT DEF Fifth, back
  <2>3. CASE x = 99 \/ x = 101 \/ x = 105 \/ x = 111 \/ x = 115 \/ x = 116 \/ x = 120
    BY <2>3, SMT DEF Fifth, back
  <2>. QED
    BY <2>1, <2>2, <2>3, Zenon
<1>5. c = back(Fifth(c)) /\ d = back(Fifth(d))
  BY <1>3, <1>4, SMT
<1>. QED
  BY <1>2, <1>5, Zenon

\* Ones are no code.
LEMMA OnesMatchNothing ==
  ASSUME NEW bits \in Seq(Bit), NEW p \in 1 .. Len(bits), NEW c \in DOMAIN HuffmanBits,
         \A j \in p .. Len(bits) : bits[j] = 1
  PROVE  ~CodeAt(c, bits, p)
<1>. SUFFICES ASSUME CodeAt(c, bits, p) PROVE FALSE
  OBVIOUS
<1>. DEFINE h == HuffmanBits[c]
<1>1. Len(h) \in Nat /\ 5 <= Len(h)
  BY CodeForm, Zenon
<1>2. 16 * h[1] + 8 * h[2] + 4 * h[3] + 2 * h[4] + h[5] = Fifth(c)
  BY HuffmanCodes DEF Coded
<1>3. p + Len(h) - 1 <= Len(bits) /\ \A k \in 1 .. Len(h) : bits[p + k - 1] = h[k]
  BY DEF CodeAt
<1>. HIDE DEF h
<1>4. \A k \in 1 .. 5 : h[k] = 1
  <2>1. ASSUME NEW k \in 1 .. 5 PROVE h[k] = 1
    <3>1. k \in 1 .. Len(h) /\ p + k - 1 \in p .. Len(bits)
      <4>2. Len(bits) \in Nat /\ p \in Nat
        OBVIOUS
      <4>. QED
        BY <1>1, <1>3, <4>2
    <3>2. bits[p + k - 1] = h[k] /\ bits[p + k - 1] = 1
      BY <1>3, <3>1, Zenon
    <3>. QED
      BY <3>2
  <2>. QED
    BY <2>1
<1>5. Fifth(c) = 31
  BY <1>2, <1>4
<1>. QED
  BY <1>5 DEF Fifth, HuffmanBits

-----------------------------------------------------------------------------
(* A list read from place to place. *)

(* A list read from place to place: what is added at p, and the next place. *)

Chained(f, n, w, a, x) ==
  /\ f = [p \in 1 .. n + 1 |-> f[p]]
  /\ \A p \in 1 .. n + 1 : f[p] = IF w[p] THEN a[p] \o f[x[p]] ELSE <<>>

Leads(S, n, w, a, x) ==
  /\ n \in Nat
  /\ \A p \in 1 .. n + 1 : w[p] => a[p] \in Seq(S) /\ x[p] \in p + 1 .. n + 1

\* A chain that leads further at every step ends: it has a value at every place.
LEMMA ChainExists ==
  ASSUME NEW S, NEW n, NEW w, NEW a, NEW x, Leads(S, n, w, a, x)
  PROVE  \E f : Chained(f, n, w, a, x)
<1>. DEFINE D == 1 .. n + 1
            V == Seq(S)
            rank == [p \in D |-> n + 1 - p]
            F == [y \in D \X [D -> V] |-> IF w[y[1]] THEN a[y[1]] \o y[2][x[y[1]]] ELSE <<>>]
<1>0. n \in Nat
  BY DEF Leads
<1>1. ASSUME NEW p \in D, w[p] PROVE a[p] \in V /\ x[p] \in D /\ n + 1 - x[p] < n + 1 - p
  <2>1. a[p] \in Seq(S) /\ x[p] \in p + 1 .. n + 1
    BY <1>1 DEF Leads
  <2>. QED
    BY <1>0, <2>1
<1>2. rank \in [D -> Nat] /\ \A p \in D : rank[p] = n + 1 - p
  BY <1>0
<1>3. \A p \in D, g \in [D -> V] : F[<<p, g>>] = IF w[p] THEN a[p] \o g[x[p]] ELSE <<>>
  OBVIOUS
<1>4. V # {} /\ <<>> \in V /\ \A u, v \in V : u \o v \in V
  <2>1. <<>> \in V
    OBVIOUS
  <2>2. \A u, v \in V : u \o v \in V
    OBVIOUS
  <2>. QED
    BY <2>1, <2>2
<1>5. F \in [D \X [D -> V] -> V]
  <2>. SUFFICES ASSUME NEW p \in D, NEW g \in [D -> V]
                PROVE  (IF w[p] THEN a[p] \o g[x[p]] ELSE <<>>) \in V
    OBVIOUS
  <2>. HIDE DEF D, V
  <2>1. CASE w[p]
    <3>1. a[p] \in V /\ g[x[p]] \in V
      BY <1>1, <2>1
    <3>2. a[p] \o g[x[p]] \in V
      BY <1>4, <3>1
    <3>. QED
      BY <2>1, <3>2
  <2>2. CASE ~w[p]
    BY <1>4, <2>2
  <2>. QED
    BY <2>1, <2>2
<1>. HIDE DEF D, V, rank, F
<1>6. ASSUME NEW p \in D, NEW g \in [D -> V], NEW h \in [D -> V],
             \A y \in D : rank[y] < rank[p] => g[y] = h[y]
      PROVE  F[<<p, g>>] = F[<<p, h>>]
  <2>1. CASE w[p]
    <3>1. x[p] \in D /\ rank[x[p]] < rank[p]
      BY <1>1, <1>2, <2>1
    <3>2. g[x[p]] = h[x[p]]
      BY <1>6, <3>1
    <3>. QED
      BY <1>3, <2>1, <3>2
  <2>. QED
    BY <1>3, <2>1
<1>7. Descends(D, V, rank, F)
  BY <1>2, <1>4, <1>5, <1>6 DEF Descends
<1>8. PICK f : Solves(f, D, V, F)
  BY <1>7, Recursion
<1>9. f \in [D -> V] /\ \A p \in D : f[p] = IF w[p] THEN a[p] \o f[x[p]] ELSE <<>>
  BY <1>3, <1>8 DEF Solves
<1>. QED
  BY <1>9 DEF Chained, D

\* What a chain collects is what its steps add.
LEMMA ChainType ==
  ASSUME NEW S, NEW n, NEW w, NEW a, NEW x, Leads(S, n, w, a, x), NEW f, Chained(f, n, w, a, x)
  PROVE  \A p \in 1 .. n + 1 : f[p] \in Seq(S)
<1>. DEFINE T == {d \in Nat : \A p \in 1 .. n + 1 : n + 1 - p = d => f[p] \in Seq(S)}
<1>0. n \in Nat
  BY DEF Leads
<1>1. ASSUME NEW d \in Nat, \A e \in Nat : e < d => e \in T PROVE d \in T
  <2>. SUFFICES ASSUME NEW p \in 1 .. n + 1, n + 1 - p = d PROVE f[p] \in Seq(S)
    OBVIOUS
  <2>0. f[p] = IF w[p] THEN a[p] \o f[x[p]] ELSE <<>>
    BY Zenon DEF Chained
  <2>1. CASE w[p]
    <3>1. a[p] \in Seq(S) /\ x[p] \in p + 1 .. n + 1
      BY <2>1 DEF Leads
    <3>2. x[p] \in 1 .. n + 1 /\ n + 1 - x[p] \in Nat /\ n + 1 - x[p] < d
      BY <1>0, <3>1
    <3>3. f[x[p]] \in Seq(S)
      BY <1>1, <3>2
    <3>. QED
      BY <2>0, <2>1, <3>1, <3>3
  <2>2. CASE ~w[p]
    <3>1. f[p] = <<>>
      BY <2>0, <2>2
    <3>. QED
      BY <3>1
  <2>. QED
    BY <2>1, <2>2
<1>. HIDE DEF T
<1>2. \A d \in Nat : d \in T
  BY <1>1, StrongInduction
<1>3. ASSUME NEW p \in 1 .. n + 1 PROVE f[p] \in Seq(S)
  <2>1. n + 1 - p \in Nat
    BY <1>0
  <2>. QED
    BY <1>2, <2>1 DEF T
<1>. QED
  BY <1>3

Letters == DOMAIN HuffmanBits
MatchFrom(bits, p) == CHOOSE c \in Matches(bits, p) : TRUE

\* f is the text decoded from each place on.
Decodes(f, bits) ==
  /\ f = [p \in 1 .. Len(bits) + 1 |-> f[p]]
  /\ \A p \in 1 .. Len(bits) + 1 :
       f[p] = IF Len(bits) - p < 4 THEN <<>>
              ELSE IF Matches(bits, p) = {} THEN <<>>
              ELSE <<MatchFrom(bits, p)>> \o f[p + Len(HuffmanBits[MatchFrom(bits, p)])]

\* The letter that is matched, and where the next begins.
LEMMA MatchedOn ==
  ASSUME NEW bits \in Seq(Bit), NEW p \in 1 .. Len(bits), Matches(bits, p) # {}
  PROVE  /\ MatchFrom(bits, p) \in Letters /\ CodeAt(MatchFrom(bits, p), bits, p)
         /\ p + Len(HuffmanBits[MatchFrom(bits, p)]) \in p + 5 .. Len(bits) + 1
<1>. DEFINE c == MatchFrom(bits, p)
<1>1. c \in Matches(bits, p)
  BY DEF MatchFrom
<1>2. c \in Letters
  BY <1>1 DEF Matches, Letters
<1>. HIDE DEF c
<1>3. CodeAt(c, bits, p)
  BY <1>1, <1>2, MatchIs DEF Letters
<1>4. Len(HuffmanBits[c]) \in Nat /\ 5 <= Len(HuffmanBits[c])
  BY <1>2, CodeForm DEF Letters
<1>5. p + Len(HuffmanBits[c]) - 1 <= Len(bits) /\ Len(bits) \in Nat
  BY <1>3 DEF CodeAt
<1>6. p + Len(HuffmanBits[c]) \in p + 5 .. Len(bits) + 1
  BY <1>4, <1>5
<1>. QED
  BY <1>2, <1>3, <1>6 DEF c

\* The places of a text as a chain.
Letter(bits) == [p \in 1 .. Len(bits) + 1 |-> <<MatchFrom(bits, p)>>]
Lettered(bits) == [p \in 1 .. Len(bits) + 1 |-> ~(Len(bits) - p < 4) /\ Matches(bits, p) # {}]
NextLetter(bits) == [p \in 1 .. Len(bits) + 1 |-> p + Len(HuffmanBits[MatchFrom(bits, p)])]

\* Each letter read is a letter of the table and leads further on.
LEMMA LettersLead ==
  ASSUME NEW bits \in Seq(Bit)
  PROVE  Leads(Letters, Len(bits), Lettered(bits), Letter(bits), NextLetter(bits))
<1>0. Len(bits) \in Nat
  OBVIOUS
<1>1. ASSUME NEW p \in 1 .. Len(bits) + 1, Lettered(bits)[p]
      PROVE  Letter(bits)[p] \in Seq(Letters) /\ NextLetter(bits)[p] \in p + 1 .. Len(bits) + 1
  <2>1. ~(Len(bits) - p < 4) /\ Matches(bits, p) # {}
    BY <1>1 DEF Lettered
  <2>2. p \in 1 .. Len(bits)
    BY <1>0, <2>1
  <2>3. MatchFrom(bits, p) \in Letters /\ p + Len(HuffmanBits[MatchFrom(bits, p)]) \in p + 5 .. Len(bits) + 1
    BY <2>1, <2>2, MatchedOn
  <2>4. Letter(bits)[p] = <<MatchFrom(bits, p)>>
          /\ NextLetter(bits)[p] = p + Len(HuffmanBits[MatchFrom(bits, p)])
    BY DEF Letter, NextLetter
  <2>5. NextLetter(bits)[p] \in p + 1 .. Len(bits) + 1
    BY <1>0, <2>2, <2>3, <2>4
  <2>. QED
    BY <2>3, <2>4, <2>5
<1>. QED
  BY <1>0, <1>1 DEF Leads

\* Decoding is reading that chain.
LEMMA DecodesChained ==
  ASSUME NEW bits \in Seq(Bit), NEW f
  PROVE  Decodes(f, bits) <=> Chained(f, Len(bits), Lettered(bits), Letter(bits), NextLetter(bits))
<1>1. ASSUME NEW p \in 1 .. Len(bits) + 1
      PROVE  (IF Lettered(bits)[p] THEN Letter(bits)[p] \o f[NextLetter(bits)[p]] ELSE <<>>)
               = IF Len(bits) - p < 4 THEN <<>>
                 ELSE IF Matches(bits, p) = {} THEN <<>>
                 ELSE <<MatchFrom(bits, p)>> \o f[p + Len(HuffmanBits[MatchFrom(bits, p)])]
  BY DEF Lettered, Letter, NextLetter
<1>. QED
  BY <1>1, Zenon DEF Decodes, Chained

\* Decoding ends from every place.
LEMMA DecodesExist ==
  ASSUME NEW bits \in Seq(Bit)
  PROVE  \E f : Decodes(f, bits)
<1>1. PICK f : Chained(f, Len(bits), Lettered(bits), Letter(bits), NextLetter(bits))
  BY LettersLead, ChainExists
<1>. QED
  BY <1>1, DecodesChained

\* HuffmanDecode is what is decoded from the first bit, cut to the capacity.
LEMMA DecodeIs ==
  ASSUME NEW bytes \in Bytes, NEW cap
  PROVE  \E f : Decodes(f, Bits(bytes)) /\ HuffmanDecode(bytes, cap) = Cut(f[1], cap)
<1>. DEFINE bits == Bits(bytes)
            matches(p) == {c \in DOMAIN HuffmanBits :
              SubSeq(bits, p, Min({Len(bits), p + Len(HuffmanBits[c]) - 1})) = HuffmanBits[c]}
            decode[p \in 1 .. Len(bits) + 1] ==
              IF Len(bits) - p < 4 THEN <<>>
              ELSE LET next(found) == IF found = {} THEN <<>>
                                      ELSE LET c == CHOOSE c \in found : TRUE
                                           IN <<c>> \o decode[p + Len(HuffmanBits[c])]
                   IN next(matches(p))
<1>1. HuffmanDecode(bytes, cap) = Cut(decode[1], cap)
  BY DEF HuffmanDecode
<1>2. bits \in Seq(Bit)
  BY BitsForm
<1>3. PICK f : Decodes(f, bits)
  BY <1>2, DecodesExist
<1>. DEFINE body(h) == [p \in 1 .. Len(bits) + 1 |->
              IF Len(bits) - p < 4 THEN <<>>
              ELSE IF Matches(bits, p) = {} THEN <<>>
              ELSE <<MatchFrom(bits, p)>> \o h[p + Len(HuffmanBits[MatchFrom(bits, p)])]]
<1>4. f = body(f)
  BY <1>3 DEF Decodes
<1>5. decode = CHOOSE h : h = body(h)
  BY DEF Matches, MatchFrom
<1>6. \E h : h = body(h)
  BY <1>4
<1>. HIDE DEF decode, body
<1>7. decode = body(decode)
  BY <1>5, <1>6
<1>8. Decodes(decode, bits)
  BY <1>7 DEF body, Decodes
<1>. QED
  BY <1>1, <1>8

\* What is decoded is letters of the table.
LEMMA DecodesType ==
  ASSUME NEW bits \in Seq(Bit), NEW f, Decodes(f, bits)
  PROVE  \A p \in 1 .. Len(bits) + 1 : f[p] \in Seq(Letters)
<1>1. Chained(f, Len(bits), Lettered(bits), Letter(bits), NextLetter(bits))
  BY DecodesChained
<1>. QED
  BY <1>1, LettersLead, ChainType

First(s, i) == [k \in 1 .. i |-> s[k]]

\* The first letters and one more.
LEMMA FirstMore ==
  ASSUME NEW S, NEW s \in Seq(S), NEW i \in Nat, i + 1 <= Len(s), NEW r \in Seq(S)
  PROVE  First(s, i) \o (<<s[i + 1]>> \o r) = First(s, i + 1) \o r
<1>1. First(s, i) \in Seq(S) /\ Len(First(s, i)) = i
  BY DEF First
<1>2. First(s, i + 1) = First(s, i) \o <<s[i + 1]>>
  BY DEF First
<1>3. <<s[i + 1]>> \in Seq(S)
  OBVIOUS
<1>4. \A a, b, c \in Seq(S) : a \o (b \o c) = (a \o b) \o c
  BY SMTT(30)
<1>5. First(s, i) \o (<<s[i + 1]>> \o r) = (First(s, i) \o <<s[i + 1]>>) \o r
  BY <1>1, <1>3, <1>4
<1>. QED
  BY <1>2, <1>5, Zenon

\* None of the letters, and all of them.
LEMMA FirstAll ==
  ASSUME NEW S, NEW s \in Seq(S)
  PROVE  First(s, 0) = <<>> /\ First(s, Len(s)) = s
BY DEF First

\* The code of every letter lies in the bits.
LEMMA CodesLie ==
  ASSUME NEW s \in HuffmanText, NEW f, Parts(f, Bit, Codes(s)), NEW i \in 1 .. Len(s)
  PROVE  /\ CodeAt(s[i], Bits(HuffmanEncode(s)), Len(f[i - 1]) + 1)
         /\ Len(f[i]) = Len(f[i - 1]) + Len(HuffmanBits[s[i]])
         /\ Len(f[i - 1]) \in Nat
<1>. DEFINE bits == Bits(HuffmanEncode(s))
            code == HuffmanCode(s)
            h == HuffmanBits[s[i]]
            a == Len(f[i - 1])
<1>1. /\ Codes(s) \in Seq(Seq(Bit)) /\ i \in 1 .. Len(Codes(s)) /\ Codes(s)[i] = h
      /\ code = FlattenSeq(Codes(s)) /\ code \in Seq(Bit) /\ s[i] \in DOMAIN HuffmanBits
  BY CodesType
<1>2. PartLies(f, Codes(s), i)
  BY <1>1, PartsLie
<1>3. Len(f[i]) = a + Len(h) /\ Len(f[i]) <= Len(code) /\ \A k \in 1 .. Len(h) : code[a + k] = h[k]
  BY <1>1, <1>2, Zenon DEF PartLies
<1>4. a \in Nat
  <2>1. i - 1 \in 0 .. Len(Codes(s))
    BY <1>1
  <2>2. f[i - 1] \in Seq(Bit)
    BY <2>1, Zenon DEF Parts
  <2>. QED
    BY <2>2
<1>5. Len(h) \in Nat
  BY <1>1, CodeForm
<1>6. Len(bits) = 8 * Octets(code) /\ \A j \in 1 .. Len(bits) : bits[j] = PaddedBit(code, j)
  BY BitsBack
<1>7. Octets(code) \in Nat /\ 8 * Octets(code) - Len(code) \in 0 .. 7
  BY EncodeForm
<1>8. Len(code) \in Nat
  BY <1>1
<1>. HIDE DEF bits, code, h, a
<1>9. a + Len(h) <= Len(bits)
  BY <1>3, <1>4, <1>5, <1>6, <1>7, <1>8, SMTT(30)
<1>10. ASSUME NEW k \in 1 .. Len(h) PROVE bits[(a + 1) + k - 1] = h[k]
  <2>1. (a + 1) + k - 1 = a + k /\ a + k \in 1 .. Len(bits) /\ a + k <= Len(code)
    BY <1>3, <1>4, <1>5, <1>6, <1>7, <1>8, <1>9
  <2>2. bits[a + k] = code[a + k]
    BY <1>6, <2>1, Zenon DEF PaddedBit
  <2>. QED
    BY <1>3, <2>1, <2>2, Zenon
<1>11. (a + 1) + Len(h) - 1 <= Len(bits)
  BY <1>4, <1>5, <1>6, <1>7, <1>9
<1>12. CodeAt(s[i], bits, a + 1)
  BY <1>10, <1>11 DEF CodeAt, h
<1>. QED
  BY <1>3, <1>4, <1>12 DEF bits, h, a

\* Behind the codes there are only ones.
LEMMA PaddingLies ==
  ASSUME NEW s \in HuffmanText, NEW d, Decodes(d, Bits(HuffmanEncode(s)))
  PROVE  /\ Len(HuffmanCode(s)) + 1 \in 1 .. Len(Bits(HuffmanEncode(s))) + 1
         /\ d[Len(HuffmanCode(s)) + 1] = <<>>
<1>. DEFINE bits == Bits(HuffmanEncode(s))
            code == HuffmanCode(s)
            p == Len(code) + 1
<1>1. /\ bits \in Seq(Bit) /\ Len(bits) = 8 * Octets(code)
      /\ \A j \in 1 .. Len(bits) : bits[j] = PaddedBit(code, j)
  BY BitsBack
<1>2. Octets(code) \in Nat /\ 8 * Octets(code) - Len(code) \in 0 .. 7
  BY EncodeForm
<1>3. Len(code) \in Nat
  BY CodesType
<1>. HIDE DEF bits, code
<1>4. p \in 1 .. Len(bits) + 1 /\ Len(bits) \in Nat
  BY <1>1, <1>2, <1>3
<1>5. ASSUME Len(bits) - p < 4 PROVE d[p] = <<>>
  <2>. HIDE DEF p
  <2>1. Decodes(d, bits)
    BY DEF bits
  <2>. QED
    BY <1>4, <1>5, <2>1, Zenon DEF Decodes
<1>6. ASSUME ~(Len(bits) - p < 4) PROVE d[p] = <<>>
  <2>1. p \in 1 .. Len(bits)
    BY <1>4, <1>6
  <2>2. \A j \in p .. Len(bits) : bits[j] = 1
    <3>1. ASSUME NEW j \in p .. Len(bits) PROVE bits[j] = 1
      <4>1. j \in 1 .. Len(bits) /\ ~(j <= Len(code))
        BY <1>3, <2>1
      <4>. QED
        BY <1>1, <4>1, Zenon DEF PaddedBit
    <3>. QED
      BY <3>1
  <2>. HIDE DEF p
  <2>3. Matches(bits, p) = {}
    <3>1. ASSUME NEW c \in Matches(bits, p) PROVE FALSE
      <4>1. c \in DOMAIN HuffmanBits
        BY DEF Matches
      <4>2. CodeAt(c, bits, p)
        BY <1>1, <2>1, <4>1, MatchIs
      <4>. QED
        BY <1>1, <2>1, <2>2, <4>1, <4>2, OnesMatchNothing
    <3>. QED
      BY <3>1
  <2>4. Decodes(d, bits)
    BY DEF bits
  <2>. QED
    BY <1>4, <2>3, <2>4, Zenon DEF Decodes
<1>7. d[p] = <<>>
  BY <1>5, <1>6
<1>. QED
  BY <1>4, <1>7 DEF bits, code

\* What is encoded is decoded, up to the room there is.
THEOREM HuffmanRoundTrip ==
  ASSUME NEW s \in HuffmanText, NEW cap
  PROVE  HuffmanDecode(HuffmanEncode(s), cap) = Cut(s, cap)
<1>. DEFINE bits == Bits(HuffmanEncode(s))
            n == Len(s)
<1>1. HuffmanEncode(s) \in Bytes
  BY EncodeType
<1>2. PICK d : Decodes(d, bits) /\ HuffmanDecode(HuffmanEncode(s), cap) = Cut(d[1], cap)
  BY <1>1, DecodeIs
<1>3. bits \in Seq(Bit)
  BY BitsBack
<1>4. s \in Seq(Letters) /\ n \in Nat
  BY DEF HuffmanText, Letters
<1>5. Codes(s) \in Seq(Seq(Bit)) /\ Len(Codes(s)) = n /\ HuffmanCode(s) = FlattenSeq(Codes(s))
  BY CodesType
<1>6. PICK f : Parts(f, Bit, Codes(s))
  BY <1>5, FlattenParts
<1>7. \A p \in 1 .. Len(bits) + 1 : d[p] \in Seq(Letters)
  BY <1>2, <1>3, DecodesType
<1>8. f[0] = <<>> /\ FlattenSeq(Codes(s)) = f[n]
  <2>1. FlattenSeq(Codes(s)) = f[Len(Codes(s))]
    BY <1>5, <1>6, FlattenIs
  <2>. QED
    BY <1>5, <1>6, <2>1 DEF Parts
<1>. DEFINE T == {i \in Nat : i <= n => d[1] = First(s, i) \o d[Len(f[i]) + 1]}
<1>. HIDE DEF bits, n
<1>9. 0 \in T
  <2>1. Len(bits) \in Nat
    BY <1>3
  <2>2. d[1] \in Seq(Letters)
    BY <1>7, <2>1
  <2>3. Len(f[0]) + 1 = 1 /\ First(s, 0) = <<>>
    BY <1>4, <1>8, FirstAll
  <2>4. First(s, 0) \o d[Len(f[0]) + 1] = d[1]
    BY <2>2, <2>3
  <2>. QED
    BY <2>4
<1>10. ASSUME NEW i \in Nat, i \in T PROVE i + 1 \in T
  <2>0. i + 1 \in Nat
    OBVIOUS
  <2>. SUFFICES ASSUME i + 1 <= n PROVE d[1] = First(s, i + 1) \o d[Len(f[i + 1]) + 1]
    BY <2>0, Zenon
  <2>. DEFINE c == s[i + 1]
              p == Len(f[i]) + 1
  <2>1. i + 1 \in 1 .. Len(s) /\ (i + 1) - 1 = i /\ i <= n
    BY <1>4 DEF n
  <2>2. /\ CodeAt(c, bits, p) /\ Len(f[i + 1]) = Len(f[i]) + Len(HuffmanBits[c]) /\ Len(f[i]) \in Nat
    <3>1. /\ CodeAt(c, bits, Len(f[(i + 1) - 1]) + 1)
          /\ Len(f[i + 1]) = Len(f[(i + 1) - 1]) + Len(HuffmanBits[c]) /\ Len(f[(i + 1) - 1]) \in Nat
      BY <1>6, <2>1, CodesLie DEF bits
    <3>. QED
      BY <2>1, <3>1, Zenon
  <2>3. c \in Letters /\ c \in DOMAIN HuffmanBits
    BY <1>4, <2>1 DEF Letters
  <2>4. d[1] = First(s, i) \o d[p]
    BY <1>10, <2>1
  <2>. HIDE DEF c, T
  <2>5. Len(HuffmanBits[c]) \in Nat /\ 5 <= Len(HuffmanBits[c])
    BY <2>3, CodeForm
  <2>6. p + Len(HuffmanBits[c]) - 1 <= Len(bits) /\ Len(bits) \in Nat
    <3>1. p + Len(HuffmanBits[c]) - 1 <= Len(bits)
      BY <2>2, Zenon DEF CodeAt
    <3>2. Len(bits) \in Nat
      BY <1>3
    <3>. QED
      BY <3>1, <3>2, Zenon
  <2>7. p \in 1 .. Len(bits) /\ ~(Len(bits) - p < 4) /\ p + Len(HuffmanBits[c]) = Len(f[i + 1]) + 1
        /\ Len(f[i + 1]) + 1 \in 1 .. Len(bits) + 1
    <3>. DEFINE a == Len(f[i])
                h == Len(HuffmanBits[c])
                b == Len(bits)
                e == Len(f[i + 1])
    <3>1. a \in Nat /\ h \in Nat /\ 5 <= h /\ b \in Nat /\ e = a + h /\ a + 1 + h - 1 <= b
      BY <2>2, <2>5, <2>6
    <3>. HIDE DEF a, h, b, e
    <3>2. a + 1 \in 1 .. b /\ ~(b - (a + 1) < 4) /\ a + 1 + h = e + 1 /\ e + 1 \in 1 .. b + 1
      BY <3>1
    <3>. QED
      BY <3>2 DEF a, h, b, e
  <2>. HIDE DEF p
  <2>8. c \in Matches(bits, p)
    BY <1>3, <2>2, <2>3, <2>7, MatchIs
  <2>9. MatchFrom(bits, p) = c
    <3>1. MatchFrom(bits, p) \in Letters /\ CodeAt(MatchFrom(bits, p), bits, p)
      BY <1>3, <2>7, <2>8, MatchedOn
    <3>. QED
      BY <1>3, <2>2, <2>3, <2>7, <3>1, MatchOne DEF Letters
  <2>10. d[p] = <<c>> \o d[Len(f[i + 1]) + 1]
    <3>1. p \in 1 .. Len(bits) + 1 /\ Matches(bits, p) # {}
      BY <2>6, <2>7, <2>8
    <3>2. d[p] = <<MatchFrom(bits, p)>> \o d[p + Len(HuffmanBits[MatchFrom(bits, p)])]
      BY <1>2, <2>7, <3>1, Zenon DEF Decodes
    <3>. QED
      BY <2>7, <2>9, <3>2, Zenon
  <2>11. d[Len(f[i + 1]) + 1] \in Seq(Letters)
    BY <1>7, <2>7
  <2>12. First(s, i) \o (<<c>> \o d[Len(f[i + 1]) + 1]) = First(s, i + 1) \o d[Len(f[i + 1]) + 1]
    <3>. DEFINE r == d[Len(f[i + 1]) + 1]
    <3>. HIDE DEF r
    <3>1. r \in Seq(Letters)
      BY <2>11 DEF r
    <3>2. i + 1 <= Len(s)
      BY DEF n
    <3>3. First(s, i) \o (<<s[i + 1]>> \o r) = First(s, i + 1) \o r
      BY <1>4, <3>1, <3>2, FirstMore, SMTT(30)
    <3>. QED
      BY <3>3 DEF r, c
  <2>. QED
    BY <2>4, <2>10, <2>12
<1>. HIDE DEF T
<1>11. \A i \in Nat : i \in T
  BY <1>9, <1>10, InductionSet
<1>12. d[1] = First(s, n) \o d[Len(f[n]) + 1]
  BY <1>4, <1>11 DEF T
<1>13. d[Len(f[n]) + 1] = <<>>
  BY <1>2, <1>5, <1>8, PaddingLies DEF bits
<1>14. First(s, n) = s
  BY <1>4, FirstAll DEF n
<1>15. d[1] = s
  BY <1>4, <1>12, <1>13, <1>14
<1>. QED
  BY <1>2, <1>15

-----------------------------------------------------------------------------
(* Strings. *)

\* What lies at a place is the stretch of its length there.
LEMMA LiesAtSub ==
  ASSUME NEW t \in Bytes, NEW data \in Bytes, NEW pos \in Nat \ {0}, LiesAt(t, data, pos)
  PROVE  SubSeq(data, pos, pos + Len(t) - 1) = t
<1>. DEFINE e == pos + Len(t) - 1
            u == SubSeq(data, pos, e)
<1>1. e <= Len(data) /\ \A k \in 1 .. Len(t) : data[pos + k - 1] = t[k]
  BY DEF LiesAt
<1>2. Len(t) \in Nat /\ Len(data) \in Nat
  BY DEF Bytes
<1>3. e - pos + 1 = Len(t) /\ e \in Nat
  BY <1>2
<1>. HIDE DEF e
<1>4. u \in Seq(Byte) /\ Len(u) = Len(t) /\ \A k \in 1 .. Len(t) : u[k] = data[pos + k - 1]
  <2>1. CASE Len(t) = 0
    <3>1. e = pos - 1
      BY <1>2, <1>3, <2>1
    <3>. QED
      BY <1>2, <2>1, <3>1 DEF Bytes
  <2>2. CASE Len(t) # 0
    <3>1. pos \in 1 .. Len(data) /\ e \in pos .. Len(data)
      BY <1>1, <1>2, <1>3, <2>2
    <3>2. u \in Seq(Byte) /\ Len(u) = e - pos + 1
      BY <3>1 DEF Bytes
    <3>3. \A k \in 1 .. e - pos + 1 : u[k] = data[pos + k - 1]
      BY <3>1 DEF Bytes
    <3>. QED
      BY <1>3, <3>2, <3>3
  <2>. QED
    BY <2>1, <2>2
<1>. HIDE DEF u
<1>5. u = t
  BY <1>1, <1>4, SMTT(30) DEF Bytes
<1>. QED
  BY <1>5 DEF u, e

\* A stretch of bytes is bytes.
LEMMA SubType ==
  ASSUME NEW data \in Bytes, NEW a \in Nat \ {0}, NEW b \in Int, b <= Len(data)
  PROVE  SubSeq(data, a, b) \in Bytes
<1>1. Len(data) \in Nat
  BY DEF Bytes
<1>2. CASE a <= b
  <2>1. \A k \in a .. b : data[k] \in Byte
    BY <1>1 DEF Bytes
  <2>. QED
    BY <1>1, <1>2, <2>1 DEF Bytes
<1>3. CASE ~(a <= b)
  BY <1>3 DEF Bytes
<1>. QED
  BY <1>2, <1>3

\* Cut keeps bytes, and all of them when there is room for one more.
LEMMA CutType ==
  ASSUME NEW s \in Bytes, NEW cap \in Nat \ {0}
  PROVE  Cut(s, cap) \in Bytes /\ (Len(s) < cap => Cut(s, cap) = s)
<1>1. Len(s) \in Nat
  BY DEF Bytes
<1>2. CASE Len(s) < cap
  <2>1. Cut(s, cap) = SubSeq(s, 1, Len(s))
    BY <1>2 DEF Cut
  <2>2. SubSeq(s, 1, Len(s)) = s
    BY DEF Bytes
  <2>. QED
    BY <2>1, <2>2
<1>3. CASE ~(Len(s) < cap)
  <2>1. Cut(s, cap) = SubSeq(s, 1, cap - 1)
    BY <1>3 DEF Cut
  <2>2. cap - 1 \in Int /\ cap - 1 <= Len(s)
    BY <1>1, <1>3
  <2>3. SubSeq(s, 1, cap - 1) \in Bytes
    BY <2>2, SubType
  <2>. QED
    BY <1>3, <2>1, <2>3
<1>. QED
  BY <1>2, <1>3

\* Reading: how far, and a number.
LEMMA QpackIntRead ==
  ASSUME NEW bits \in {3, 4, 6, 7}, NEW data \in Bytes, NEW pos \in Nat \ {0}
  PROVE  LET r == ReadQpackInt(data, pos, bits) IN
         /\ r.n \in Nat /\ r.value \in Nat
         /\ r.n # 0 => pos + r.n - 1 <= Len(data)
<1>. DEFINE most == PrefixMost(bits)
            first == data[pos] % 2 ^ bits
            last == UpTo(data, pos + 1, 0 .. 127)
            r == ReadQpackInt(data, pos, bits)
<1>1. 2 ^ bits - 1 = most /\ 2 ^ bits = most + 1 /\ most \in {7, 15, 63, 127}
  BY PrefixBits
<1>. HIDE DEF most
<1>2. r = IF pos > Len(data) THEN TooFew
          ELSE IF first # most THEN [n |-> 1, value |-> first]
          ELSE IF last > Len(data) THEN TooFew
          ELSE [n |-> last - pos + 1, value |-> most + ContinuationValue(data, pos + 1, last)]
  BY <1>1 DEF ReadQpackInt
<1>. HIDE DEF r
<1>3. Len(data) \in Nat
  BY DEF Bytes
<1>. DEFINE Fine == r.n \in Nat /\ r.value \in Nat /\ (r.n # 0 => pos + r.n - 1 <= Len(data))
<1>4. ASSUME pos > Len(data) PROVE Fine
  BY <1>2, <1>4 DEF TooFew
<1>5. ASSUME ~(pos > Len(data)), first # most PROVE Fine
  <2>1. data[pos] \in Byte
    BY <1>3, <1>5 DEF Bytes
  <2>2. data[pos] \in Nat
    BY <2>1, ByteIsNat
  <2>3. first \in Nat
    <3>1. first = data[pos] % (most + 1)
      BY <1>1
    <3>. QED
      BY <1>1, <2>2, <3>1
  <2>4. r = [n |-> 1, value |-> first]
    BY <1>2, <1>5
  <2>. QED
    BY <1>3, <1>5, <2>3, <2>4
<1>6. ASSUME ~(pos > Len(data)), first = most, last > Len(data) PROVE Fine
  BY <1>2, <1>6 DEF TooFew
<1>7. ASSUME ~(pos > Len(data)), first = most, ~(last > Len(data)) PROVE Fine
  <2>1. pos + 1 \in 1 .. Len(data) + 1
    BY <1>3, <1>7
  <2>2. last \in pos + 1 .. Len(data) + 1
    BY <2>1, UpToPlace
  <2>. HIDE DEF last
  <2>3. pos + 1 \in Nat \ {0} /\ last \in pos + 1 .. Len(data)
    BY <1>3, <1>7, <2>2
  <2>4. ContinuationValue(data, pos + 1, last) \in Nat
    BY <2>3, ContinuationValueStep
  <2>5. r = [n |-> last - pos + 1, value |-> most + ContinuationValue(data, pos + 1, last)]
    BY <1>2, <1>7
  <2>6. last - pos + 1 \in Nat /\ pos + (last - pos + 1) - 1 <= Len(data)
    BY <1>3, <2>3
  <2>7. most + ContinuationValue(data, pos + 1, last) \in Nat
    BY <1>1, <2>4
  <2>. QED
    BY <2>5, <2>6, <2>7
<1>8. Fine
  BY <1>4, <1>5, <1>6, <1>7, Zenon
<1>. QED
  BY <1>8 DEF r

\* What is iterated stays where the step leads.
LEMMA IterationTyped ==
  ASSUME NEW V, NEW base, NEW n, NEW step, Grows(V, base, n, step), NEW f, f[0] = base,
         \A i \in 1 .. n : f[i - 1] \in V => f[i] = step[<<i, f[i - 1]>>]
  PROVE  \A i \in 0 .. n : f[i] \in V
<1>0. base \in V /\ n \in Nat /\ step \in [(1 .. n) \X V -> V]
  BY DEF Grows
<1>. DEFINE T == {i \in Nat : i <= n => f[i] \in V}
<1>1. 0 \in T
  BY <1>0
<1>2. ASSUME NEW i \in Nat, i \in T PROVE i + 1 \in T
  <2>. SUFFICES ASSUME i + 1 <= n PROVE f[i + 1] \in V
    OBVIOUS
  <2>1. i + 1 \in 1 .. n /\ (i + 1) - 1 = i
    BY <1>0
  <2>2. f[i] \in V
    BY <1>0, <1>2
  <2>3. f[i + 1] = step[<<i + 1, f[i]>>]
    BY <2>1, <2>2, Zenon
  <2>. QED
    BY <1>0, <2>1, <2>2, <2>3
<1>. HIDE DEF T
<1>3. \A i \in Nat : i \in T
  BY <1>1, <1>2, InductionSet
<1>. QED
  BY <1>0, <1>3 DEF T

\* MyAtoi gives a number for every text.
LEMMA MyAtoiType ==
  ASSUME NEW s \in Bytes
  PROVE  MyAtoi(s) \in Nat
<1>. DEFINE n == UpTo(s, 1, Byte \ Digits) - 1
            value[i \in 0 .. n] == IF i = 0 THEN 0 ELSE 10 * value[i - 1] + s[i] - 48
            step == [p \in (1 .. n) \X Nat |-> 10 * p[2] + s[p[1]] - 48]
<1>1. MyAtoi(s) = value[n]
  BY DEF MyAtoi
<1>2. n \in 0 .. Len(s) /\ \A k \in 1 .. n : s[k] \notin Byte \ Digits
  <2>1. Len(s) \in Nat /\ 1 \in 1 .. Len(s) + 1
    BY DEF Bytes
  <2>. DEFINE u == UpTo(s, 1, Byte \ Digits)
  <2>2. u \in 1 .. Len(s) + 1 /\ \A k \in 1 .. u - 1 : s[k] \notin Byte \ Digits
    BY <2>1, UpToPlace
  <2>. HIDE DEF u
  <2>3. u - 1 \in 0 .. Len(s) /\ n = u - 1
    BY <2>1, <2>2 DEF u
  <2>. HIDE DEF n
  <2>. QED
    BY <2>2, <2>3, Zenon
<1>. HIDE DEF n
<1>3. n \in Nat /\ \A k \in 1 .. n : s[k] \in 48 .. 57
  <2>1. n \in Nat /\ \A k \in 1 .. n : s[k] \in Byte
    BY <1>2 DEF Bytes
  <2>. QED
    BY <1>2, <2>1 DEF Digits
<1>4. \A i \in 1 .. n, v \in Nat : 10 * v + s[i] - 48 \in Nat
  BY <1>3
<1>5. Grows(Nat, 0, n, step)
  BY <1>3, <1>4 DEF Grows
<1>6. \A i \in 1 .. n, v \in Nat : step[<<i, v>>] = 10 * v + s[i] - 48
  OBVIOUS
<1>. HIDE DEF step
<1>7. PICK f : Grown(f, Nat, 0, n, step)
  BY <1>5, Iteration
<1>8. f = [i \in 0 .. n |-> IF i = 0 THEN 0 ELSE 10 * f[i - 1] + s[i] - 48]
  <2>1. f \in [0 .. n -> Nat] /\ f[0] = 0 /\ \A i \in 1 .. n : f[i] = step[<<i, f[i - 1]>>]
    BY <1>7 DEF Grown
  <2>2. ASSUME NEW i \in 1 .. n PROVE f[i] = 10 * f[i - 1] + s[i] - 48
    <3>1. f[i - 1] \in Nat
      BY <1>3, <2>1
    <3>. QED
      BY <1>6, <2>1, <3>1
  <2>. QED
    BY <1>3, <2>1, <2>2
<1>9. value = [i \in 0 .. n |-> IF i = 0 THEN 0 ELSE 10 * value[i - 1] + s[i] - 48]
  <2>. HIDE DEF value
  <2>1. \E h : h = [i \in 0 .. n |-> IF i = 0 THEN 0 ELSE 10 * h[i - 1] + s[i] - 48]
    BY <1>8
  <2>. QED
    BY <2>1 DEF value
<1>. HIDE DEF value
<1>10. value[0] = 0 /\ \A i \in 1 .. n : value[i - 1] \in Nat => value[i] = step[<<i, value[i - 1]>>]
  BY <1>3, <1>6, <1>9
<1>11. \A i \in 0 .. n : value[i] \in Nat
  BY <1>5, <1>10, IterationTyped
<1>. QED
  BY <1>1, <1>3, <1>11

\* HuffmanDecode gives bytes for all bytes.
LEMMA HuffmanDecodeType ==
  ASSUME NEW bytes \in Bytes, NEW cap \in Nat \ {0}
  PROVE  HuffmanDecode(bytes, cap) \in Bytes
<1>1. PICK f : Decodes(f, Bits(bytes)) /\ HuffmanDecode(bytes, cap) = Cut(f[1], cap)
  BY DecodeIs
<1>2. Bits(bytes) \in Seq(Bit)
  BY BitsForm
<1>3. 1 \in 1 .. Len(Bits(bytes)) + 1
  BY <1>2
<1>4. f[1] \in Seq(Letters)
  BY <1>1, <1>2, <1>3, DecodesType
<1>5. Letters \subseteq Byte
  BY DEF Letters, HuffmanBits, Byte
<1>6. f[1] \in Bytes
  BY <1>4, <1>5 DEF Bytes
<1>. QED
  BY <1>1, <1>6, CutType

\* ReadQpackString gives a text for all bytes, and reads none beyond the end.
LEMMA QpackStringRead ==
  ASSUME NEW data \in Bytes, NEW pos \in Nat \ {0}, NEW cap \in Nat \ {0}
  PROVE  LET r == ReadQpackString(data, pos, cap) IN
         /\ r.n \in Nat /\ r.text \in Bytes
         /\ r.n # 0 => pos + r.n - 1 <= Len(data)
<1>. DEFINE len == ReadQpackInt(data, pos, 7)
            n == len.n + len.value
            raw == SubSeq(data, pos + len.n, pos + n - 1)
            text == IF data[pos] >= 128 THEN HuffmanDecode(raw, cap) ELSE Cut(raw, cap)
            r == ReadQpackString(data, pos, cap)
            Fine == r.n \in Nat /\ r.text \in Bytes /\ (r.n # 0 => pos + r.n - 1 <= Len(data))
<1>1. r = IF len.n = 0 \/ pos + n - 1 > Len(data) THEN [n |-> 0, text |-> <<>>]
          ELSE [n |-> n, text |-> text]
  BY DEF ReadQpackString
<1>2. len.n \in Nat /\ len.value \in Nat
  BY QpackIntRead
<1>3. Len(data) \in Nat
  BY DEF Bytes
<1>. HIDE DEF len, r
<1>4. ASSUME len.n = 0 \/ pos + n - 1 > Len(data) PROVE Fine
  BY <1>1, <1>4 DEF Bytes
<1>5. ASSUME ~(len.n = 0 \/ pos + n - 1 > Len(data)) PROVE Fine
  <2>1. raw \in Bytes
    <3>1. pos + len.n \in Nat \ {0} /\ pos + n - 1 \in Int /\ pos + n - 1 <= Len(data)
      BY <1>2, <1>3, <1>5
    <3>. QED
      BY <3>1, SubType
  <2>2. n \in Nat /\ pos + n - 1 <= Len(data)
    BY <1>2, <1>3, <1>5
  <2>. HIDE DEF raw, n
  <2>3. text \in Bytes
    BY <2>1, HuffmanDecodeType, CutType
  <2>. HIDE DEF text
  <2>4. r = [n |-> n, text |-> text]
    BY <1>1, <1>5, Zenon DEF n
  <2>. QED
    BY <2>2, <2>3, <2>4
<1>6. Fine
  BY <1>4, <1>5
<1>. QED
  BY <1>6 DEF r

\* What a server may send as a text.
Sendable(s, huffman) == s \in Bytes /\ huffman \in BOOLEAN /\ (huffman => s \in HuffmanText)

\* The letters of the table are bytes.
LEMMA TextIsBytes ==
  ASSUME NEW s \in HuffmanText
  PROVE  s \in Bytes
<1>1. DOMAIN HuffmanBits \subseteq Byte
  BY DEF HuffmanBits, Byte
<1>. QED
  BY <1>1 DEF HuffmanText, Bytes

\* The prefixes of strings: their bit for Huffman is the one above.
LEMMA StringPrefix ==
  /\ 0 \in FixedBits(7) /\ 128 \in FixedBits(7) /\ 0 + 2 ^ 7 = 128
  /\ 32 \in FixedBits(3) /\ 40 \in FixedBits(3) /\ 32 + 2 ^ 3 = 40
  /\ 192 \in FixedBits(6) /\ 80 \in FixedBits(4)
  /\ PrefixMost(3) = 7 /\ PrefixMost(4) = 15 /\ PrefixMost(6) = 63 /\ PrefixMost(7) = 127
<1>1. PrefixMost(3) = 7 /\ PrefixMost(4) = 15 /\ PrefixMost(6) = 63 /\ PrefixMost(7) = 127
  BY DEF PrefixMost
<1>2. 2 ^ 7 = 128 /\ 2 ^ 3 = 8
  OBVIOUS
<1>. QED
  BY <1>1, <1>2 DEF FixedBits

\* The bytes of a string behind its length.
StringBytes(s, huffman) == IF huffman THEN HuffmanEncode(s) ELSE s
StringBits(fixed, prefix, huffman) == IF huffman THEN fixed + 2 ^ prefix ELSE fixed

\* A string on the wire: its length with the bit for the code, then its bytes.
LEMMA StringForm ==
  ASSUME NEW prefix, NEW fixed, NEW s, NEW huffman, Sendable(s, huffman)
  PROVE  /\ ServerString(prefix, fixed, s, huffman) =
              WriteQpackInt(prefix, StringBits(fixed, prefix, huffman), Len(StringBytes(s, huffman)))
              \o StringBytes(s, huffman)
         /\ StringBytes(s, huffman) \in Bytes /\ Len(StringBytes(s, huffman)) \in Nat
<1>1. CASE huffman
  <2>1. HuffmanEncode(s) \in Bytes
    BY <1>1, EncodeType DEF Sendable
  <2>2. Len(HuffmanEncode(s)) \in Nat
    BY <2>1 DEF Bytes
  <2>. QED
    BY <1>1, <2>1, <2>2 DEF ServerString, StringBytes, StringBits
<1>2. CASE ~huffman
  BY <1>2 DEF ServerString, StringBytes, StringBits, Sendable, Bytes
<1>. QED
  BY <1>1, <1>2

\* A string on the wire is bytes, at least one.
LEMMA StringType ==
  ASSUME NEW s, NEW huffman, Sendable(s, huffman)
  PROVE  /\ ServerString(7, 0, s, huffman) \in Bytes /\ ServerString(7, 0, s, huffman) # <<>>
         /\ ServerString(3, 32, s, huffman) \in Bytes /\ ServerString(3, 32, s, huffman) # <<>>
<1>. DEFINE t == StringBytes(s, huffman)
<1>1. ASSUME NEW prefix \in {3, 7}, NEW fixed, StringBits(fixed, prefix, huffman) \in FixedBits(prefix)
      PROVE  ServerString(prefix, fixed, s, huffman) \in Bytes
               /\ ServerString(prefix, fixed, s, huffman) # <<>>
  <2>. DEFINE w == WriteQpackInt(prefix, StringBits(fixed, prefix, huffman), Len(t))
  <2>1. ServerString(prefix, fixed, s, huffman) = w \o t /\ t \in Bytes /\ Len(t) \in Nat
    BY StringForm
  <2>. HIDE DEF t
  <2>2. w \in Bytes /\ w # <<>>
    BY <1>1, <2>1, QpackIntType
  <2>. HIDE DEF w
  <2>3. w \o t \in Bytes /\ w \o t # <<>>
    BY <2>1, <2>2 DEF Bytes
  <2>. QED
    BY <2>1, <2>3
<1>2. StringBits(0, 7, huffman) \in FixedBits(7) /\ StringBits(32, 3, huffman) \in FixedBits(3)
  BY StringPrefix DEF StringBits, Sendable
<1>. QED
  BY <1>1, <1>2

\* A string is read as it was sent, up to the room there is.
LEMMA StringRoundTrip ==
  ASSUME NEW s, NEW huffman, Sendable(s, huffman), NEW cap \in Nat \ {0},
         NEW data \in Bytes, NEW pos \in Nat \ {0}, LiesAt(ServerString(7, 0, s, huffman), data, pos)
  PROVE  ReadQpackString(data, pos, cap) =
           [n |-> Len(ServerString(7, 0, s, huffman)), text |-> Cut(s, cap)]
<1>. DEFINE t == StringBytes(s, huffman)
            b == StringBits(0, 7, huffman)
            w == WriteQpackInt(7, b, Len(t))
            len == ReadQpackInt(data, pos, 7)
            n == len.n + len.value
            raw == SubSeq(data, pos + len.n, pos + n - 1)
            text == IF data[pos] >= 128 THEN HuffmanDecode(raw, cap) ELSE Cut(raw, cap)
<1>1. ServerString(7, 0, s, huffman) = w \o t /\ t \in Bytes /\ Len(t) \in Nat
  BY StringForm
<1>2. b \in FixedBits(7) /\ huffman \in BOOLEAN
  BY StringPrefix DEF StringBits, Sendable
<1>3. IF huffman THEN b = 128 ELSE b = 0
  BY StringPrefix DEF StringBits
<1>4. ReadQpackString(data, pos, cap) =
        IF len.n = 0 \/ pos + n - 1 > Len(data) THEN [n |-> 0, text |-> <<>>]
        ELSE [n |-> n, text |-> text]
  BY DEF ReadQpackString
<1>5. huffman => HuffmanDecode(t, cap) = Cut(s, cap)
  BY HuffmanRoundTrip DEF StringBytes, Sendable
<1>6. ~huffman => t = s
  BY DEF StringBytes
<1>. HIDE DEF t, b
<1>7. w \in Bytes /\ w # <<>>
  BY <1>1, <1>2, QpackIntType
<1>8. LiesAt(w, data, pos) /\ LiesAt(t, data, pos + Len(w))
  <2>. HIDE DEF w
  <2>1. LiesAt(w \o t, data, pos)
    BY <1>1
  <2>. QED
    BY <1>1, <1>7, <2>1, LiesAtParts
<1>9. len = [n |-> Len(w), value |-> Len(t)] /\ data[pos] \in b .. b + 127
  <2>1. len = [n |-> Len(w), value |-> Len(t)] /\ data[pos] \in b .. b + PrefixMost(7)
    BY <1>1, <1>2, <1>8, QpackIntRoundTrip
  <2>. QED
    BY <2>1, StringPrefix
<1>. HIDE DEF w, len
<1>10. Len(w) \in Nat \ {0} /\ Len(data) \in Nat
  BY <1>7 DEF Bytes
<1>11. len.n = Len(w) /\ n = Len(w) + Len(t)
  BY <1>9
<1>12. pos + n - 1 = pos + Len(w) + Len(t) - 1 /\ pos + Len(w) \in Nat \ {0}
  BY <1>1, <1>10, <1>11
<1>13. raw = t
  <2>1. SubSeq(data, pos + Len(w), pos + Len(w) + Len(t) - 1) = t
    BY <1>1, <1>8, <1>12, LiesAtSub
  <2>. QED
    BY <1>11, <1>12, <2>1, Zenon
<1>14. ~(len.n = 0 \/ pos + n - 1 > Len(data))
  <2>1. pos + Len(w) + Len(t) - 1 <= Len(data)
    BY <1>8, Zenon DEF LiesAt
  <2>. QED
    BY <1>1, <1>10, <1>11, <1>12, <2>1
<1>. HIDE DEF raw
<1>15. text = Cut(s, cap)
  <2>1. CASE huffman
    <3>1. data[pos] >= 128
      BY <1>3, <1>9, <2>1
    <3>. QED
      BY <1>5, <1>13, <2>1, <3>1
  <2>2. CASE ~huffman
    <3>1. ~(data[pos] >= 128)
      BY <1>3, <1>9, <2>2
    <3>. QED
      BY <1>6, <1>13, <2>2, <3>1
  <2>. QED
    BY <2>1, <2>2
<1>. HIDE DEF text
<1>16. Len(w \o t) = Len(w) + Len(t)
  BY <1>1, <1>7 DEF Bytes
<1>. QED
  BY <1>1, <1>4, <1>11, <1>14, <1>15, <1>16, Zenon DEF text, raw

-----------------------------------------------------------------------------
(* The field lines of a block. *)

(* The field lines of a block, one place after the other. *)

LineName(data, pos) == ReadQpackString(data, pos, NameCap)
LineIndex(data, pos) == ReadQpackInt(data, pos, IF data[pos] >= 128 THEN 6 ELSE 4)
ValueStart(data, pos) == pos + (IF data[pos] < 64 THEN LineName(data, pos).n ELSE LineIndex(data, pos).n)
LineValue(data, pos) == ReadQpackString(data, ValueStart(data, pos), ValueCap)

WholeLine(data, pos) ==
  /\ ~(pos > Len(data)) /\ ~(data[pos] < 32)
  /\ IF data[pos] >= 128 THEN LineIndex(data, pos).n # 0
     ELSE ValueStart(data, pos) # pos /\ LineValue(data, pos).n # 0

NextLine(data, pos) ==
  IF data[pos] >= 128 THEN pos + LineIndex(data, pos).n
  ELSE ValueStart(data, pos) + LineValue(data, pos).n

NamesStatus(data, pos) ==
  IF data[pos] < 64 THEN LineName(data, pos).text = StatusName
  ELSE /\ LineIndex(data, pos).value \in DOMAIN StaticStatus
       /\ IF data[pos] >= 128 THEN data[pos] % 128 >= 64 ELSE data[pos] % 32 >= 16

StatusRead(data, pos) ==
  IF data[pos] >= 128 THEN StaticStatus[LineIndex(data, pos).value] ELSE MyAtoi(LineValue(data, pos).text)

LineStatuses(data, pos) == IF NamesStatus(data, pos) THEN <<StatusRead(data, pos)>> ELSE <<>>

\* f is what the lines from each place on say.
StatusesFrom(f, data) ==
  Chained(f, Len(data), [p \in 1 .. Len(data) + 1 |-> WholeLine(data, p)],
          [p \in 1 .. Len(data) + 1 |-> LineStatuses(data, p)],
          [p \in 1 .. Len(data) + 1 |-> NextLine(data, p)])

\* A line read to its end adds at most one status and leads further on.
LEMMA LineLeads ==
  ASSUME NEW data \in Bytes, NEW pos \in 1 .. Len(data) + 1, WholeLine(data, pos)
  PROVE  LineStatuses(data, pos) \in Seq(Nat) /\ NextLine(data, pos) \in pos + 1 .. Len(data) + 1
<1>0. Len(data) \in Nat /\ pos \in 1 .. Len(data) /\ pos \in Nat \ {0}
  BY DEF WholeLine, Bytes
<1>1. LineName(data, pos).n \in Nat /\ LineName(data, pos).text \in Bytes
  BY <1>0, QpackStringRead DEF LineName, NameCap
<1>2. /\ LineIndex(data, pos).n \in Nat /\ LineIndex(data, pos).value \in Nat
      /\ LineIndex(data, pos).n # 0 => pos + LineIndex(data, pos).n - 1 <= Len(data)
  <2>. DEFINE bits == IF data[pos] >= 128 THEN 6 ELSE 4
  <2>1. bits \in {3, 4, 6, 7}
    OBVIOUS
  <2>. HIDE DEF bits
  <2>2. LET r == ReadQpackInt(data, pos, bits) IN
        r.n \in Nat /\ r.value \in Nat /\ (r.n # 0 => pos + r.n - 1 <= Len(data))
    BY <1>0, <2>1, QpackIntRead
  <2>. QED
    BY <2>2 DEF LineIndex, bits
<1>3. ValueStart(data, pos) \in Nat \ {0} /\ pos <= ValueStart(data, pos)
  BY <1>0, <1>1, <1>2, SMTT(30) DEF ValueStart
<1>4. LET r == LineValue(data, pos) IN
      r.n \in Nat /\ r.text \in Bytes /\ (r.n # 0 => ValueStart(data, pos) + r.n - 1 <= Len(data))
  BY <1>3, QpackStringRead DEF LineValue, ValueCap
<1>5. LineStatuses(data, pos) \in Seq(Nat)
  <2>1. CASE NamesStatus(data, pos)
    <3>1. StatusRead(data, pos) \in Nat
      <4>1. CASE data[pos] >= 128
        <5>1. LineIndex(data, pos).value \in DOMAIN StaticStatus
          <6>1. data[pos] \in Nat
            <7>1. data[pos] \in Byte
              BY <1>0 DEF Bytes
            <7>. QED
              BY <7>1, ByteIsNat
          <6>2. ~(data[pos] < 64)
            BY <4>1, <6>1
          <6>. QED
            BY <2>1, <6>2 DEF NamesStatus
        <5>2. \A i \in DOMAIN StaticStatus : StaticStatus[i] \in Nat
          BY DEF StaticStatus
        <5>. QED
          BY <4>1, <5>1, <5>2 DEF StatusRead
      <4>2. CASE ~(data[pos] >= 128)
        BY <1>4, <4>2, MyAtoiType DEF StatusRead
      <4>. QED
        BY <4>1, <4>2
    <3>. QED
      BY <2>1, <3>1 DEF LineStatuses
  <2>2. CASE ~NamesStatus(data, pos)
    BY <2>2 DEF LineStatuses
  <2>. QED
    BY <2>1, <2>2
<1>6. CASE data[pos] >= 128
  <2>1. LineIndex(data, pos).n # 0 /\ NextLine(data, pos) = pos + LineIndex(data, pos).n
    BY <1>6 DEF WholeLine, NextLine
  <2>. QED
    BY <1>0, <1>2, <1>5, <2>1
<1>7. CASE ~(data[pos] >= 128)
  <2>1. /\ LineValue(data, pos).n # 0
        /\ NextLine(data, pos) = ValueStart(data, pos) + LineValue(data, pos).n
    BY <1>7 DEF WholeLine, NextLine
  <2>. QED
    BY <1>0, <1>3, <1>4, <1>5, <2>1
<1>. QED
  BY <1>6, <1>7

\* The lines of any block are a chain.
LEMMA LinesLead ==
  ASSUME NEW data \in Bytes
  PROVE  Leads(Nat, Len(data), [p \in 1 .. Len(data) + 1 |-> WholeLine(data, p)],
               [p \in 1 .. Len(data) + 1 |-> LineStatuses(data, p)],
               [p \in 1 .. Len(data) + 1 |-> NextLine(data, p)])
BY LineLeads DEF Leads, Bytes

LastOf(all, was) == IF all = <<>> THEN was ELSE all[Len(all)]

\* QpackDecodeStatus reads the chain of lines from the third byte on and keeps the last
\* status.
LEMMA DecodeStatusIs ==
  ASSUME NEW data \in Bytes, NEW was
  PROVE  \E f : /\ StatusesFrom(f, data)
                /\ QpackDecodeStatus(data, was) = IF Len(data) < 2 THEN was ELSE LastOf(f[3], was)
<1>. DEFINE one(isStatus, s) == IF isStatus THEN <<s>> ELSE <<>>
            found[pos \in 1 .. Len(data) + 1] ==
              LET valued(isStatus, start, val) ==
                    IF start = pos \/ val.n = 0 THEN <<>>
                    ELSE one(isStatus, MyAtoi(val.text)) \o found[start + val.n]
                  literal(isStatus, n) == valued(isStatus, pos + n, ReadQpackString(data, pos + n, ValueCap))
                  named(name) == literal(name.text = StatusName, name.n)
                  indexed(b, idx) ==
                    LET static == idx.value \in DOMAIN StaticStatus IN
                    IF b < 128 THEN literal(static /\ b % 32 >= 16, idx.n)
                    ELSE IF idx.n = 0 THEN <<>>
                    ELSE one(static /\ b % 128 >= 64, StaticStatus[idx.value]) \o found[pos + idx.n]
                  line(b) == IF b < 32 THEN <<>>
                             ELSE IF b < 64 THEN named(ReadQpackString(data, pos, NameCap))
                             ELSE indexed(b, ReadQpackInt(data, pos, IF b >= 128 THEN 6 ELSE 4))
              IN IF pos > Len(data) THEN <<>> ELSE line(data[pos])
            body(h) == [pos \in 1 .. Len(data) + 1 |->
                          IF WholeLine(data, pos) THEN LineStatuses(data, pos) \o h[NextLine(data, pos)]
                          ELSE <<>>]
<1>1. QpackDecodeStatus(data, was) = IF Len(data) < 2 THEN was ELSE LastOf(found[3], was)
  BY DEF QpackDecodeStatus, LastOf
<1>. DEFINE turn(h, pos) ==
              LET valued(isStatus, start, val) ==
                    IF start = pos \/ val.n = 0 THEN <<>>
                    ELSE one(isStatus, MyAtoi(val.text)) \o h[start + val.n]
                  literal(isStatus, n) == valued(isStatus, pos + n, ReadQpackString(data, pos + n, ValueCap))
                  named(name) == literal(name.text = StatusName, name.n)
                  indexed(b, idx) ==
                    LET static == idx.value \in DOMAIN StaticStatus IN
                    IF b < 128 THEN literal(static /\ b % 32 >= 16, idx.n)
                    ELSE IF idx.n = 0 THEN <<>>
                    ELSE one(static /\ b % 128 >= 64, StaticStatus[idx.value]) \o h[pos + idx.n]
                  line(b) == IF b < 32 THEN <<>>
                             ELSE IF b < 64 THEN named(ReadQpackString(data, pos, NameCap))
                             ELSE indexed(b, ReadQpackInt(data, pos, IF b >= 128 THEN 6 ELSE 4))
              IN IF pos > Len(data) THEN <<>> ELSE line(data[pos])
<1>2. found = CHOOSE h : h = [pos \in 1 .. Len(data) + 1 |-> turn(h, pos)]
  OBVIOUS
<1>. HIDE DEF found
<1>3. ASSUME NEW h, NEW pos \in 1 .. Len(data) + 1
      PROVE  turn(h, pos) = IF WholeLine(data, pos) THEN LineStatuses(data, pos) \o h[NextLine(data, pos)]
                            ELSE <<>>
  <2>0. pos > Len(data) \/ data[pos] \in Nat
    <3>1. ~(pos > Len(data)) => data[pos] \in Byte
      BY DEF Bytes
    <3>. QED
      BY <3>1, ByteIsNat
  <2>1. CASE pos > Len(data)
    BY <2>1 DEF WholeLine
  <2>2. CASE ~(pos > Len(data)) /\ data[pos] < 32
    BY <2>0, <2>2 DEF WholeLine
  <2>3. CASE ~(pos > Len(data)) /\ ~(data[pos] < 32) /\ data[pos] < 64
    <3>1. turn(h, pos) =
            IF ValueStart(data, pos) = pos \/ LineValue(data, pos).n = 0 THEN <<>>
            ELSE one(LineName(data, pos).text = StatusName, MyAtoi(LineValue(data, pos).text))
                 \o h[ValueStart(data, pos) + LineValue(data, pos).n]
      BY <2>3 DEF LineName, ValueStart, LineValue
    <3>2. ~(data[pos] >= 128)
      BY <2>0, <2>3
    <3>. HIDE DEF turn
    <3>. QED
      BY <2>3, <3>1, <3>2 DEF WholeLine, LineStatuses, NextLine, NamesStatus, StatusRead
  <2>4. CASE ~(pos > Len(data)) /\ ~(data[pos] < 64) /\ data[pos] < 128
    <3>0. ~(data[pos] >= 128) /\ ~(data[pos] < 32)
      BY <2>0, <2>4
    <3>1. turn(h, pos) =
            IF ValueStart(data, pos) = pos \/ LineValue(data, pos).n = 0 THEN <<>>
            ELSE one(LineIndex(data, pos).value \in DOMAIN StaticStatus /\ data[pos] % 32 >= 16,
                     MyAtoi(LineValue(data, pos).text))
                 \o h[ValueStart(data, pos) + LineValue(data, pos).n]
      BY <2>4, <3>0 DEF LineIndex, ValueStart, LineValue
    <3>. HIDE DEF turn
    <3>. QED
      BY <2>4, <3>0, <3>1 DEF WholeLine, LineStatuses, NextLine, NamesStatus, StatusRead
  <2>5. CASE ~(pos > Len(data)) /\ ~(data[pos] < 64) /\ ~(data[pos] < 128)
    <3>0. data[pos] >= 128 /\ ~(data[pos] < 32)
      BY <2>0, <2>5
    <3>1. turn(h, pos) =
            IF LineIndex(data, pos).n = 0 THEN <<>>
            ELSE one(LineIndex(data, pos).value \in DOMAIN StaticStatus /\ data[pos] % 128 >= 64,
                     StaticStatus[LineIndex(data, pos).value])
                 \o h[pos + LineIndex(data, pos).n]
      BY <2>5, <3>0 DEF LineIndex
    <3>. HIDE DEF turn
    <3>. QED
      BY <2>5, <3>0, <3>1 DEF WholeLine, LineStatuses, NextLine, NamesStatus, StatusRead
  <2>. HIDE DEF turn
  <2>. QED
    BY <2>0, <2>1, <2>2, <2>3, <2>4, <2>5
<1>. HIDE DEF turn
<1>4. PICK f : StatusesFrom(f, data)
  BY LinesLead, ChainExists DEF StatusesFrom
<1>5. f = [pos \in 1 .. Len(data) + 1 |-> turn(f, pos)]
  BY <1>3, <1>4 DEF StatusesFrom, Chained
<1>6. found = [pos \in 1 .. Len(data) + 1 |-> turn(found, pos)]
  BY <1>2, <1>5
<1>7. StatusesFrom(found, data)
  BY <1>3, <1>6 DEF StatusesFrom, Chained
<1>. QED
  BY <1>1, <1>7

\* QpackDecodeStatus gives a number for every block of bytes.
LEMMA DecodeStatusType ==
  ASSUME NEW data \in Bytes, NEW was \in Nat
  PROVE  QpackDecodeStatus(data, was) \in Nat
<1>1. PICK f : /\ StatusesFrom(f, data)
               /\ QpackDecodeStatus(data, was) = IF Len(data) < 2 THEN was ELSE LastOf(f[3], was)
  BY DecodeStatusIs
<1>2. CASE Len(data) < 2
  BY <1>1, <1>2
<1>3. CASE ~(Len(data) < 2)
  <2>1. \A p \in 1 .. Len(data) + 1 : f[p] \in Seq(Nat)
    BY <1>1, LinesLead, ChainType DEF StatusesFrom
  <2>2. 3 \in 1 .. Len(data) + 1
    BY <1>3 DEF Bytes
  <2>3. f[3] \in Seq(Nat)
    BY <2>1, <2>2
  <2>4. LastOf(f[3], was) \in Nat
    <3>1. CASE f[3] = <<>>
      BY <3>1 DEF LastOf
    <3>2. CASE f[3] # <<>>
      <4>1. Len(f[3]) \in 1 .. Len(f[3])
        BY <2>3, <3>2
      <4>2. f[3][Len(f[3])] \in Nat
        BY <2>3, <4>1
      <4>. QED
        BY <3>2, <4>2 DEF LastOf
    <3>. QED
      BY <3>1, <3>2
  <2>. QED
    BY <1>1, <1>3, <2>4
<1>. QED
  BY <1>2, <1>3

\* The kinds of lines, and what may be in them.
LEMMA LineKinds ==
  ASSUME NEW l \in ServerLines
  PROVE  /\ l.kind \in {"indexed", "ref", "literal"}
         /\ l.kind = "indexed" => l.idx \in Nat
         /\ l.kind = "ref" => /\ l.idx \in Nat /\ Sendable(l.text, l.huffman)
                              /\ l.idx \in DOMAIN StaticStatus => Len(l.text) < ValueCap
         /\ l.kind = "literal" => Sendable(l.name, l.huffman) /\ Sendable(l.text, l.huffman)
<1>1. l \in Line /\ (l.kind = "ref" /\ l.idx \in DOMAIN StaticStatus => Len(l.text) < ValueCap)
  BY DEF ServerLines
<1>2. CASE l \in [kind : {"indexed"}, idx : Nat]
  BY <1>2
<1>3. CASE l \in [kind : {"ref"}, idx : Nat, text : Bytes, huffman : {FALSE}]
  <2>1. l.kind = "ref" /\ l.idx \in Nat /\ l.text \in Bytes /\ l.huffman = FALSE
    BY <1>3
  <2>. QED
    BY <1>1, <2>1 DEF Sendable
<1>4. CASE l \in [kind : {"ref"}, idx : Nat, text : HuffmanText, huffman : {TRUE}]
  <2>1. l.kind = "ref" /\ l.idx \in Nat /\ l.text \in HuffmanText /\ l.huffman = TRUE
    BY <1>4
  <2>2. l.text \in Bytes
    BY <2>1, TextIsBytes
  <2>. QED
    BY <1>1, <2>1, <2>2 DEF Sendable
<1>5. CASE l \in [kind : {"literal"}, name : Bytes, text : Bytes, huffman : {FALSE}]
  <2>1. l.kind = "literal" /\ l.name \in Bytes /\ l.text \in Bytes /\ l.huffman = FALSE
    BY <1>5
  <2>. QED
    BY <2>1 DEF Sendable
<1>6. CASE l \in [kind : {"literal"}, name : HuffmanText, text : HuffmanText, huffman : {TRUE}]
  <2>1. l.kind = "literal" /\ l.name \in HuffmanText /\ l.text \in HuffmanText /\ l.huffman = TRUE
    BY <1>6
  <2>2. l.text \in Bytes /\ l.name \in Bytes
    BY <2>1, TextIsBytes
  <2>. QED
    BY <2>1, <2>2 DEF Sendable
<1>. QED
  BY <1>1, <1>2, <1>3, <1>4, <1>5, <1>6 DEF Line

\* Bytes behind bytes of which there is at least one.
LEMMA BytesTogether ==
  ASSUME NEW s \in Bytes, NEW t \in Bytes, s # <<>>
  PROVE  s \o t \in Bytes /\ s \o t # <<>> /\ Len(s \o t) = Len(s) + Len(t)
BY DEF Bytes

\* A line of the server is bytes, at least one.
LEMMA LineType ==
  ASSUME NEW l \in ServerLines
  PROVE  ServerLine(l) \in Bytes /\ ServerLine(l) # <<>>
<1>1. CASE l.kind = "indexed"
  <2>1. ServerLine(l) = WriteQpackInt(6, 192, l.idx) /\ l.idx \in Nat
    BY <1>1, LineKinds DEF ServerLine
  <2>. QED
    BY <2>1, StringPrefix, QpackIntType
<1>2. CASE l.kind = "ref"
  <2>1. /\ ServerLine(l) = WriteQpackInt(4, 80, l.idx) \o ServerString(7, 0, l.text, l.huffman)
        /\ l.idx \in Nat /\ Sendable(l.text, l.huffman)
    BY <1>2, LineKinds DEF ServerLine
  <2>2. WriteQpackInt(4, 80, l.idx) \in Bytes /\ WriteQpackInt(4, 80, l.idx) # <<>>
    BY <2>1, StringPrefix, QpackIntType
  <2>3. ServerString(7, 0, l.text, l.huffman) \in Bytes
    BY <2>1, StringType
  <2>. QED
    BY <2>1, <2>2, <2>3, BytesTogether
<1>3. CASE l.kind = "literal"
  <2>1. /\ ServerLine(l) = ServerString(3, 32, l.name, l.huffman) \o ServerString(7, 0, l.text, l.huffman)
        /\ Sendable(l.name, l.huffman) /\ Sendable(l.text, l.huffman)
    BY <1>3, LineKinds DEF ServerLine
  <2>2. ServerString(3, 32, l.name, l.huffman) \in Bytes /\ ServerString(3, 32, l.name, l.huffman) # <<>>
    BY <2>1, StringType
  <2>3. ServerString(7, 0, l.text, l.huffman) \in Bytes
    BY <2>1, StringType
  <2>. QED
    BY <2>1, <2>2, <2>3, BytesTogether
<1>. QED
  BY <1>1, <1>2, <1>3, LineKinds

\* A line whose name is in the static table is read as it was sent.
LEMMA LineRoundTrip ==
  ASSUME NEW l \in ServerLines, l.kind # "literal", NEW data \in Bytes, NEW pos \in Nat \ {0},
         LiesAt(ServerLine(l), data, pos)
  PROVE  /\ WholeLine(data, pos)
         /\ NextLine(data, pos) = pos + Len(ServerLine(l))
         /\ LineStatuses(data, pos) = LineStatus(l)
<1>0. Len(data) \in Nat /\ Len(ServerLine(l)) \in Nat \ {0} /\ ~(pos > Len(data))
  <2>1. Len(data) \in Nat /\ Len(ServerLine(l)) \in Nat \ {0}
    BY LineType DEF Bytes
  <2>2. pos + Len(ServerLine(l)) - 1 <= Len(data)
    BY DEF LiesAt
  <2>. QED
    BY <2>1, <2>2
<1>1. CASE l.kind = "indexed"
  <2>1. ServerLine(l) = WriteQpackInt(6, 192, l.idx) /\ l.idx \in Nat
    BY <1>1, LineKinds DEF ServerLine
  <2>2. /\ ReadQpackInt(data, pos, 6) = [n |-> Len(ServerLine(l)), value |-> l.idx]
        /\ data[pos] \in 192 .. 192 + PrefixMost(6)
    <3>1. LiesAt(WriteQpackInt(6, 192, l.idx), data, pos) /\ 192 \in FixedBits(6)
      BY <2>1, StringPrefix
    <3>. QED
      BY <2>1, <3>1, QpackIntRoundTrip
  <2>3. data[pos] >= 128 /\ ~(data[pos] < 64) /\ ~(data[pos] < 32) /\ data[pos] % 128 >= 64
    <3>1. \A b \in 192 .. 192 + 63 : b >= 128 /\ ~(b < 64) /\ ~(b < 32) /\ b % 128 >= 64
      OBVIOUS
    <3>2. data[pos] \in 192 .. 192 + 63
      BY <2>2, StringPrefix, Zenon
    <3>. QED
      BY <3>1, <3>2, Zenon
  <2>4. LineIndex(data, pos) = [n |-> Len(ServerLine(l)), value |-> l.idx]
    BY <2>2, <2>3 DEF LineIndex
  <2>5. WholeLine(data, pos)
    BY <1>0, <2>3, <2>4 DEF WholeLine
  <2>6. NextLine(data, pos) = pos + Len(ServerLine(l))
    BY <2>3, <2>4 DEF NextLine
  <2>7. NamesStatus(data, pos) <=> l.idx \in DOMAIN StaticStatus
    BY <2>3, <2>4 DEF NamesStatus
  <2>8. StatusRead(data, pos) = StaticStatus[l.idx]
    BY <2>3, <2>4 DEF StatusRead
  <2>9. LineStatuses(data, pos) = LineStatus(l)
    BY <1>1, <2>7, <2>8 DEF LineStatuses, LineStatus
  <2>. QED
    BY <2>5, <2>6, <2>9
<1>2. CASE l.kind = "ref"
  <2>. DEFINE w == WriteQpackInt(4, 80, l.idx)
              t == ServerString(7, 0, l.text, l.huffman)
  <2>1. /\ ServerLine(l) = w \o t /\ l.idx \in Nat /\ Sendable(l.text, l.huffman)
        /\ l.idx \in DOMAIN StaticStatus => Len(l.text) < ValueCap
    BY <1>2, LineKinds DEF ServerLine
  <2>2. w \in Bytes /\ w # <<>>
    BY <2>1, StringPrefix, QpackIntType
  <2>3. t \in Bytes /\ t # <<>>
    BY <2>1, StringType
  <2>. HIDE DEF w, t
  <2>4. LiesAt(w, data, pos) /\ LiesAt(t, data, pos + Len(w))
    BY <2>1, <2>2, <2>3, LiesAtParts
  <2>5. /\ ReadQpackInt(data, pos, 4) = [n |-> Len(w), value |-> l.idx]
        /\ data[pos] \in 80 .. 80 + PrefixMost(4)
    <3>1. LiesAt(WriteQpackInt(4, 80, l.idx), data, pos) /\ 80 \in FixedBits(4)
      BY <2>4, StringPrefix DEF w
    <3>. QED
      BY <2>1, <3>1, QpackIntRoundTrip DEF w
  <2>6. ~(data[pos] >= 128) /\ ~(data[pos] < 64) /\ ~(data[pos] < 32) /\ data[pos] % 32 >= 16
    <3>1. \A b \in 80 .. 80 + 15 : ~(b >= 128) /\ ~(b < 64) /\ ~(b < 32) /\ b % 32 >= 16
      OBVIOUS
    <3>2. data[pos] \in 80 .. 80 + 15
      BY <2>5, StringPrefix, Zenon
    <3>. QED
      BY <3>1, <3>2, Zenon
  <2>7. LineIndex(data, pos) = [n |-> Len(w), value |-> l.idx]
    BY <2>5, <2>6 DEF LineIndex
  <2>8. Len(w) \in Nat \ {0} /\ Len(t) \in Nat \ {0} /\ Len(ServerLine(l)) = Len(w) + Len(t)
    BY <2>1, <2>2, <2>3 DEF Bytes
  <2>9. ValueStart(data, pos) = pos + Len(w)
    BY <2>6, <2>7 DEF ValueStart
  <2>10. LineValue(data, pos) = [n |-> Len(t), text |-> Cut(l.text, ValueCap)]
    <3>1. pos + Len(w) \in Nat \ {0} /\ ValueCap \in Nat \ {0}
      BY <2>8 DEF ValueCap
    <3>. QED
      BY <2>1, <2>4, <2>9, <3>1, StringRoundTrip DEF LineValue, t
  <2>11. WholeLine(data, pos)
    BY <1>0, <2>6, <2>8, <2>9, <2>10 DEF WholeLine
  <2>12. NextLine(data, pos) = pos + Len(ServerLine(l))
    BY <2>6, <2>8, <2>9, <2>10 DEF NextLine
  <2>13. NamesStatus(data, pos) <=> l.idx \in DOMAIN StaticStatus
    BY <2>6, <2>7 DEF NamesStatus
  <2>14. l.idx \in DOMAIN StaticStatus => StatusRead(data, pos) = MyAtoi(l.text)
    <3>1. l.idx \in DOMAIN StaticStatus => Cut(l.text, ValueCap) = l.text
      BY <2>1, CutType DEF Sendable, ValueCap
    <3>. QED
      BY <2>6, <2>10, <3>1 DEF StatusRead
  <2>15. LineStatuses(data, pos) = LineStatus(l)
    BY <1>2, <2>13, <2>14 DEF LineStatuses, LineStatus
  <2>. QED
    BY <2>11, <2>12, <2>15
<1>. QED
  BY <1>1, <1>2, LineKinds

\* The same behind a head.
LEMMA PartLiesAt ==
  ASSUME NEW head \in Bytes, NEW s \in Seq(Bytes), NEW f, Parts(f, Byte, s), NEW i \in 1 .. Len(s)
  PROVE  /\ LiesAt(s[i], head \o FlattenSeq(s), Len(head) + Len(f[i - 1]) + 1)
         /\ Len(f[i]) = Len(f[i - 1]) + Len(s[i]) /\ Len(f[i - 1]) \in Nat /\ Len(s[i]) \in Nat
<1>. DEFINE a == Len(f[i - 1])
            t == FlattenSeq(s)
            h == Len(head)
            e == s[i]
<1>1. PartLies(f, s, i)
  BY PartsLie DEF Bytes
<1>2. Len(f[i]) = a + Len(e) /\ Len(f[i]) <= Len(t) /\ \A k \in 1 .. Len(e) : t[a + k] = e[k]
  BY <1>1, Zenon DEF PartLies
<1>3. t \in Bytes
  BY FlattenType DEF Bytes
<1>4. a \in Nat
  <2>1. i - 1 \in 0 .. Len(s)
    OBVIOUS
  <2>2. f[i - 1] \in Seq(Byte)
    BY <2>1, Zenon DEF Parts
  <2>. QED
    BY <2>2
<1>5. e \in Bytes
  OBVIOUS
<1>. HIDE DEF a, t, e
<1>6. Len(e) \in Nat /\ Len(t) \in Nat /\ h \in Nat /\ Len(head \o t) = h + Len(t)
  BY <1>3, <1>5 DEF Bytes
<1>7. \A j \in 1 .. Len(t) : (head \o t)[h + j] = t[j]
  BY <1>3 DEF Bytes
<1>. HIDE DEF h
<1>8. h + a + 1 \in 1 .. Len(head \o t) + 1 /\ (h + a + 1) + Len(e) - 1 <= Len(head \o t)
  BY <1>2, <1>4, <1>6
<1>9. ASSUME NEW k \in 1 .. Len(e) PROVE (head \o t)[(h + a + 1) + k - 1] = e[k]
  <2>1. (h + a + 1) + k - 1 = h + (a + k) /\ a + k \in 1 .. Len(t)
    BY <1>2, <1>4, <1>6
  <2>2. (head \o t)[h + (a + k)] = t[a + k]
    BY <1>7, <2>1, Zenon
  <2>. QED
    BY <1>2, <2>1, <2>2, Zenon
<1>10. LiesAt(e, head \o t, h + a + 1)
  BY <1>8, <1>9 DEF LiesAt
<1>. QED
  BY <1>2, <1>4, <1>6, <1>10 DEF h, a, t, e

\* Concatenation is associative.
LEMMA Regrouped == \A a, b, c \in Seq(Nat) : a \o (b \o c) = (a \o b) \o c
BY SMTT(30)

\* Bytes behind bytes.
LEMMA Joined ==
  \A s, t \in Bytes : s \o t \in Bytes /\ Len(s \o t) = Len(s) + Len(t) /\ Len(t) \in Nat
BY DEF Bytes

LinesBytes(lines) == [i \in 1 .. Len(lines) |-> ServerLine(lines[i])]
LinesStatus(lines) == [k \in 1 .. Len(lines) |-> LineStatus(lines[k])]

\* What a line says is a status or nothing.
LEMMA LineStatusType ==
  ASSUME NEW l \in ServerLines
  PROVE  LineStatus(l) \in Seq(Nat)
<1>1. \A i \in DOMAIN StaticStatus : StaticStatus[i] \in Nat
  BY DEF StaticStatus
<1>2. CASE l.kind = "indexed"
  <2>1. LineStatus(l) = IF l.idx \in DOMAIN StaticStatus THEN <<StaticStatus[l.idx]>> ELSE <<>>
    BY <1>2 DEF LineStatus
  <2>. QED
    BY <1>1, <2>1
<1>3. CASE l.kind = "ref"
  <2>1. LineStatus(l) = IF l.idx \in DOMAIN StaticStatus THEN <<MyAtoi(l.text)>> ELSE <<>>
    BY <1>3 DEF LineStatus
  <2>2. MyAtoi(l.text) \in Nat
    BY <1>3, LineKinds, MyAtoiType DEF Sendable
  <2>. QED
    BY <2>1, <2>2
<1>4. CASE l.kind = "literal"
  <2>1. LineStatus(l) = IF l.name = StatusName THEN <<MyAtoi(l.text)>> ELSE <<>>
    BY <1>4 DEF LineStatus
  <2>2. MyAtoi(l.text) \in Nat
    BY <1>4, LineKinds, MyAtoiType DEF Sendable
  <2>. QED
    BY <2>1, <2>2
<1>. QED
  BY <1>2, <1>3, <1>4, LineKinds

\* The lines of a block, written and read one by one.
LEMMA LinesType ==
  ASSUME NEW lines \in Seq(ServerLines)
  PROVE  /\ LinesBytes(lines) \in Seq(Bytes) /\ Len(LinesBytes(lines)) = Len(lines)
         /\ \A i \in 1 .. Len(lines) : lines[i] \in ServerLines /\ LinesBytes(lines)[i] = ServerLine(lines[i])
         /\ FlattenSeq(LinesBytes(lines)) \in Bytes
         /\ LinesStatus(lines) \in Seq(Seq(Nat)) /\ Len(LinesStatus(lines)) = Len(lines)
         /\ \A i \in 1 .. Len(lines) : LinesStatus(lines)[i] = LineStatus(lines[i])
         /\ FlattenSeq(LinesStatus(lines)) \in Seq(Nat)
<1>1. Len(lines) \in Nat /\ \A i \in 1 .. Len(lines) : lines[i] \in ServerLines
  OBVIOUS
<1>2. \A i \in 1 .. Len(lines) : ServerLine(lines[i]) \in Bytes /\ LineStatus(lines[i]) \in Seq(Nat)
  BY <1>1, LineType, LineStatusType
<1>3. LinesBytes(lines) \in Seq(Bytes) /\ Len(LinesBytes(lines)) = Len(lines)
      /\ \A i \in 1 .. Len(lines) : LinesBytes(lines)[i] = ServerLine(lines[i])
  BY <1>1, <1>2 DEF LinesBytes
<1>4. LinesStatus(lines) \in Seq(Seq(Nat)) /\ Len(LinesStatus(lines)) = Len(lines)
      /\ \A i \in 1 .. Len(lines) : LinesStatus(lines)[i] = LineStatus(lines[i])
  BY <1>1, <1>2 DEF LinesStatus
<1>5. FlattenSeq(LinesBytes(lines)) \in Bytes
  BY <1>3, FlattenType DEF Bytes
<1>6. FlattenSeq(LinesStatus(lines)) \in Seq(Nat)
  BY <1>4, FlattenType
<1>. QED
  BY <1>1, <1>3, <1>4, <1>5, <1>6

\* The block that names no field: its statuses are those that were sent.
THEOREM BlockRoundTrip ==
  ASSUME NEW lines \in Seq(ServerLines), \A k \in 1 .. Len(lines) : lines[k].kind # "literal", NEW was
  PROVE  QpackDecodeStatus(<<0, 0>> \o FlattenSeq(LinesBytes(lines)), was)
           = LastOf(FlattenSeq(LinesStatus(lines)), was)
<1>. DEFINE n == Len(lines)
            ls == LinesBytes(lines)
            ss == LinesStatus(lines)
            head == <<0, 0>>
            data == head \o FlattenSeq(ls)
<1>1. /\ n \in Nat /\ ls \in Seq(Bytes) /\ Len(ls) = n /\ ss \in Seq(Seq(Nat)) /\ Len(ss) = n
      /\ FlattenSeq(ls) \in Bytes
      /\ \A i \in 1 .. n : lines[i] \in ServerLines /\ ls[i] = ServerLine(lines[i])
           /\ ss[i] = LineStatus(lines[i])
  BY LinesType
<1>2. head \in Bytes /\ Len(head) = 2
  BY DEF Bytes, Byte
<1>. HIDE DEF ls, ss, head
<1>3. data \in Bytes /\ Len(data) = 2 + Len(FlattenSeq(ls)) /\ Len(FlattenSeq(ls)) \in Nat
  <2>. DEFINE t == FlattenSeq(ls)
  <2>1. t \in Bytes
    BY <1>1
  <2>. HIDE DEF t
  <2>2. head \o t \in Bytes /\ Len(head \o t) = Len(head) + Len(t) /\ Len(t) \in Nat
    BY <1>2, <2>1, Joined, Zenon
  <2>. QED
    BY <1>2, <2>2 DEF t
<1>4. PICK f : Parts(f, Byte, ls)
  BY <1>1, FlattenParts DEF Bytes
<1>5. PICK g : Parts(g, Nat, ss)
  BY <1>1, FlattenParts
<1>6. FlattenSeq(ls) = f[n] /\ FlattenSeq(ss) = g[n]
  <2>1. FlattenSeq(ls) = f[Len(ls)]
    BY <1>1, <1>4, FlattenIs DEF Bytes
  <2>2. FlattenSeq(ss) = g[Len(ss)]
    BY <1>1, <1>5, FlattenIs
  <2>. QED
    BY <1>1, <2>1, <2>2
<1>. HIDE DEF data
<1>7. PICK h : /\ StatusesFrom(h, data)
               /\ QpackDecodeStatus(data, was) = IF Len(data) < 2 THEN was ELSE LastOf(h[3], was)
  BY <1>3, DecodeStatusIs
<1>8. \A p \in 1 .. Len(data) + 1 : h[p] \in Seq(Nat)
  BY <1>3, <1>7, LinesLead, ChainType DEF StatusesFrom
<1>9. \A p \in 1 .. Len(data) + 1 :
        h[p] = IF WholeLine(data, p) THEN LineStatuses(data, p) \o h[NextLine(data, p)] ELSE <<>>
  <2>1. ASSUME NEW p \in 1 .. Len(data) + 1
        PROVE h[p] = IF WholeLine(data, p) THEN LineStatuses(data, p) \o h[NextLine(data, p)] ELSE <<>>
    BY <1>7 DEF StatusesFrom, Chained
  <2>. QED
    BY <2>1
<1>. DEFINE T == {i \in Nat : i <= n => h[3] = g[i] \o h[3 + Len(f[i])]}
<1>. HIDE DEF n
<1>10. 0 \in T
  <2>1. f[0] = <<>> /\ g[0] = <<>>
    BY <1>4, <1>5, Zenon DEF Parts
  <2>2. 3 \in 1 .. Len(data) + 1
    BY <1>3
  <2>3. h[3] \in Seq(Nat)
    BY <1>8, <2>2
  <2>4. 3 + Len(f[0]) = 3
    BY <2>1
  <2>5. g[0] \o h[3] = h[3]
    BY <2>1, <2>3
  <2>6. h[3] = g[0] \o h[3 + Len(f[0])]
    BY <2>4, <2>5, Zenon
  <2>. QED
    BY <2>6
<1>11. ASSUME NEW i \in Nat, i \in T PROVE i + 1 \in T
  <2>0. i + 1 \in Nat
    OBVIOUS
  <2>. SUFFICES ASSUME i + 1 <= n PROVE h[3] = g[i + 1] \o h[3 + Len(f[i + 1])]
    BY <2>0, Zenon
  <2>. DEFINE l == lines[i + 1]
              p == 3 + Len(f[i])
  <2>1. i + 1 \in 1 .. n /\ (i + 1) - 1 = i /\ i <= n /\ i \in 0 .. n
    BY <1>1
  <2>2. l \in ServerLines /\ l.kind # "literal" /\ ls[i + 1] = ServerLine(l) /\ ss[i + 1] = LineStatus(l)
    BY <1>1, <2>1 DEF n
  <2>3. h[3] = g[i] \o h[p]
    BY <1>11, <2>1
  <2>. HIDE DEF l, T
  <2>4. /\ LiesAt(ls[i + 1], data, Len(head) + Len(f[(i + 1) - 1]) + 1)
        /\ Len(f[i + 1]) = Len(f[(i + 1) - 1]) + Len(ls[i + 1]) /\ Len(f[(i + 1) - 1]) \in Nat
        /\ Len(ls[i + 1]) \in Nat
    BY <1>1, <1>2, <1>4, <2>1, PartLiesAt DEF data
  <2>5. /\ LiesAt(ServerLine(l), data, Len(head) + Len(f[i]) + 1)
        /\ Len(f[i + 1]) = Len(f[i]) + Len(ServerLine(l)) /\ Len(f[i]) \in Nat /\ Len(ServerLine(l)) \in Nat
    BY <2>1, <2>2, <2>4, Zenon
  <2>6. Len(head) + Len(f[i]) + 1 = p /\ p \in Nat \ {0} /\ p + Len(ServerLine(l)) = 3 + Len(f[i + 1])
    BY <1>2, <2>5
  <2>. HIDE DEF p
  <2>7. /\ WholeLine(data, p) /\ NextLine(data, p) = p + Len(ServerLine(l))
        /\ LineStatuses(data, p) = LineStatus(l)
    <3>1. LiesAt(ServerLine(l), data, p)
      BY <2>5, <2>6
    <3>. QED
      BY <1>3, <2>2, <2>6, <3>1, LineRoundTrip
  <2>8. p \in 1 .. Len(data) + 1 /\ 3 + Len(f[i + 1]) \in 1 .. Len(data) + 1
    <3>1. p + Len(ServerLine(l)) - 1 <= Len(data)
      BY <2>5, <2>6, Zenon DEF LiesAt
    <3>. QED
      BY <1>3, <2>5, <2>6, <3>1, SMTT(30)
  <2>9. h[p] = LineStatus(l) \o h[3 + Len(f[i + 1])]
    <3>1. h[p] = LineStatuses(data, p) \o h[NextLine(data, p)]
      BY <1>9, <2>7, <2>8, Zenon
    <3>. QED
      BY <2>6, <2>7, <3>1, Zenon
  <2>10. g[i + 1] = g[i] \o LineStatus(l) /\ g[i] \in Seq(Nat) /\ LineStatus(l) \in Seq(Nat)
    <3>1. g[i + 1] = g[(i + 1) - 1] \o ss[i + 1]
      BY <1>1, <1>5, <2>1, Zenon DEF Parts
    <3>2. g[i] \in Seq(Nat)
      BY <1>1, <1>5, <2>1, Zenon DEF Parts
    <3>. QED
      BY <2>1, <2>2, <3>1, <3>2, LineStatusType
  <2>11. h[3 + Len(f[i + 1])] \in Seq(Nat)
    BY <1>8, <2>8
  <2>12. g[i] \o (LineStatus(l) \o h[3 + Len(f[i + 1])]) = (g[i] \o LineStatus(l)) \o h[3 + Len(f[i + 1])]
    BY <2>10, <2>11, Regrouped, Zenon
  <2>. QED
    BY <2>3, <2>9, <2>10, <2>12, Zenon
<1>. HIDE DEF T
<1>12. \A i \in Nat : i \in T
  BY <1>10, <1>11, InductionSet
<1>13. n \in T
  BY <1>1, <1>12
<1>14. h[3] = g[n] \o h[3 + Len(f[n])]
  <2>1. n \in Nat /\ n <= n
    BY <1>1
  <2>. QED
    BY <1>13, <2>1, Zenon DEF T
<1>15. h[3 + Len(f[n])] = <<>>
  <2>. DEFINE p == 3 + Len(f[n])
  <2>1. p \in 1 .. Len(data) + 1 /\ p > Len(data)
    BY <1>3, <1>6
  <2>. HIDE DEF p
  <2>2. ~WholeLine(data, p)
    BY <2>1 DEF WholeLine
  <2>3. h[p] = <<>>
    BY <1>9, <2>1, <2>2, Zenon
  <2>. QED
    BY <2>3 DEF p
<1>16. h[3] = FlattenSeq(ss)
  <2>1. g[n] \in Seq(Nat)
    BY <1>1, <1>6, LinesType DEF ss
  <2>. QED
    BY <1>6, <1>14, <1>15, <2>1
<1>17. ~(Len(data) < 2)
  BY <1>3
<1>. QED
  BY <1>7, <1>16, <1>17, Zenon DEF data, head, ls, ss

-----------------------------------------------------------------------------
(* Frames, and a stream that ends early. *)

\* An int is far below the 2^62 an integer on the wire may reach.
LEMMA IntMaxFits == \A n \in Nat : n <= INT_MAX => n < VarintEnd
<1>. DEFINE a == 256 * (256 * (256 * (256 * 64)))
            b == 256 * a
            c == 256 * b
            d == 256 * c
<1>1. a \in Nat /\ INT_MAX < a /\ INT_MAX \in Nat
  BY SMT DEF INT_MAX
<1>2. VarintEnd = d
  BY DEF VarintEnd
<1>. HIDE DEF a
<1>3. \A x \in Nat : x <= 256 * x /\ 256 * x \in Nat
  OBVIOUS
<1>4. a <= b /\ b \in Nat
  BY <1>1, <1>3
<1>. HIDE DEF b
<1>5. b <= c /\ c \in Nat
  BY <1>3, <1>4
<1>. HIDE DEF c
<1>6. c <= d /\ d \in Nat
  BY <1>3, <1>5
<1>. HIDE DEF d
<1>. QED
  BY <1>1, <1>2, <1>4, <1>5, <1>6

\* The payload of a frame the server sends is bytes whose length an int holds.
LEMMA PayloadType ==
  ASSUME NEW f \in ServerFrame
  PROVE  /\ f.type \in Nat /\ f.type < VarintEnd
         /\ ServerPayload(f) \in Bytes /\ Len(ServerPayload(f)) \in Nat /\ Len(ServerPayload(f)) < VarintEnd
         /\ f.type = HEADERS => /\ f.lines \in Seq(ServerLines)
                                /\ ServerPayload(f) = <<0, 0>> \o FlattenSeq(LinesBytes(f.lines))
         /\ f.type # HEADERS => f.bytes \in Bytes /\ ServerPayload(f) = f.bytes
<1>1. f \in Frame /\ f.type <= INT_MAX /\ Len(ServerPayload(f)) <= INT_MAX
  BY DEF ServerFrame
<1>2. f.type = HEADERS => f.lines \in Seq(ServerLines)
  BY <1>1 DEF Frame
<1>3. f.type # HEADERS => f.bytes \in Bytes
  BY <1>1 DEF Frame
<1>4. f.type \in Nat
  BY <1>1 DEF Frame, HEADERS
<1>5. f.type = HEADERS => ServerPayload(f) = <<0, 0>> \o FlattenSeq(LinesBytes(f.lines))
  BY DEF ServerPayload, LinesBytes
<1>6. f.type # HEADERS => ServerPayload(f) = f.bytes
  BY DEF ServerPayload
<1>7. ServerPayload(f) \in Bytes
  <2>1. CASE f.type = HEADERS
    <3>1. FlattenSeq(LinesBytes(f.lines)) \in Bytes
      BY <1>2, <2>1, LinesType
    <3>2. <<0, 0>> \in Bytes
      BY DEF Bytes, Byte
    <3>3. <<0, 0>> \o FlattenSeq(LinesBytes(f.lines)) \in Bytes
      BY <3>1, <3>2, Joined, Zenon
    <3>. QED
      BY <1>5, <2>1, <3>3
  <2>. QED
    BY <1>3, <1>6, <2>1
<1>8. Len(ServerPayload(f)) \in Nat
  BY <1>7 DEF Bytes
<1>. QED
  BY <1>1, <1>2, <1>3, <1>4, <1>5, <1>6, <1>7, <1>8, IntMaxFits

\* A frame is bytes: two integers and the payload.
LEMMA FrameType ==
  ASSUME NEW type \in Nat, type < VarintEnd, NEW payload \in Bytes, Len(payload) < VarintEnd
  PROVE  /\ WriteHttp3Frame(type, payload) \in Bytes /\ WriteHttp3Frame(type, payload) # <<>>
         /\ Len(WriteHttp3Frame(type, payload))
              = Len(WriteQuicVarint(type)) + Len(WriteQuicVarint(Len(payload))) + Len(payload)
<1>. DEFINE n == Len(payload)
            a == WriteQuicVarint(type)
            b == WriteQuicVarint(n)
<1>0. n \in Nat
  BY DEF Bytes
<1>1. a \in Bytes /\ Len(a) = VarintLength(type) /\ b \in Bytes
  BY <1>0, VarintType
<1>2. Len(a) > 0
  BY <1>1, SMT DEF VarintLength
<1>3. WriteHttp3Frame(type, payload) = a \o b \o payload
  BY DEF WriteHttp3Frame
<1>. HIDE DEF a, b
<1>4. a \o b \in Bytes /\ Len(a \o b) = Len(a) + Len(b) /\ Len(b) \in Nat
  BY <1>1, Joined, Zenon
<1>5. /\ (a \o b) \o payload \in Bytes /\ Len((a \o b) \o payload) = Len(a \o b) + Len(payload)
      /\ Len(payload) \in Nat
  BY <1>4, Joined, Zenon
<1>6. Len(WriteHttp3Frame(type, payload)) = Len(a) + Len(b) + Len(payload)
  BY <1>3, <1>4, <1>5, Zenon
<1>7. Len(a) \in Nat
  BY <1>1 DEF Bytes
<1>8. Len(WriteHttp3Frame(type, payload)) > 0
  BY <1>2, <1>4, <1>5, <1>6, <1>7
<1>9. WriteHttp3Frame(type, payload) # <<>>
  <2>1. Len(<<>>) = 0
    OBVIOUS
  <2>. QED
    BY <1>8, <2>1
<1>. QED
  BY <1>3, <1>5, <1>6, <1>9 DEF a, b, n

(* A stream that ends early. *)

\* The first m bytes.
LEMMA PrefixIs ==
  ASSUME NEW all \in Bytes, NEW m \in 0 .. Len(all)
  PROVE  /\ SubSeq(all, 1, m) \in Bytes /\ Len(SubSeq(all, 1, m)) = m
         /\ \A k \in 1 .. m : SubSeq(all, 1, m)[k] = all[k]
BY DEF Bytes

\* What lies before the end of the first m bytes lies in them.
LEMMA LiesInPrefix ==
  ASSUME NEW s \in Bytes, NEW all \in Bytes, NEW pos \in Nat \ {0}, LiesAt(s, all, pos),
         NEW m \in 0 .. Len(all), pos + Len(s) - 1 <= m
  PROVE  LiesAt(s, SubSeq(all, 1, m), pos)
<1>. DEFINE data == SubSeq(all, 1, m)
<1>1. Len(data) = m /\ \A k \in 1 .. m : data[k] = all[k]
  BY PrefixIs
<1>2. Len(s) \in Nat /\ Len(all) \in Nat
  BY DEF Bytes
<1>3. \A k \in 1 .. Len(s) : all[pos + k - 1] = s[k]
  BY DEF LiesAt
<1>. HIDE DEF data
<1>4. ASSUME NEW k \in 1 .. Len(s) PROVE data[pos + k - 1] = s[k]
  <2>1. pos + k - 1 \in 1 .. m
    BY <1>2
  <2>. QED
    BY <1>1, <1>3, <2>1, Zenon
<1>5. pos \in 1 .. Len(data) + 1 /\ pos + Len(s) - 1 <= Len(data)
  BY <1>1, <1>2
<1>. QED
  BY <1>4, <1>5 DEF LiesAt, data

\* An integer of which a byte is missing is not read.
LEMMA VarintCut ==
  ASSUME NEW v \in Nat, v < VarintEnd, NEW all \in Bytes, NEW pos \in Nat \ {0},
         LiesAt(WriteQuicVarint(v), all, pos), NEW m \in 0 .. Len(all),
         pos + Len(WriteQuicVarint(v)) - 1 > m
  PROVE  ReadQuicVarint(SubSeq(all, 1, m), pos).n = 0
<1>. DEFINE data == SubSeq(all, 1, m)
            n == Len(WriteQuicVarint(v))
<1>1. Len(data) = m /\ \A k \in 1 .. m : data[k] = all[k]
  BY PrefixIs
<1>2. n \in Nat /\ n > 0
  <2>1. WriteQuicVarint(v) \in Bytes /\ n = VarintLength(v)
    BY VarintType
  <2>2. VarintLength(v) \in Nat /\ VarintLength(v) > 0
    BY SMT DEF VarintLength
  <2>. QED
    BY <2>1, <2>2, Zenon
<1>3. ReadQuicVarint(all, pos) = [n |-> n, value |-> v]
  BY VarintRoundTrip
<1>4. 2 ^ (all[pos] \div 64) = n
  <2>. HIDE DEF n
  <2>. DEFINE k == 2 ^ (all[pos] \div 64)
  <2>1. ReadQuicVarint(all, pos) = IF pos > Len(all) \/ pos + k - 1 > Len(all) THEN TooFew
                                   ELSE [n |-> k, value |-> VarintValue(all, pos, k)]
    BY DEF ReadQuicVarint
  <2>. HIDE DEF k
  <2>2. ReadQuicVarint(all, pos).n = IF pos > Len(all) \/ pos + k - 1 > Len(all) THEN 0 ELSE k
    BY <2>1 DEF TooFew
  <2>. QED
    BY <1>2, <1>3, <2>2 DEF k
<1>. HIDE DEF data, n
<1>5. CASE pos > m
  BY <1>1, <1>5 DEF ReadQuicVarint, TooFew
<1>6. CASE ~(pos > m)
  <2>1. data[pos] = all[pos]
    BY <1>1, <1>6
  <2>2. 2 ^ (data[pos] \div 64) = n
    BY <1>4, <2>1
  <2>3. ReadQuicVarint(data, pos) = TooFew
    BY <1>1, <2>2 DEF ReadQuicVarint, n
  <2>. QED
    BY <2>3 DEF TooFew, data
<1>. QED
  BY <1>5, <1>6 DEF data

FrameKind(data, pos) == ReadQuicVarint(data, pos)
FrameLength(data, pos) == ReadQuicVarint(data, pos + FrameKind(data, pos).n)
PayloadStart(data, pos) == pos + FrameKind(data, pos).n + FrameLength(data, pos).n
NextFrame(data, pos) == PayloadStart(data, pos) + FrameLength(data, pos).value
WholeFrame(data, pos) ==
  /\ FrameKind(data, pos).n # 0 /\ FrameLength(data, pos).n # 0
  /\ ~(NextFrame(data, pos) - 1 > Len(data))
FrameRead(data, pos) ==
  [type |-> FrameKind(data, pos).value,
   payload |-> SubSeq(data, PayloadStart(data, pos), NextFrame(data, pos) - 1)]
ReadFrame == [type : Nat, payload : Bytes]

\* f is the whole frames from each place on.
FramesFrom(f, data) ==
  Chained(f, Len(data), [p \in 1 .. Len(data) + 1 |-> WholeFrame(data, p)],
          [p \in 1 .. Len(data) + 1 |-> <<FrameRead(data, p)>>],
          [p \in 1 .. Len(data) + 1 |-> NextFrame(data, p)])

\* A whole frame leads further on.
LEMMA FrameLeads ==
  ASSUME NEW data \in Bytes, NEW pos \in Nat \ {0}, WholeFrame(data, pos)
  PROVE  FrameRead(data, pos) \in ReadFrame /\ NextFrame(data, pos) \in pos + 1 .. Len(data) + 1
<1>0. Len(data) \in Nat
  BY DEF Bytes
<1>1. FrameKind(data, pos).n \in Nat /\ FrameKind(data, pos).value \in Nat
  BY VarintRead DEF FrameKind
<1>2. pos + FrameKind(data, pos).n \in Nat \ {0}
  BY <1>1
<1>3. /\ FrameLength(data, pos).n \in Nat /\ FrameLength(data, pos).value \in Nat
  BY <1>2, VarintRead DEF FrameLength
<1>4. /\ FrameKind(data, pos).n > 0
      /\ NextFrame(data, pos) <= Len(data) + 1
      /\ NextFrame(data, pos) = PayloadStart(data, pos) + FrameLength(data, pos).value
      /\ PayloadStart(data, pos) = pos + FrameKind(data, pos).n + FrameLength(data, pos).n
  <2>1. /\ NextFrame(data, pos) = PayloadStart(data, pos) + FrameLength(data, pos).value
        /\ PayloadStart(data, pos) = pos + FrameKind(data, pos).n + FrameLength(data, pos).n
    BY DEF NextFrame, PayloadStart
  <2>2. NextFrame(data, pos) \in Nat
    BY <1>1, <1>3, <2>1
  <2>3. FrameKind(data, pos).n # 0 /\ ~(NextFrame(data, pos) - 1 > Len(data))
    BY DEF WholeFrame
  <2>. QED
    BY <1>0, <1>1, <2>1, <2>2, <2>3
<1>5. SubSeq(data, PayloadStart(data, pos), NextFrame(data, pos) - 1) \in Bytes
  <2>1. /\ PayloadStart(data, pos) \in Nat \ {0} /\ NextFrame(data, pos) - 1 \in Int
        /\ NextFrame(data, pos) - 1 <= Len(data)
    BY <1>0, <1>1, <1>3, <1>4, SMTT(30)
  <2>. QED
    BY <2>1, SubType
<1>6. FrameRead(data, pos) \in ReadFrame
  BY <1>1, <1>5 DEF FrameRead, ReadFrame
<1>. QED
  BY <1>0, <1>1, <1>3, <1>4, <1>6

\* The frames of any stream are a chain.
LEMMA FramesLead ==
  ASSUME NEW data \in Bytes
  PROVE  Leads(ReadFrame, Len(data), [p \in 1 .. Len(data) + 1 |-> WholeFrame(data, p)],
               [p \in 1 .. Len(data) + 1 |-> <<FrameRead(data, p)>>],
               [p \in 1 .. Len(data) + 1 |-> NextFrame(data, p)])
<1>1. Len(data) \in Nat
  BY DEF Bytes
<1>2. ASSUME NEW p \in 1 .. Len(data) + 1, WholeFrame(data, p)
      PROVE  <<FrameRead(data, p)>> \in Seq(ReadFrame) /\ NextFrame(data, p) \in p + 1 .. Len(data) + 1
  <2>1. p \in Nat \ {0}
    OBVIOUS
  <2>2. FrameRead(data, p) \in ReadFrame /\ NextFrame(data, p) \in p + 1 .. Len(data) + 1
    BY <1>2, <2>1, FrameLeads
  <2>. QED
    BY <2>2
<1>. QED
  BY <1>1, <1>2 DEF Leads

\* Frames reads that chain from the first byte on.
LEMMA FramesIs ==
  ASSUME NEW data \in Bytes
  PROVE  \E f : FramesFrom(f, data) /\ Frames(data) = f[1]
<1>. DEFINE frames[pos \in 1 .. Len(data) + 1] ==
              LET framed(type, flen, payload, next) ==
                    IF flen.n = 0 \/ next - 1 > Len(data) THEN <<>>
                    ELSE <<[type |-> type.value, payload |-> SubSeq(data, payload, next - 1)]>>
                           \o frames[next]
                  sized(type, flen, payload) == framed(type, flen, payload, payload + flen.value)
                  typed(type, flen) == IF type.n = 0 THEN <<>> ELSE sized(type, flen, pos + type.n + flen.n)
                  from(type) == typed(type, ReadQuicVarint(data, pos + type.n))
              IN from(ReadQuicVarint(data, pos))
            turn(h, pos) ==
              LET framed(type, flen, payload, next) ==
                    IF flen.n = 0 \/ next - 1 > Len(data) THEN <<>>
                    ELSE <<[type |-> type.value, payload |-> SubSeq(data, payload, next - 1)]>> \o h[next]
                  sized(type, flen, payload) == framed(type, flen, payload, payload + flen.value)
                  typed(type, flen) == IF type.n = 0 THEN <<>> ELSE sized(type, flen, pos + type.n + flen.n)
                  from(type) == typed(type, ReadQuicVarint(data, pos + type.n))
              IN from(ReadQuicVarint(data, pos))
<1>1. Frames(data) = frames[1]
  BY DEF Frames
<1>2. frames = CHOOSE h : h = [pos \in 1 .. Len(data) + 1 |-> turn(h, pos)]
  OBVIOUS
<1>. HIDE DEF frames
<1>3. ASSUME NEW h, NEW pos \in 1 .. Len(data) + 1
      PROVE  turn(h, pos) = IF WholeFrame(data, pos) THEN <<FrameRead(data, pos)>> \o h[NextFrame(data, pos)]
                            ELSE <<>>
  <2>1. turn(h, pos) =
          IF FrameKind(data, pos).n = 0 THEN <<>>
          ELSE IF FrameLength(data, pos).n = 0 \/ NextFrame(data, pos) - 1 > Len(data) THEN <<>>
          ELSE <<FrameRead(data, pos)>> \o h[NextFrame(data, pos)]
    BY DEF FrameKind, FrameLength, PayloadStart, NextFrame, FrameRead
  <2>. HIDE DEF turn
  <2>. QED
    BY <2>1 DEF WholeFrame
<1>. HIDE DEF turn
<1>4. PICK f : FramesFrom(f, data)
  BY FramesLead, ChainExists DEF FramesFrom
<1>5. f = [pos \in 1 .. Len(data) + 1 |-> turn(f, pos)]
  BY <1>3, <1>4 DEF FramesFrom, Chained
<1>6. frames = [pos \in 1 .. Len(data) + 1 |-> turn(frames, pos)]
  BY <1>2, <1>5
<1>7. FramesFrom(frames, data)
  BY <1>3, <1>6 DEF FramesFrom, Chained
<1>. QED
  BY <1>1, <1>7

\* A frame is read back as it was written.
LEMMA FrameRoundTrip ==
  ASSUME NEW type \in Nat, type < VarintEnd, NEW payload \in Bytes, Len(payload) < VarintEnd,
         NEW data \in Bytes, NEW pos \in Nat \ {0}, LiesAt(WriteHttp3Frame(type, payload), data, pos)
  PROVE  /\ WholeFrame(data, pos)
         /\ NextFrame(data, pos) = pos + Len(WriteHttp3Frame(type, payload))
         /\ FrameRead(data, pos) = [type |-> type, payload |-> payload]
<1>. DEFINE n == Len(payload)
            a == WriteQuicVarint(type)
            b == WriteQuicVarint(n)
            frame == WriteHttp3Frame(type, payload)
<1>0. n \in Nat /\ Len(data) \in Nat
  BY DEF Bytes
<1>1. a \in Bytes /\ b \in Bytes /\ Len(a) = VarintLength(type) /\ Len(b) = VarintLength(n)
  BY <1>0, VarintType
<1>2. \A v \in Nat : VarintLength(v) \in Nat \ {0}
  BY SMT DEF VarintLength
<1>3. Len(a) \in Nat \ {0} /\ Len(b) \in Nat \ {0}
  BY <1>0, <1>1, <1>2
<1>4. frame = (a \o b) \o payload /\ LiesAt(frame, data, pos)
  BY DEF WriteHttp3Frame
<1>5. Len(frame) = Len(a) + Len(b) + n
  BY FrameType
<1>. HIDE DEF a, b, frame
<1>6. a \o b \in Bytes /\ Len(a \o b) = Len(a) + Len(b)
  BY <1>1, Joined, Zenon
<1>7. LiesAt(a \o b, data, pos) /\ LiesAt(payload, data, pos + Len(a \o b))
  <2>1. LiesAt((a \o b) \o payload, data, pos)
    BY <1>4, Zenon
  <2>. QED
    BY <1>6, <2>1, LiesAtParts
<1>8. LiesAt(a, data, pos) /\ LiesAt(b, data, pos + Len(a))
  BY <1>1, <1>7, LiesAtParts
<1>9. pos + Len(a) \in Nat \ {0} /\ pos + Len(a \o b) = pos + Len(a) + Len(b)
  BY <1>3, <1>6
<1>10. FrameKind(data, pos) = [n |-> Len(a), value |-> type]
  BY <1>8, VarintRoundTrip DEF FrameKind, a
<1>11. FrameLength(data, pos) = [n |-> Len(b), value |-> n]
  <2>1. ReadQuicVarint(data, pos + Len(a)) = [n |-> Len(b), value |-> n]
    BY <1>0, <1>8, <1>9, VarintRoundTrip DEF b
  <2>. QED
    BY <1>10, <2>1 DEF FrameLength
<1>12. PayloadStart(data, pos) = pos + Len(a) + Len(b)
  BY <1>10, <1>11 DEF PayloadStart
<1>13. NextFrame(data, pos) = pos + Len(a) + Len(b) + n
  BY <1>11, <1>12 DEF NextFrame
<1>14. NextFrame(data, pos) = pos + Len(frame)
  BY <1>0, <1>3, <1>5, <1>13
<1>15. WholeFrame(data, pos)
  <2>1. pos + Len(frame) - 1 <= Len(data)
    BY <1>4 DEF LiesAt
  <2>2. pos + Len(frame) - 1 \in Int
    BY <1>0, <1>3, <1>5
  <2>3. ~(NextFrame(data, pos) - 1 > Len(data))
    BY <1>0, <1>14, <2>1, <2>2
  <2>4. FrameKind(data, pos).n # 0 /\ FrameLength(data, pos).n # 0
    BY <1>3, <1>10, <1>11
  <2>. QED
    BY <2>3, <2>4 DEF WholeFrame
<1>16. SubSeq(data, PayloadStart(data, pos), NextFrame(data, pos) - 1) = payload
  <2>. DEFINE p == pos + Len(a) + Len(b)
  <2>1. p \in Nat \ {0} /\ LiesAt(payload, data, p) /\ NextFrame(data, pos) - 1 = p + n - 1
    BY <1>0, <1>3, <1>7, <1>9, <1>13
  <2>2. PayloadStart(data, pos) = p
    BY <1>12
  <2>. HIDE DEF p
  <2>3. SubSeq(data, p, p + n - 1) = payload
    BY <2>1, LiesAtSub
  <2>. QED
    BY <2>1, <2>2, <2>3, Zenon
<1>17. FrameRead(data, pos) = [type |-> type, payload |-> payload]
  <2>1. FrameKind(data, pos).value = type
    BY <1>10
  <2>2. FrameRead(data, pos) =
          [type |-> FrameKind(data, pos).value,
           payload |-> SubSeq(data, PayloadStart(data, pos), NextFrame(data, pos) - 1)]
    BY DEF FrameRead
  <2>. QED
    BY <1>16, <2>1, <2>2, Zenon
<1>. QED
  BY <1>14, <1>15, <1>17 DEF frame

\* A frame of which a byte is missing is not whole.
LEMMA FrameCut ==
  ASSUME NEW type \in Nat, type < VarintEnd, NEW payload \in Bytes, Len(payload) < VarintEnd,
         NEW all \in Bytes, NEW pos \in Nat \ {0}, LiesAt(WriteHttp3Frame(type, payload), all, pos),
         NEW m \in 0 .. Len(all), pos + Len(WriteHttp3Frame(type, payload)) - 1 > m
  PROVE  ~WholeFrame(SubSeq(all, 1, m), pos)
<1>. DEFINE n == Len(payload)
            a == WriteQuicVarint(type)
            b == WriteQuicVarint(n)
            frame == WriteHttp3Frame(type, payload)
            data == SubSeq(all, 1, m)
<1>0. n \in Nat /\ Len(all) \in Nat /\ data \in Bytes /\ Len(data) = m /\ m \in Nat
  BY PrefixIs DEF Bytes
<1>1. a \in Bytes /\ b \in Bytes /\ Len(a) = VarintLength(type) /\ Len(b) = VarintLength(n)
  BY <1>0, VarintType
<1>2. \A v \in Nat : VarintLength(v) \in Nat \ {0}
  BY SMT DEF VarintLength
<1>3. Len(a) \in Nat \ {0} /\ Len(b) \in Nat \ {0}
  BY <1>0, <1>1, <1>2
<1>4. frame = (a \o b) \o payload /\ LiesAt(frame, all, pos)
  BY DEF WriteHttp3Frame
<1>5. Len(frame) = Len(a) + Len(b) + n
  BY FrameType
<1>6. a \o b \in Bytes /\ Len(a \o b) = Len(a) + Len(b)
  BY <1>1, Joined, Zenon
<1>7. pos + Len(frame) - 1 > m
  OBVIOUS
<1>. HIDE DEF a, b, frame, data, n
<1>8. LiesAt(a, all, pos) /\ LiesAt(b, all, pos + Len(a))
  <2>1. LiesAt((a \o b) \o payload, all, pos)
    BY <1>4, Zenon
  <2>2. LiesAt(a \o b, all, pos)
    BY <1>6, <2>1, LiesAtParts
  <2>. QED
    BY <1>1, <2>2, LiesAtParts
<1>9. pos + Len(a) \in Nat \ {0}
  BY <1>3
<1>10. CASE pos + Len(a) - 1 > m
  <2>1. FrameKind(data, pos).n = 0
    BY <1>8, <1>10, VarintCut DEF FrameKind, a, data
  <2>. QED
    BY <2>1 DEF WholeFrame, data
<1>11. CASE ~(pos + Len(a) - 1 > m)
  <2>1. LiesAt(a, data, pos)
    <3>1. pos + Len(a) - 1 <= m
      BY <1>0, <1>3, <1>11
    <3>. QED
      BY <1>1, <1>8, <3>1, LiesInPrefix DEF data
  <2>2. FrameKind(data, pos) = [n |-> Len(a), value |-> type]
    BY <1>0, <2>1, VarintRoundTrip DEF FrameKind, a
  <2>3. FrameLength(data, pos) = ReadQuicVarint(data, pos + Len(a))
    BY <2>2 DEF FrameLength
  <2>4. CASE pos + Len(a) + Len(b) - 1 > m
    <3>1. ReadQuicVarint(data, pos + Len(a)).n = 0
      BY <1>0, <1>8, <1>9, <2>4, VarintCut DEF b, data, n
    <3>. QED
      BY <2>3, <3>1 DEF WholeFrame, data
  <2>5. CASE ~(pos + Len(a) + Len(b) - 1 > m)
    <3>1. LiesAt(b, data, pos + Len(a))
      <4>1. (pos + Len(a)) + Len(b) - 1 <= m
        BY <1>0, <1>3, <2>5
      <4>. QED
        BY <1>1, <1>8, <1>9, <4>1, LiesInPrefix DEF data
    <3>2. ReadQuicVarint(data, pos + Len(a)) = [n |-> Len(b), value |-> n]
      BY <1>0, <1>9, <3>1, VarintRoundTrip DEF b, n
    <3>3. NextFrame(data, pos) = pos + Len(a) + Len(b) + n
      BY <2>2, <2>3, <3>2 DEF NextFrame, PayloadStart
    <3>4. NextFrame(data, pos) - 1 > Len(data)
      BY <1>0, <1>3, <1>5, <1>7, <3>3
    <3>. QED
      BY <3>4 DEF WholeFrame, data
  <2>. QED
    BY <2>4, <2>5
<1>. QED
  BY <1>10, <1>11 DEF data

\* The concatenation of the first i sequences.
LEMMA PartsPrefix ==
  ASSUME NEW S, NEW s \in Seq(Seq(S)), NEW f, Parts(f, S, s), NEW i \in 0 .. Len(s)
  PROVE  FlattenSeq(SubSeq(s, 1, i)) = f[i]
<1>. DEFINE t == SubSeq(s, 1, i)
<1>1. t \in Seq(Seq(S)) /\ Len(t) = i /\ \A k \in 1 .. i : t[k] = s[k]
  OBVIOUS
<1>2. i \in Nat /\ i <= Len(s) /\ Len(s) \in Nat
  OBVIOUS
<1>. HIDE DEF t
<1>3. f[0] = <<>> /\ \A k \in 0 .. Len(t) : f[k] \in Seq(S)
  <2>1. \A k \in 0 .. Len(t) : k \in 0 .. Len(s)
    BY <1>1, <1>2
  <2>. QED
    BY <2>1, Zenon DEF Parts
<1>4. ASSUME NEW k \in 1 .. Len(t) PROVE f[k] = f[k - 1] \o t[k]
  <2>1. k \in 1 .. Len(s) /\ k \in 1 .. i
    BY <1>1, <1>2
  <2>2. f[k] = f[k - 1] \o s[k]
    BY <2>1, Zenon DEF Parts
  <2>. QED
    BY <1>1, <2>1, <2>2, Zenon
<1>5. Parts(f, S, t)
  BY <1>3, <1>4 DEF Parts
<1>6. FlattenSeq(t) = f[Len(t)]
  BY <1>1, <1>5, FlattenIs
<1>. QED
  BY <1>1, <1>6 DEF t

\* The ends that fit are those of the first ones.
LEMMA FirstFit ==
  ASSUME NEW n \in Nat, NEW ends, NEW m \in Nat, \A i \in 1 .. n : ends[i] \in Nat,
         \A i, j \in 1 .. n : i <= j => ends[i] <= ends[j]
  PROVE  \E c \in 0 .. n : \A i \in 1 .. n : ends[i] <= m <=> i <= c
<1>. DEFINE S == {i \in 0 .. n : i = n \/ ends[i + 1] > m}
<1>1. S \in SUBSET Nat /\ n \in S
  OBVIOUS
<1>2. PICK c \in S : \A y \in S : c <= y
  BY <1>1, LeastNatural
<1>3. c \in 0 .. n
  OBVIOUS
<1>4. ASSUME NEW i \in 1 .. n, i <= c PROVE ends[i] <= m
  <2>1. i - 1 \in 0 .. n /\ i - 1 < c /\ i - 1 # n /\ (i - 1) + 1 = i
    BY <1>3, <1>4
  <2>2. i - 1 \notin S
    BY <1>2, <1>3, <2>1
  <2>3. ~(ends[(i - 1) + 1] > m)
    BY <2>1, <2>2, Zenon
  <2>4. ~(ends[i] > m)
    BY <2>1, <2>3, Zenon
  <2>. QED
    BY <2>4
<1>5. ASSUME NEW i \in 1 .. n, ~(i <= c) PROVE ~(ends[i] <= m)
  <2>1. c + 1 \in 1 .. n /\ c + 1 <= i /\ c # n
    BY <1>3, <1>5
  <2>2. ends[c + 1] > m
    BY <2>1
  <2>3. ends[c + 1] <= ends[i] /\ ends[c + 1] \in Nat /\ ends[i] \in Nat
    BY <2>1
  <2>. QED
    BY <2>2, <2>3
<1>. QED
  BY <1>3, <1>4, <1>5

(* The stream of a reply. *)

\* The frames of a reply, written one by one.
LEMMA ReplyFrames ==
  ASSUME NEW rep \in Reply
  PROVE  /\ Len(rep.frames) \in Nat /\ rep.short \in Nat
         /\ \A i \in 1 .. Len(rep.frames) : rep.frames[i] \in ServerFrame
         /\ ServerFrames(rep) \in Seq(Bytes) /\ Len(ServerFrames(rep)) = Len(rep.frames)
         /\ \A i \in 1 .. Len(rep.frames) :
              ServerFrames(rep)[i] = WriteHttp3Frame(rep.frames[i].type, ServerPayload(rep.frames[i]))
<1>1. rep.frames \in Seq(ServerFrame) /\ rep.short \in Nat
  BY DEF Reply
<1>2. Len(rep.frames) \in Nat /\ \A i \in 1 .. Len(rep.frames) : rep.frames[i] \in ServerFrame
  BY <1>1
<1>3. \A i \in 1 .. Len(rep.frames) :
        WriteHttp3Frame(rep.frames[i].type, ServerPayload(rep.frames[i])) \in Bytes
  BY <1>2, PayloadType, FrameType
<1>4. /\ ServerFrames(rep) \in Seq(Bytes) /\ Len(ServerFrames(rep)) = Len(rep.frames)
      /\ \A i \in 1 .. Len(rep.frames) :
           ServerFrames(rep)[i] = WriteHttp3Frame(rep.frames[i].type, ServerPayload(rep.frames[i]))
  BY <1>2, <1>3 DEF ServerFrames
<1>. QED
  BY <1>1, <1>2, <1>4

StreamEnd(rep) ==
  LET n == Len(FlattenSeq(ServerFrames(rep))) IN IF rep.short <= n THEN n - rep.short ELSE 0

\* The stream of a reply is the first bytes of its frames.
LEMMA StreamIs ==
  ASSUME NEW rep \in Reply
  PROVE  /\ FlattenSeq(ServerFrames(rep)) \in Bytes
         /\ StreamEnd(rep) \in 0 .. Len(FlattenSeq(ServerFrames(rep)))
         /\ Stream(rep) = SubSeq(FlattenSeq(ServerFrames(rep)), 1, StreamEnd(rep))
         /\ Stream(rep) \in Bytes /\ Len(Stream(rep)) = StreamEnd(rep)
<1>. DEFINE all == FlattenSeq(ServerFrames(rep))
<1>1. all \in Bytes /\ rep.short \in Nat
  BY ReplyFrames, FlattenType DEF Bytes
<1>2. Stream(rep) = SubSeq(all, 1, Len(all) - rep.short)
  BY DEF Stream
<1>3. StreamEnd(rep) = IF rep.short <= Len(all) THEN Len(all) - rep.short ELSE 0
  BY DEF StreamEnd
<1>. HIDE DEF all
<1>4. Len(all) \in Nat
  BY <1>1 DEF Bytes
<1>5. StreamEnd(rep) \in 0 .. Len(all)
  BY <1>1, <1>3, <1>4
<1>6. Stream(rep) = SubSeq(all, 1, StreamEnd(rep))
  <2>1. CASE rep.short <= Len(all)
    BY <1>2, <1>3, <2>1
  <2>2. CASE ~(rep.short <= Len(all))
    <3>1. SubSeq(all, 1, Len(all) - rep.short) = <<>> /\ SubSeq(all, 1, 0) = <<>>
      BY <1>1, <1>4, <2>2 DEF Bytes
    <3>. QED
      BY <1>2, <1>3, <2>2, <3>1
  <2>. QED
    BY <2>1, <2>2
<1>7. Stream(rep) \in Bytes /\ Len(Stream(rep)) = StreamEnd(rep)
  BY <1>1, <1>5, <1>6, PrefixIs
<1>. QED
  BY <1>1, <1>5, <1>6, <1>7 DEF all

\* How many the first c are.
LEMMA CardinalityUpTo ==
  ASSUME NEW c \in Nat
  PROVE  Cardinality(1 .. c) = c
<1>1. Cardinality(1 .. c) = IF 1 > c THEN 0 ELSE c - 1 + 1
  BY FS_Interval
<1>. QED
  BY <1>1

\* The whole frames of a stream are the first ones.
LEMMA WholeAre ==
  ASSUME NEW rep \in Reply, NEW f, Parts(f, Byte, ServerFrames(rep))
  PROVE  /\ Cardinality(WholeFrames(rep)) \in 0 .. Len(rep.frames)
         /\ \A i \in 1 .. Len(rep.frames) :
              Len(f[i]) <= StreamEnd(rep) <=> i <= Cardinality(WholeFrames(rep))
<1>. DEFINE fs == ServerFrames(rep)
            n == Len(rep.frames)
            ends == [i \in 1 .. n |-> Len(FlattenSeq(SubSeq(fs, 1, i)))]
            m == StreamEnd(rep)
<1>1. n \in Nat /\ fs \in Seq(Seq(Byte)) /\ Len(fs) = n
  BY ReplyFrames DEF Bytes
<1>2. WholeFrames(rep) = {i \in 1 .. n : ends[i] <= Len(Stream(rep))}
  BY DEF WholeFrames
<1>3. Len(Stream(rep)) = m /\ m \in Nat
  <2>1. Len(Stream(rep)) = m /\ m \in 0 .. Len(FlattenSeq(fs)) /\ FlattenSeq(fs) \in Bytes
    BY StreamIs
  <2>. QED
    BY <2>1 DEF Bytes
<1>4. \A i \in 1 .. n : ends[i] = Len(f[i]) /\ Len(f[i]) \in Nat
  <2>1. ASSUME NEW i \in 1 .. n PROVE ends[i] = Len(f[i]) /\ Len(f[i]) \in Nat
    <3>1. i \in 0 .. Len(fs)
      BY <1>1
    <3>2. FlattenSeq(SubSeq(fs, 1, i)) = f[i]
      BY <1>1, <3>1, PartsPrefix
    <3>3. f[i] \in Seq(Byte)
      BY <3>1, Zenon DEF Parts
    <3>. QED
      BY <3>2, <3>3
  <2>. QED
    BY <2>1
<1>5. \A i, j \in 1 .. n : i <= j => ends[i] <= ends[j]
  <2>1. ASSUME NEW i \in 1 .. n, NEW j \in 1 .. n, i <= j PROVE ends[i] <= ends[j]
    <3>1. i \in 0 .. Len(fs) /\ j \in i .. Len(fs)
      BY <1>1, <2>1
    <3>2. Len(f[i]) <= Len(f[j])
      BY <1>1, <3>1, PartsGrow
    <3>. QED
      BY <1>4, <3>2
  <2>. QED
    BY <2>1
<1>. HIDE DEF fs, n, ends, m
<1>6. \A i \in 1 .. n : ends[i] \in Nat
  BY <1>4
<1>7. PICK c \in 0 .. n : \A i \in 1 .. n : ends[i] <= m <=> i <= c
  BY <1>1, <1>3, <1>5, <1>6, FirstFit
<1>8. WholeFrames(rep) = 1 .. c
  <2>1. \A i : i \in WholeFrames(rep) <=> i \in 1 .. n /\ i <= c
    BY <1>2, <1>3, <1>7
  <2>2. \A i : i \in 1 .. n /\ i <= c <=> i \in 1 .. c
    BY <1>1
  <2>. QED
    BY <2>1, <2>2
<1>9. Cardinality(WholeFrames(rep)) = c
  BY <1>1, <1>8, CardinalityUpTo
<1>. QED
  BY <1>4, <1>7, <1>9 DEF n, m

SentFrame(f) == [type |-> f.type, payload |-> ServerPayload(f)]
SentFrames(rep) == [i \in 1 .. Cardinality(WholeFrames(rep)) |-> SentFrame(rep.frames[i])]

\* A list, one element at a time.
LEMMA GrownList ==
  ASSUME NEW S, NEW c \in Nat, NEW R, R = [i \in 1 .. c |-> R[i]], \A i \in 1 .. c : R[i] \in S
  PROVE  /\ R \in Seq(S) /\ Len(R) = c /\ SubSeq(R, 1, 0) = <<>> /\ SubSeq(R, 1, c) = R
         /\ \A i \in Nat : i + 1 <= c => SubSeq(R, 1, i + 1) = SubSeq(R, 1, i) \o <<R[i + 1]>>
<1>1. R \in Seq(S) /\ Len(R) = c
  OBVIOUS
<1>2. SubSeq(R, 1, 0) = <<>> /\ SubSeq(R, 1, c) = R
  BY <1>1
<1>3. ASSUME NEW i \in Nat, i + 1 <= c PROVE SubSeq(R, 1, i + 1) = SubSeq(R, 1, i) \o <<R[i + 1]>>
  BY <1>1, <1>3
<1>. QED
  BY <1>1, <1>2, <1>3

\* An element between two lists.
LEMMA ListsRegrouped ==
  ASSUME NEW S
  PROVE  \A a, c \in Seq(S), b \in S : a \o (<<b>> \o c) = (a \o <<b>>) \o c
OBVIOUS

\* The frames read from a stream, wherever it ends, are the first frames sent, each as it
\* was sent, and no other.
THEOREM StreamFrames ==
  ASSUME NEW rep \in Reply
  PROVE  Frames(Stream(rep)) = SentFrames(rep)
<1>. DEFINE fs == ServerFrames(rep)
            n == Len(rep.frames)
            all == FlattenSeq(fs)
            m == StreamEnd(rep)
            data == Stream(rep)
            c == Cardinality(WholeFrames(rep))
            R == SentFrames(rep)
<1>1. /\ n \in Nat /\ fs \in Seq(Bytes) /\ fs \in Seq(Seq(Byte)) /\ Len(fs) = n
      /\ \A i \in 1 .. n : rep.frames[i] \in ServerFrame
      /\ \A i \in 1 .. n : fs[i] = WriteHttp3Frame(rep.frames[i].type, ServerPayload(rep.frames[i]))
  BY ReplyFrames DEF Bytes
<1>2. /\ all \in Bytes /\ m \in 0 .. Len(all) /\ data = SubSeq(all, 1, m) /\ data \in Bytes /\ Len(data) = m
  BY StreamIs
<1>3. PICK f : Parts(f, Byte, fs)
  BY <1>1, FlattenParts
<1>4. c \in 0 .. n /\ \A i \in 1 .. n : Len(f[i]) <= m <=> i <= c
  BY <1>3, WholeAre
<1>5. PICK h : FramesFrom(h, data) /\ Frames(data) = h[1]
  BY <1>2, FramesIs
<1>6. all = f[n]
  BY <1>1, <1>3, FlattenIs
<1>. HIDE DEF fs, n, all, m, data, c
<1>7. Len(all) \in Nat /\ m \in Nat /\ c \in Nat
  BY <1>1, <1>2, <1>4 DEF Bytes
<1>8. \A p \in 1 .. m + 1 : h[p] \in Seq(ReadFrame)
  <2>1. \A p \in 1 .. Len(data) + 1 : h[p] \in Seq(ReadFrame)
    BY <1>2, <1>5, FramesLead, ChainType DEF FramesFrom
  <2>. QED
    BY <1>2, <2>1
<1>9. \A p \in 1 .. m + 1 : h[p] = IF WholeFrame(data, p) THEN <<FrameRead(data, p)>> \o h[NextFrame(data, p)]
                                    ELSE <<>>
  <2>1. ASSUME NEW p \in 1 .. Len(data) + 1
        PROVE h[p] = IF WholeFrame(data, p) THEN <<FrameRead(data, p)>> \o h[NextFrame(data, p)] ELSE <<>>
    BY <1>5 DEF FramesFrom, Chained
  <2>. QED
    BY <1>2, <2>1
<1>10. /\ R \in Seq(ReadFrame) /\ Len(R) = c /\ SubSeq(R, 1, 0) = <<>> /\ SubSeq(R, 1, c) = R
       /\ \A i \in Nat : i + 1 <= c => SubSeq(R, 1, i + 1) = SubSeq(R, 1, i) \o <<R[i + 1]>>
       /\ \A i \in 1 .. c : R[i] = SentFrame(rep.frames[i]) /\ R[i] \in ReadFrame
  <2>1. R = [i \in 1 .. c |-> SentFrame(rep.frames[i])]
    BY DEF SentFrames, c
  <2>2. \A i \in 1 .. c : SentFrame(rep.frames[i]) \in ReadFrame
    <3>1. ASSUME NEW i \in 1 .. c PROVE SentFrame(rep.frames[i]) \in ReadFrame
      <4>1. i \in 1 .. n
        BY <1>1, <1>4
      <4>2. rep.frames[i] \in ServerFrame
        BY <1>1, <4>1
      <4>. QED
        BY <4>2, PayloadType DEF SentFrame, ReadFrame
    <3>. QED
      BY <3>1
  <2>. HIDE DEF R
  <2>3. R = [i \in 1 .. c |-> R[i]] /\ \A i \in 1 .. c : R[i] = SentFrame(rep.frames[i])
    BY <2>1
  <2>4. \A i \in 1 .. c : R[i] \in ReadFrame
    BY <2>2, <2>3
  <2>. QED
    BY <1>7, <2>3, <2>4, GrownList, SMTT(30)
<1>. HIDE DEF R
<1>11. ASSUME NEW i \in 1 .. n
       PROVE  /\ LiesAt(fs[i], all, Len(f[i - 1]) + 1)
              /\ Len(f[i]) = Len(f[i - 1]) + Len(fs[i]) /\ Len(f[i - 1]) \in Nat /\ Len(fs[i]) \in Nat
  <2>1. <<>> \in Bytes /\ <<>> \o all = all
    BY <1>2 DEF Bytes
  <2>2. /\ LiesAt(fs[i], <<>> \o all, Len(<<>>) + Len(f[i - 1]) + 1)
        /\ Len(f[i]) = Len(f[i - 1]) + Len(fs[i]) /\ Len(f[i - 1]) \in Nat /\ Len(fs[i]) \in Nat
    BY <1>1, <1>3, <2>1, PartLiesAt DEF all
  <2>3. Len(<<>>) + Len(f[i - 1]) + 1 = Len(f[i - 1]) + 1
    BY <2>2
  <2>. QED
    BY <2>1, <2>2, <2>3, Zenon
<1>12. ASSUME NEW i \in 1 .. n
       PROVE  LET w == rep.frames[i]  v == ServerPayload(w)  p == Len(f[i - 1]) + 1 IN
              /\ p \in Nat \ {0} /\ LiesAt(WriteHttp3Frame(w.type, v), all, p)
              /\ p + Len(WriteHttp3Frame(w.type, v)) = Len(f[i]) + 1
              /\ w.type \in Nat /\ w.type < VarintEnd /\ v \in Bytes /\ Len(v) < VarintEnd
              /\ WriteHttp3Frame(w.type, v) \in Bytes
  <2>1. rep.frames[i] \in ServerFrame /\ fs[i]
          = WriteHttp3Frame(rep.frames[i].type, ServerPayload(rep.frames[i]))
    BY <1>1
  <2>2. /\ LiesAt(fs[i], all, Len(f[i - 1]) + 1) /\ fs[i] \in Bytes
        /\ Len(f[i]) = Len(f[i - 1]) + Len(fs[i]) /\ Len(f[i - 1]) \in Nat /\ Len(fs[i]) \in Nat
    BY <1>1, <1>11
  <2>3. Len(f[i - 1]) + 1 \in Nat \ {0} /\ Len(f[i - 1]) + 1 + Len(fs[i]) = Len(f[i]) + 1
    <3>1. \A a, b \in Nat : a + 1 \in Nat \ {0} /\ a + 1 + b = (a + b) + 1
      OBVIOUS
    <3>. QED
      BY <2>2, <3>1, ZenonT(40)
  <2>4. LET w == rep.frames[i]  v == ServerPayload(w) IN
        w.type \in Nat /\ w.type < VarintEnd /\ v \in Bytes /\ Len(v) < VarintEnd
    BY <2>1, PayloadType
  <2>. QED
    BY <2>1, <2>2, <2>3, <2>4, Zenon
<1>. DEFINE T == {i \in Nat : i <= c => h[1] = SubSeq(R, 1, i) \o h[Len(f[i]) + 1]}
<1>13. 0 \in T
  <2>1. f[0] = <<>>
    BY <1>3, Zenon DEF Parts
  <2>2. h[1] \in Seq(ReadFrame)
    BY <1>7, <1>8
  <2>3. Len(f[0]) + 1 = 1
    BY <2>1
  <2>4. <<>> \o h[1] = h[1]
    BY <2>2
  <2>5. h[1] = SubSeq(R, 1, 0) \o h[Len(f[0]) + 1]
    BY <1>10, <2>3, <2>4, Zenon
  <2>. QED
    BY <2>5
<1>14. ASSUME NEW i \in Nat, i \in T PROVE i + 1 \in T
  <2>0. i + 1 \in Nat
    OBVIOUS
  <2>. SUFFICES ASSUME i + 1 <= c PROVE h[1] = SubSeq(R, 1, i + 1) \o h[Len(f[i + 1]) + 1]
    BY <2>0, Zenon
  <2>. DEFINE w == rep.frames[i + 1]
              v == ServerPayload(w)
              p == Len(f[i]) + 1
              q == Len(f[i + 1]) + 1
              e == WriteHttp3Frame(w.type, v)
  <2>1. i + 1 \in 1 .. n /\ (i + 1) - 1 = i /\ i <= c /\ i + 1 \in 1 .. c
    BY <1>1, <1>4
  <2>2. h[1] = SubSeq(R, 1, i) \o h[p]
    BY <1>14, <2>1
  <2>3. /\ Len(f[(i + 1) - 1]) + 1 \in Nat \ {0} /\ LiesAt(e, all, Len(f[(i + 1) - 1]) + 1)
        /\ Len(f[(i + 1) - 1]) + 1 + Len(e) = q
        /\ w.type \in Nat /\ w.type < VarintEnd /\ v \in Bytes /\ Len(v) < VarintEnd /\ e \in Bytes
    BY <1>12, <2>1
  <2>. HIDE DEF T, w, v, e
  <2>4. p \in Nat \ {0} /\ LiesAt(e, all, p) /\ p + Len(e) = q
    BY <2>1, <2>3, Zenon
  <2>5. Len(f[i + 1]) <= m
    BY <1>4, <2>1
  <2>6. Len(e) \in Nat
    BY <2>3 DEF Bytes
  <2>7. p + Len(e) - 1 <= m /\ p \in 1 .. m + 1 /\ q \in 1 .. m + 1
    <3>. HIDE DEF p
    <3>1. Len(f[i + 1]) = q - 1 /\ q \in Nat
      <4>1. q \in Nat
        BY <2>4, <2>6
      <4>2. Len(f[i + 1]) \in Nat
        <5>1. i + 1 \in 0 .. Len(fs)
          BY <1>1, <2>1
        <5>2. f[i + 1] \in Seq(Byte)
          BY <1>3, <5>1, Zenon DEF Parts
        <5>. QED
          BY <5>2
      <4>. QED
        BY <4>1, <4>2
    <3>. HIDE DEF q
    <3>. QED
      BY <1>7, <2>4, <2>5, <2>6, <3>1
  <2>. HIDE DEF p, q
  <2>8. LiesAt(e, data, p)
    BY <1>2, <2>3, <2>4, <2>7, LiesInPrefix
  <2>9. WholeFrame(data, p) /\ NextFrame(data, p) = q /\ FrameRead(data, p) = [type |-> w.type, payload |-> v]
    <3>1. /\ WholeFrame(data, p) /\ NextFrame(data, p) = p + Len(e)
          /\ FrameRead(data, p) = [type |-> w.type, payload |-> v]
      BY <1>2, <2>3, <2>4, <2>8, FrameRoundTrip DEF e
    <3>. QED
      BY <2>4, <3>1
  <2>10. R[i + 1] = FrameRead(data, p) /\ R[i + 1] \in ReadFrame
    <3>1. R[i + 1] = SentFrame(w) /\ R[i + 1] \in ReadFrame
      BY <1>10, <2>1 DEF w
    <3>. QED
      BY <2>9, <3>1 DEF SentFrame, v
  <2>11. h[p] = <<R[i + 1]>> \o h[q]
    <3>1. h[p] = <<FrameRead(data, p)>> \o h[NextFrame(data, p)]
      BY <1>9, <2>7, <2>9, Zenon
    <3>. QED
      BY <2>9, <2>10, <3>1, Zenon
  <2>12. h[q] \in Seq(ReadFrame) /\ SubSeq(R, 1, i) \in Seq(ReadFrame)
    <3>1. h[q] \in Seq(ReadFrame)
      BY <1>8, <2>7
    <3>2. SubSeq(R, 1, i) \in Seq(ReadFrame)
      BY <1>10, <2>1
    <3>. QED
      BY <3>1, <3>2
  <2>13. SubSeq(R, 1, i) \o (<<R[i + 1]>> \o h[q]) = (SubSeq(R, 1, i) \o <<R[i + 1]>>) \o h[q]
    <3>1. \A a, s \in Seq(ReadFrame), b \in ReadFrame : a \o (<<b>> \o s) = (a \o <<b>>) \o s
      BY ListsRegrouped
    <3>. QED
      BY <2>10, <2>12, <3>1, Zenon
  <2>14. SubSeq(R, 1, i + 1) = SubSeq(R, 1, i) \o <<R[i + 1]>>
    BY <1>10
  <2>. QED
    BY <2>2, <2>11, <2>13, <2>14, Zenon DEF q
<1>. HIDE DEF T
<1>15. \A i \in Nat : i \in T
  BY <1>13, <1>14, InductionSet
<1>16. h[1] = R \o h[Len(f[c]) + 1]
  <2>1. c \in T /\ c \in Nat /\ c <= c
    BY <1>7, <1>15
  <2>2. h[1] = SubSeq(R, 1, c) \o h[Len(f[c]) + 1]
    BY <2>1, Zenon DEF T
  <2>. QED
    BY <1>10, <2>2, Zenon
<1>. DEFINE p == Len(f[c]) + 1
<1>17. p \in Nat \ {0} /\ p \in 1 .. m + 1
  <2>1. f[c] \in Seq(Byte)
    <3>1. c \in 0 .. Len(fs)
      BY <1>1, <1>4
    <3>. QED
      BY <1>3, <3>1, Zenon DEF Parts
  <2>2. Len(f[c]) \in Nat
    BY <2>1
  <2>3. Len(f[c]) <= m
    <3>1. CASE c = 0
      <4>1. Len(f[c]) = 0
        BY <1>3, <3>1 DEF Parts
      <4>. QED
        BY <1>7, <4>1
    <3>2. CASE c # 0
      <4>1. c \in 1 .. n /\ c <= c
        BY <1>4, <3>2
      <4>. QED
        BY <1>4, <4>1, Zenon
    <3>. QED
      BY <3>1, <3>2
  <2>. QED
    BY <1>7, <2>2, <2>3
<1>18. ~WholeFrame(data, p)
  <2>1. CASE c = n
    <3>1. p = Len(all) + 1
      BY <1>6, <2>1
    <3>2. m = Len(all) /\ Len(data) = m
      BY <1>2, <1>7, <1>17, <3>1
    <3>. HIDE DEF p
    <3>3. FrameKind(data, p).n = 0
      <4>1. p > Len(data)
        BY <1>7, <3>1, <3>2
      <4>. QED
        BY <4>1 DEF FrameKind, ReadQuicVarint, TooFew
    <3>. QED
      BY <3>3 DEF WholeFrame
  <2>2. CASE c # n
    <3>. DEFINE w == rep.frames[c + 1]
                v == ServerPayload(w)
                e == WriteHttp3Frame(w.type, v)
    <3>1. c + 1 \in 1 .. n /\ (c + 1) - 1 = c /\ ~(c + 1 <= c)
      BY <1>1, <1>4, <2>2
    <3>2. /\ Len(f[(c + 1) - 1]) + 1 \in Nat \ {0} /\ LiesAt(e, all, Len(f[(c + 1) - 1]) + 1)
          /\ Len(f[(c + 1) - 1]) + 1 + Len(e) = Len(f[c + 1]) + 1
          /\ w.type \in Nat /\ w.type < VarintEnd /\ v \in Bytes /\ Len(v) < VarintEnd /\ e \in Bytes
      BY <1>12, <3>1
    <3>. HIDE DEF w, v, e
    <3>3. LiesAt(e, all, p) /\ p + Len(e) = Len(f[c + 1]) + 1
      BY <3>1, <3>2, Zenon
    <3>4. ~(Len(f[c + 1]) <= m)
      BY <1>4, <3>1, Zenon
    <3>5. p + Len(e) - 1 > m
      <4>1. Len(e) \in Nat
        BY <3>2 DEF Bytes
      <4>2. Len(f[c + 1]) \in Nat
        <5>1. c + 1 \in 0 .. Len(fs)
          BY <1>1, <3>1
        <5>2. f[c + 1] \in Seq(Byte)
          BY <1>3, <5>1, Zenon DEF Parts
        <5>. QED
          BY <5>2
      <4>. HIDE DEF p
      <4>. QED
        BY <1>7, <1>17, <3>3, <3>4, <4>1, <4>2
    <3>. HIDE DEF p
    <3>6. ~WholeFrame(SubSeq(all, 1, m), p)
      BY <1>2, <1>17, <3>2, <3>3, <3>5, FrameCut DEF e
    <3>. QED
      BY <1>2, <3>6, Zenon
  <2>. QED
    BY <2>1, <2>2
<1>19. h[p] = <<>>
  <2>. HIDE DEF p
  <2>. QED
    BY <1>9, <1>17, <1>18, Zenon
<1>20. h[1] = R
  <2>1. h[1] = R \o <<>>
    BY <1>16, <1>19, Zenon
  <2>. QED
    BY <1>10, <2>1
<1>. QED
  BY <1>5, <1>20, Zenon DEF R, data

-----------------------------------------------------------------------------
(* The reply parsed. *)

Parsed == [status : Nat, body : Bytes]
Added(p, f) ==
  IF f.type = HEADERS THEN [p EXCEPT !.status = QpackDecodeStatus(f.payload, @)]
  ELSE IF f.type = DATA THEN [p EXCEPT !.body = @ \o f.payload]
  ELSE p

\* What one frame changes: HEADERS the status, DATA the body, another type nothing.
LEMMA AddedType ==
  ASSUME NEW p \in Parsed, NEW f \in ReadFrame
  PROVE  /\ Added(p, f) \in Parsed
         /\ Added(p, f).status = IF f.type = HEADERS THEN QpackDecodeStatus(f.payload, p.status) ELSE p.status
         /\ Added(p, f).body = IF f.type = DATA THEN p.body \o f.payload ELSE p.body
<1>1. f.payload \in Bytes /\ p.status \in Nat /\ p.body \in Bytes
        /\ p = [status |-> p.status, body |-> p.body]
  BY DEF ReadFrame, Parsed
<1>2. QpackDecodeStatus(f.payload, p.status) \in Nat
  BY <1>1, DecodeStatusType
<1>3. p.body \o f.payload \in Bytes
  BY <1>1, Joined, Zenon
<1>4. HEADERS # DATA
  BY DEF HEADERS, DATA
<1>5. CASE f.type = HEADERS
  <2>1. Added(p, f) = [status |-> QpackDecodeStatus(f.payload, p.status), body |-> p.body]
    BY <1>1, <1>5 DEF Added
  <2>. QED
    BY <1>1, <1>2, <1>4, <1>5, <2>1 DEF Parsed
<1>6. CASE f.type # HEADERS /\ f.type = DATA
  <2>1. Added(p, f) = [status |-> p.status, body |-> p.body \o f.payload]
    BY <1>1, <1>6 DEF Added
  <2>. QED
    BY <1>1, <1>3, <1>4, <1>6, <2>1 DEF Parsed
<1>7. CASE f.type # HEADERS /\ f.type # DATA
  <2>1. Added(p, f) = p
    BY <1>7 DEF Added
  <2>. QED
    BY <1>7, <2>1
<1>. QED
  BY <1>5, <1>6, <1>7

\* The frames read from any bytes.
LEMMA FramesType ==
  ASSUME NEW data \in Bytes
  PROVE  Frames(data) \in Seq(ReadFrame)
<1>1. PICK f : FramesFrom(f, data) /\ Frames(data) = f[1]
  BY FramesIs
<1>2. \A p \in 1 .. Len(data) + 1 : f[p] \in Seq(ReadFrame)
  BY <1>1, FramesLead, ChainType DEF FramesFrom
<1>3. 1 \in 1 .. Len(data) + 1
  BY DEF Bytes
<1>. QED
  BY <1>1, <1>2, <1>3

\* u is what has been read after each frame of R.
ReadUp(u, was, R) ==
  /\ u[0] = was /\ \A i \in 0 .. Len(R) : u[i] \in Parsed
  /\ \A i \in 1 .. Len(R) : u[i] = Added(u[i - 1], R[i])

\* ParseHttp3ResponseStream adds the frames it reads one by one.
LEMMA ParseIs ==
  ASSUME NEW data \in Bytes, NEW was \in Parsed
  PROVE  \E u : /\ ReadUp(u, was, Frames(data))
                /\ ParseHttp3ResponseStream(data, was) = u[Len(Frames(data))]
<1>. DEFINE R == Frames(data)
            n == Len(R)
            upTo[i \in 0 .. n] == IF i = 0 THEN was ELSE Added(upTo[i - 1], R[i])
            step == [x \in (1 .. n) \X Parsed |-> Added(x[2], R[x[1]])]
<1>1. R \in Seq(ReadFrame) /\ n \in Nat
  BY FramesType
<1>2. ParseHttp3ResponseStream(data, was) = upTo[n]
  BY DEF ParseHttp3ResponseStream, Added
<1>. HIDE DEF R
<1>3. \A i \in 1 .. n, p \in Parsed : Added(p, R[i]) \in Parsed
  BY <1>1, AddedType, SMTT(30)
<1>. HIDE DEF n
<1>4. Grows(Parsed, was, n, step)
  BY <1>1, <1>3 DEF Grows
<1>5. \A i \in 1 .. n, p \in Parsed : step[<<i, p>>] = Added(p, R[i])
  OBVIOUS
<1>. HIDE DEF step
<1>6. PICK f : Grown(f, Parsed, was, n, step)
  BY <1>4, Iteration
<1>7. f \in [0 .. n -> Parsed] /\ f[0] = was /\ \A i \in 1 .. n : f[i] = step[<<i, f[i - 1]>>]
  BY <1>6 DEF Grown
<1>8. \A i \in 1 .. n : f[i] = Added(f[i - 1], R[i])
  <2>1. ASSUME NEW i \in 1 .. n PROVE f[i] = Added(f[i - 1], R[i])
    <3>1. f[i - 1] \in Parsed
      BY <1>1, <1>7
    <3>. QED
      BY <1>5, <1>7, <3>1
  <2>. QED
    BY <2>1
<1>9. f = [i \in 0 .. n |-> IF i = 0 THEN was ELSE Added(f[i - 1], R[i])]
  BY <1>1, <1>7, <1>8
<1>10. upTo = [i \in 0 .. n |-> IF i = 0 THEN was ELSE Added(upTo[i - 1], R[i])]
  <2>. HIDE DEF upTo
  <2>1. \E h : h = [i \in 0 .. n |-> IF i = 0 THEN was ELSE Added(h[i - 1], R[i])]
    BY <1>9
  <2>. QED
    BY <2>1 DEF upTo
<1>. HIDE DEF upTo
<1>11. upTo[0] = was /\ \A i \in 1 .. n : upTo[i] = Added(upTo[i - 1], R[i])
  BY <1>1, <1>10
<1>12. \A i \in 0 .. n : upTo[i] \in Parsed
  <2>1. \A i \in 1 .. n : upTo[i - 1] \in Parsed => upTo[i] = step[<<i, upTo[i - 1]>>]
    BY <1>5, <1>11
  <2>. QED
    BY <1>4, <1>11, <2>1, IterationTyped
<1>13. ReadUp(upTo, was, R)
  BY <1>11, <1>12 DEF ReadUp, n
<1>. QED
  BY <1>2, <1>13 DEF R, n

\* The last status of two blocks.
LEMMA LastOfBoth ==
  ASSUME NEW S, NEW a \in Seq(S), NEW b \in Seq(S), NEW was
  PROVE  LastOf(a \o b, was) = LastOf(b, LastOf(a, was))
<1>1. CASE b = <<>>
  <2>1. a \o b = a
    BY <1>1
  <2>. QED
    BY <1>1, <2>1 DEF LastOf
<1>2. CASE b # <<>>
  <2>1. Len(b) \in 1 .. Len(b) /\ Len(a) \in Nat /\ Len(b) \in Nat
    BY <1>2
  <2>2. Len(a \o b) = Len(a) + Len(b) /\ (a \o b)[Len(a) + Len(b)] = b[Len(b)]
    BY <2>1
  <2>3. Len(a \o b) # 0
    BY <2>1, <2>2
  <2>4. a \o b # <<>>
    <3>1. Len(<<>>) = 0
      OBVIOUS
    <3>. QED
      BY <2>3, <3>1
  <2>. QED
    BY <1>2, <2>2, <2>4 DEF LastOf
<1>. QED
  BY <1>1, <1>2

FrameStatusOf(rep, i) == FrameStatus(rep.frames[i])
FrameBodyOf(rep, i) == IF rep.frames[i].type = DATA THEN rep.frames[i].bytes ELSE <<>>

\* What a frame says of the status.
LEMMA FrameStatusType ==
  ASSUME NEW f \in ServerFrame
  PROVE  /\ FrameStatus(f) \in Seq(Nat)
         /\ f.type = HEADERS => FrameStatus(f) = FlattenSeq(LinesStatus(f.lines))
         /\ f.type # HEADERS => FrameStatus(f) = <<>>
<1>1. f.type = HEADERS => FrameStatus(f) = FlattenSeq(LinesStatus(f.lines))
  BY DEF FrameStatus, LinesStatus
<1>2. f.type # HEADERS => FrameStatus(f) = <<>>
  BY DEF FrameStatus
<1>3. CASE f.type = HEADERS
  BY <1>1, <1>2, <1>3, PayloadType, LinesType
<1>4. CASE f.type # HEADERS
  <2>1. <<>> \in Seq(Nat)
    OBVIOUS
  <2>. QED
    BY <1>1, <1>2, <1>4, <2>1
<1>. QED
  BY <1>3, <1>4

\* What one frame that was sent adds to what has been read.
LEMMA AddedIs ==
  ASSUME NEW f \in ServerFrame, NEW p \in Parsed
  PROVE  /\ Added(p, SentFrame(f)).body = p.body \o (IF f.type = DATA THEN f.bytes ELSE <<>>)
         /\ (f.type = HEADERS => \A k \in 1 .. Len(f.lines) : f.lines[k].kind # "literal")
              => Added(p, SentFrame(f)).status = LastOf(FrameStatus(f), p.status)
<1>. DEFINE r == SentFrame(f)
<1>1. r.type = f.type /\ r.payload = ServerPayload(f) /\ r \in ReadFrame
  BY PayloadType DEF SentFrame, ReadFrame
<1>. HIDE DEF r
<1>2. /\ Added(p, r).status = IF f.type = HEADERS THEN QpackDecodeStatus(r.payload, p.status) ELSE p.status
      /\ Added(p, r).body = IF f.type = DATA THEN p.body \o r.payload ELSE p.body
  BY <1>1, AddedType
<1>3. HEADERS # DATA
  BY DEF HEADERS, DATA
<1>4. p.body \o <<>> = p.body
  <2>1. p.body \in Bytes
    BY DEF Parsed
  <2>. QED
    BY <2>1 DEF Bytes
<1>5. Added(p, r).body = p.body \o (IF f.type = DATA THEN f.bytes ELSE <<>>)
  <2>1. CASE f.type = DATA
    <3>1. f.bytes = r.payload
      BY <1>1, <1>3, <2>1, PayloadType
    <3>. QED
      BY <1>2, <2>1, <3>1
  <2>2. CASE f.type # DATA
    BY <1>2, <1>4, <2>2
  <2>. QED
    BY <2>1, <2>2
<1>6. ASSUME f.type = HEADERS => \A k \in 1 .. Len(f.lines) : f.lines[k].kind # "literal"
      PROVE  Added(p, r).status = LastOf(FrameStatus(f), p.status)
  <2>1. CASE f.type = HEADERS
    <3>1. f.lines \in Seq(ServerLines) /\ ServerPayload(f) = <<0, 0>> \o FlattenSeq(LinesBytes(f.lines))
      BY <2>1, PayloadType
    <3>2. QpackDecodeStatus(<<0, 0>> \o FlattenSeq(LinesBytes(f.lines)), p.status)
            = LastOf(FlattenSeq(LinesStatus(f.lines)), p.status)
      BY <1>6, <2>1, <3>1, BlockRoundTrip
    <3>3. FrameStatus(f) = FlattenSeq(LinesStatus(f.lines))
      BY <2>1, FrameStatusType
    <3>4. Added(p, r).status = QpackDecodeStatus(r.payload, p.status)
      BY <1>2, <2>1
    <3>. QED
      BY <1>1, <3>1, <3>2, <3>3, <3>4, Zenon
  <2>2. CASE f.type # HEADERS
    <3>1. FrameStatus(f) = <<>>
      BY <2>2, FrameStatusType
    <3>. QED
      BY <1>2, <2>2, <3>1 DEF LastOf
  <2>. QED
    BY <2>1, <2>2
<1>. QED
  BY <1>5, <1>6 DEF r

\* The stream of a reply parsed: the body and the status that were sent.
LEMMA StreamParsed ==
  ASSUME NEW rep \in Reply, NEW was \in Parsed, was = [status |-> 0, body |-> <<>>]
  PROVE  /\ ParseHttp3ResponseStream(Stream(rep), was) \in Parsed
         /\ ParseHttp3ResponseStream(Stream(rep), was).body = SentBody(rep)
         /\ PlainNames(rep) => ParseHttp3ResponseStream(Stream(rep), was).status = SentStatus(rep)
<1>. DEFINE c == Cardinality(WholeFrames(rep))
            n == Len(rep.frames)
            R == SentFrames(rep)
            data == Stream(rep)
            bodies == [i \in 1 .. c |-> FrameBodyOf(rep, i)]
            statuses == [i \in 1 .. c |-> FrameStatusOf(rep, i)]
<1>1. /\ n \in Nat /\ \A i \in 1 .. n : rep.frames[i] \in ServerFrame
      /\ ServerFrames(rep) \in Seq(Seq(Byte))
  BY ReplyFrames DEF Bytes
<1>2. c \in Nat /\ c <= n
  <2>1. PICK f : Parts(f, Byte, ServerFrames(rep))
    BY <1>1, FlattenParts
  <2>2. c \in 0 .. n
    BY <2>1, WholeAre
  <2>. HIDE DEF c, n
  <2>. QED
    BY <1>1, <2>2
<1>3. data \in Bytes /\ Frames(data) = R
  BY StreamIs, StreamFrames
<1>4. R = [i \in 1 .. c |-> SentFrame(rep.frames[i])]
  BY DEF SentFrames
<1>5. SentBody(rep) = FlattenSeq(bodies)
  BY DEF SentBody, FrameBodyOf
<1>6. SentStatus(rep) = LastOf(FlattenSeq(statuses), 0)
  BY DEF SentStatus, FrameStatusOf, LastOf
<1>. HIDE DEF c, n, R, data
<1>7. \A i \in 1 .. c : rep.frames[i] \in ServerFrame
  BY <1>1, <1>2
<1>8. Len(R) = c /\ \A i \in 1 .. c : R[i] = SentFrame(rep.frames[i])
  BY <1>2, <1>4
<1>9. bodies \in Seq(Seq(Byte)) /\ Len(bodies) = c /\ \A i \in 1 .. c : bodies[i] = FrameBodyOf(rep, i)
  <2>1. \A i \in 1 .. c : FrameBodyOf(rep, i) \in Seq(Byte)
    <3>1. ASSUME NEW i \in 1 .. c PROVE FrameBodyOf(rep, i) \in Seq(Byte)
      <4>1. rep.frames[i] \in ServerFrame
        BY <1>7
      <4>2. DATA # HEADERS
        BY DEF HEADERS, DATA
      <4>3. rep.frames[i].type # HEADERS => rep.frames[i].bytes \in Seq(Byte)
        BY <4>1, PayloadType DEF Bytes
      <4>. QED
        BY <4>2, <4>3 DEF FrameBodyOf
    <3>. QED
      BY <3>1
  <2>. QED
    BY <1>2, <2>1
<1>10. statuses \in Seq(Seq(Nat)) /\ Len(statuses) = c
         /\ \A i \in 1 .. c : statuses[i] = FrameStatusOf(rep, i)
  <2>1. \A i \in 1 .. c : FrameStatusOf(rep, i) \in Seq(Nat)
    BY <1>7, FrameStatusType DEF FrameStatusOf
  <2>. QED
    BY <1>2, <2>1
<1>. HIDE DEF bodies, statuses
<1>11. PICK u : ReadUp(u, was, R) /\ ParseHttp3ResponseStream(data, was) = u[c]
  BY <1>3, <1>8, ParseIs
<1>12. PICK g : Parts(g, Byte, bodies)
  BY <1>9, FlattenParts
<1>13. PICK k : Parts(k, Nat, statuses)
  BY <1>10, FlattenParts
<1>14. FlattenSeq(bodies) = g[c] /\ FlattenSeq(statuses) = k[c]
  <2>1. FlattenSeq(bodies) = g[Len(bodies)]
    BY <1>9, <1>12, FlattenIs
  <2>2. FlattenSeq(statuses) = k[Len(statuses)]
    BY <1>10, <1>13, FlattenIs
  <2>. QED
    BY <1>9, <1>10, <2>1, <2>2
<1>15. \A i \in 0 .. c : u[i] \in Parsed /\ k[i] \in Seq(Nat)
  BY <1>8, <1>10, <1>11, <1>13, Zenon DEF ReadUp, Parts
<1>. DEFINE P(i) == u[i].body = g[i] /\ (PlainNames(rep) => u[i].status = LastOf(k[i], 0))
            T == {i \in Nat : i <= c => P(i)}
<1>16. 0 \in T
  <2>1. g[0] = <<>> /\ k[0] = <<>> /\ u[0] = was
    BY <1>11, <1>12, <1>13, Zenon DEF Parts, ReadUp
  <2>. QED
    BY <2>1 DEF LastOf
<1>17. ASSUME NEW i \in Nat, i \in T PROVE i + 1 \in T
  <2>. SUFFICES ASSUME i + 1 <= c
                PROVE  /\ u[i + 1].body = g[i + 1]
                       /\ PlainNames(rep) => u[i + 1].status = LastOf(k[i + 1], 0)
    OBVIOUS
  <2>. DEFINE f == rep.frames[i + 1]
  <2>1. /\ i + 1 \in 1 .. c /\ (i + 1) - 1 = i /\ i <= c /\ i \in 0 .. c /\ i + 1 \in 1 .. Len(R)
        /\ i + 1 \in 1 .. Len(bodies) /\ i + 1 \in 1 .. Len(statuses) /\ i + 1 \in 1 .. n
    BY <1>1, <1>2, <1>8, <1>9, <1>10
  <2>2. u[i].body = g[i] /\ (PlainNames(rep) => u[i].status = LastOf(k[i], 0))
    <3>. HIDE DEF P
    <3>1. P(i)
      BY <1>17, <2>1
    <3>. QED
      BY <3>1 DEF P
  <2>3. f \in ServerFrame /\ R[i + 1] = SentFrame(f)
    BY <1>7, <1>8, <2>1
  <2>4. u[i + 1] = Added(u[i], SentFrame(f))
    <3>1. u[i + 1] = Added(u[(i + 1) - 1], R[i + 1])
      BY <1>11, <2>1, Zenon DEF ReadUp
    <3>. QED
      BY <2>1, <2>3, <3>1, Zenon
  <2>5. u[i] \in Parsed /\ k[i] \in Seq(Nat)
    BY <1>15, <2>1
  <2>6. g[i + 1] = g[i] \o FrameBodyOf(rep, i + 1)
    <3>1. g[i + 1] = g[(i + 1) - 1] \o bodies[i + 1]
      BY <1>12, <2>1, Zenon DEF Parts
    <3>. QED
      BY <1>9, <2>1, <3>1, Zenon
  <2>7. k[i + 1] = k[i] \o FrameStatus(f)
    <3>1. k[i + 1] = k[(i + 1) - 1] \o statuses[i + 1]
      BY <1>13, <2>1, Zenon DEF Parts
    <3>2. statuses[i + 1] = FrameStatus(f)
      BY <1>10, <2>1, Zenon DEF FrameStatusOf
    <3>. QED
      BY <2>1, <3>1, <3>2, Zenon
  <2>. HIDE DEF T
  <2>8. FrameBodyOf(rep, i + 1) = IF f.type = DATA THEN f.bytes ELSE <<>>
    BY DEF FrameBodyOf
  <2>9. FrameStatus(f) \in Seq(Nat)
    BY <2>3, FrameStatusType
  <2>10. PlainNames(rep) => (f.type = HEADERS => \A j \in 1 .. Len(f.lines) : f.lines[j].kind # "literal")
    BY <2>1, Zenon DEF PlainNames, n
  <2>. HIDE DEF f
  <2>11. u[i + 1].body = g[i + 1]
    <3>1. Added(u[i], SentFrame(f)).body = u[i].body \o (IF f.type = DATA THEN f.bytes ELSE <<>>)
      BY <2>3, <2>5, AddedIs
    <3>. QED
      BY <2>2, <2>4, <2>6, <2>8, <3>1, Zenon
  <2>12. ASSUME PlainNames(rep) PROVE u[i + 1].status = LastOf(k[i + 1], 0)
    <3>1. Added(u[i], SentFrame(f)).status = LastOf(FrameStatus(f), u[i].status)
      BY <2>3, <2>5, <2>10, <2>12, AddedIs
    <3>2. LastOf(k[i] \o FrameStatus(f), 0) = LastOf(FrameStatus(f), LastOf(k[i], 0))
      BY <2>5, <2>9, LastOfBoth
    <3>. QED
      BY <2>2, <2>4, <2>7, <2>12, <3>1, <3>2, Zenon
  <2>. QED
    BY <2>11, <2>12
<1>. HIDE DEF T
<1>18. c \in T
  BY <1>2, <1>16, <1>17, InductionSet
<1>19. u[c].body = g[c] /\ (PlainNames(rep) => u[c].status = LastOf(k[c], 0))
  <2>. HIDE DEF P
  <2>1. P(c)
    BY <1>2, <1>18 DEF T
  <2>. QED
    BY <2>1 DEF P
<1>20. u[c] \in Parsed
  BY <1>2, <1>15
<1>21. bodies = [i \in 1 .. c |-> FrameBodyOf(rep, i)] /\ statuses = [i \in 1 .. c |-> FrameStatusOf(rep, i)]
  BY DEF bodies, statuses
<1>. QED
  BY <1>5, <1>6, <1>11, <1>14, <1>19, <1>20, <1>21, Zenon DEF data

-----------------------------------------------------------------------------
(* The reply as the client takes it. *)

Nothing == [status |-> 0, body |-> <<>>]

\* What has arrived is the beginning of the stream, and what has been parsed is all of it.
ReplyInv ==
  /\ request \in WireRequests \cup {Unset} /\ success \in BOOLEAN
  /\ accum \in [bytes : Bytes, cap : Nat] /\ Len(accum.bytes) <= accum.cap
  /\ arrived = Len(accum.bytes)
  /\ reply = Unset => accum.bytes = <<>> /\ ~success
  /\ sent # <<>> => request # Unset
  /\ reply # Unset => /\ sent # <<>> /\ reply \in RepliesTo(request) /\ reply \in Reply
                      /\ arrived <= Len(Stream(reply)) /\ accum.bytes = SubSeq(Stream(reply), 1, arrived)
  /\ success => /\ reply # Unset /\ arrived = Len(Stream(reply))
                /\ parsed = ParseHttp3ResponseStream(Stream(reply), Nothing)
  /\ ~success => parsed = Nothing

\* It holds when the stream is opened.
LEMMA ReplyInvInit == WireInit => ReplyInv
<1>. SUFFICES ASSUME WireInit PROVE ReplyInv
  OBVIOUS
<1>1. /\ request = Unset /\ sent = <<>> /\ reply = Unset /\ arrived = 0 /\ accum = [bytes |-> <<>>, cap |-> 0]
      /\ parsed = Nothing /\ success = FALSE
  BY DEF WireInit, Nothing
<1>2. <<>> \in Bytes /\ Len(<<>>) = 0
  BY DEF Bytes
<1>3. accum \in [bytes : Bytes, cap : Nat] /\ accum.bytes = <<>> /\ accum.cap = 0
  BY <1>1, <1>2
<1>4. Len(accum.bytes) <= accum.cap /\ arrived = Len(accum.bytes)
  <2>1. Len(accum.bytes) = 0
    BY <1>2, <1>3
  <2>. QED
    BY <1>1, <1>3, <2>1
<1>5. request \in WireRequests \cup {Unset} /\ success \in BOOLEAN /\ ~success /\ reply = Unset
  BY <1>1
<1>. QED
  BY <1>1, <1>3, <1>4, <1>5, Zenon DEF ReplyInv

\* The end of the stream parses it once.
LEMMA EndStep ==
  ASSUME NEW bytes, ReplyInv, reply # Unset, End(bytes), bytes = Stream(reply)
  PROVE  success' = TRUE /\ parsed' = ParseHttp3ResponseStream(Stream(reply), Nothing)
<1>1. success' = TRUE /\ parsed' = IF success THEN parsed ELSE ParseHttp3ResponseStream(bytes, parsed)
  BY DEF End
<1>2. CASE success
  BY <1>1, <1>2 DEF ReplyInv
<1>3. CASE ~success
  BY <1>1, <1>3 DEF ReplyInv
<1>. QED
  BY <1>2, <1>3

\* What has arrived and the next chunk are what has arrived then.
LEMMA Collected ==
  ASSUME NEW s \in Bytes, NEW a \in Nat, NEW n \in Nat, a + n <= Len(s)
  PROVE  /\ SubSeq(s, 1, a) \o SubSeq(s, a + 1, a + n) = SubSeq(s, 1, a + n)
         /\ SubSeq(s, a + 1, a + n) \in Bytes /\ Len(SubSeq(s, 1, a + n)) = a + n
         /\ SubSeq(s, 1, Len(s)) = s
<1>. DEFINE x == SubSeq(s, 1, a)
            y == SubSeq(s, a + 1, a + n)
            z == SubSeq(s, 1, a + n)
<1>0. Len(s) \in Nat
  BY DEF Bytes
<1>1. x \in Bytes /\ Len(x) = a /\ \A k \in 1 .. a : x[k] = s[k]
  <2>1. a \in 0 .. Len(s)
    BY <1>0
  <2>. QED
    BY <2>1, PrefixIs
<1>2. z \in Bytes /\ Len(z) = a + n /\ \A k \in 1 .. a + n : z[k] = s[k]
  <2>1. a + n \in 0 .. Len(s)
    BY <1>0
  <2>. QED
    BY <2>1, PrefixIs
<1>3. y \in Bytes /\ Len(y) = n /\ \A k \in 1 .. n : y[k] = s[a + k]
  <2>1. y \in Bytes
    BY <1>0, SubType
  <2>2. Len(y) = n /\ \A k \in 1 .. n : y[k] = s[a + 1 + k - 1]
    BY <1>0 DEF Bytes
  <2>3. \A k \in 1 .. n : a + 1 + k - 1 = a + k
    OBVIOUS
  <2>. QED
    BY <2>1, <2>2, <2>3
<1>. HIDE DEF x, y, z
<1>4. x \o y \in Seq(Byte) /\ z \in Seq(Byte) /\ Len(x \o y) = Len(z)
      /\ \A k \in 1 .. Len(z) : (x \o y)[k] = IF k <= a THEN x[k] ELSE y[k - a]
  <2>1. x \in Seq(Byte) /\ y \in Seq(Byte) /\ z \in Seq(Byte)
    BY <1>1, <1>2, <1>3, Zenon DEF Bytes
  <2>2. x \o y \in Seq(Byte) /\ Len(x \o y) = a + n
    <3>1. x \o y \in Bytes /\ Len(x \o y) = Len(x) + Len(y)
      BY <1>1, <1>3, Joined, Zenon
    <3>. QED
      BY <1>1, <1>3, <3>1, Zenon DEF Bytes
  <2>3. \A k \in 1 .. a + n : (x \o y)[k] = IF k <= a THEN x[k] ELSE y[k - a]
    BY <1>1, <1>3, <2>1, SMTT(30)
  <2>. QED
    BY <1>2, <2>1, <2>2, <2>3, Zenon
<1>5. ASSUME NEW k \in 1 .. Len(z) PROVE (x \o y)[k] = z[k]
  <2>1. CASE k <= a
    BY <1>1, <1>2, <1>4, <2>1
  <2>2. CASE ~(k <= a)
    <3>1. k - a \in 1 .. n /\ a + (k - a) = k
      BY <1>2, <2>2
    <3>2. y[k - a] = s[k]
      BY <1>3, <3>1
    <3>. QED
      BY <1>2, <1>4, <2>2, <3>2
  <2>. QED
    BY <2>1, <2>2
<1>6. x \o y = z
  BY <1>4, <1>5, SeqEqual
<1>7. SubSeq(s, 1, Len(s)) = s
  BY DEF Bytes
<1>. QED
  BY <1>2, <1>3, <1>6, <1>7 DEF x, y, z

\* A chunk keeps it: the buffer grows by the chunk, and the last chunk is parsed once.
LEMMA ReceiveStep ==
  ASSUME NEW n \in Chunk, NEW fin \in BOOLEAN, Receive(n, fin), ReplyInv
  PROVE  ReplyInv'
<1>. DEFINE s == Stream(reply)
            part == SubSeq(s, arrived + 1, arrived + n)
<1>1. /\ reply # Unset /\ arrived + n <= Len(s) /\ (fin => arrived + n = Len(s))
      /\ arrived' = arrived + n /\ accum' = GrowBufferAppend(accum, part)
      /\ IF fin THEN End(accum'.bytes) ELSE UNCHANGED <<parsed, success>>
      /\ request' = request /\ reply' = reply /\ sent' = sent
  BY DEF Receive
<1>2. n \in Nat \ {0}
  BY WireAssumption
<1>3. /\ request \in WireRequests \cup {Unset} /\ success \in BOOLEAN
      /\ accum \in [bytes : Bytes, cap : Nat] /\ arrived = Len(accum.bytes)
      /\ sent # <<>> /\ request # Unset /\ reply \in RepliesTo(request) /\ reply \in Reply
      /\ accum.bytes = SubSeq(s, 1, arrived)
  BY <1>1 DEF ReplyInv
<1>4. s \in Bytes /\ Len(s) \in Nat /\ arrived \in Nat
  <2>1. s \in Bytes /\ accum.bytes \in Bytes
    BY <1>3, StreamIs
  <2>. QED
    BY <1>3, <2>1 DEF Bytes
<1>. HIDE DEF s
<1>5. ~success
  <2>1. arrived # Len(s)
    BY <1>1, <1>2, <1>4
  <2>. QED
    BY <2>1 DEF ReplyInv, s
<1>6. /\ SubSeq(s, 1, arrived) \o part = SubSeq(s, 1, arrived + n) /\ part \in Bytes
      /\ Len(SubSeq(s, 1, arrived + n)) = arrived + n /\ SubSeq(s, 1, Len(s)) = s
  BY <1>1, <1>2, <1>4, Collected
<1>. HIDE DEF part
<1>7. accum' \in [bytes : Bytes, cap : Nat] /\ Len(accum'.bytes) <= accum'.cap
      /\ accum'.bytes = accum.bytes \o part
  <2>1. LET b == GrowBufferAppend(accum, part) IN
        /\ b \in [bytes : Bytes, cap : Nat] /\ b.bytes = accum.bytes \o part
        /\ Len(b.bytes) <= b.cap
    BY <1>3, <1>6, BufferGrown
  <2>. QED
    BY <1>1, <2>1
<1>8. accum'.bytes = SubSeq(s, 1, arrived') /\ arrived' = Len(accum'.bytes) /\ arrived' <= Len(s)
  <2>1. accum'.bytes = SubSeq(s, 1, arrived + n)
    BY <1>3, <1>6, <1>7, Zenon
  <2>. QED
    BY <1>1, <1>6, <2>1
<1>9. CASE fin
  <2>1. End(accum'.bytes) /\ arrived' = Len(s)
    BY <1>1, <1>9
  <2>2. accum'.bytes = Stream(reply)
    BY <1>6, <1>8, <2>1 DEF s
  <2>3. success' = TRUE /\ parsed' = ParseHttp3ResponseStream(Stream(reply), Nothing)
    BY <1>1, <2>1, <2>2, EndStep
  <2>. QED
    BY <1>1, <1>3, <1>7, <1>8, <2>1, <2>3 DEF ReplyInv, s
<1>10. CASE ~fin
  <2>1. success' = success /\ parsed' = parsed
    BY <1>1, <1>10
  <2>2. parsed = Nothing
    BY <1>5 DEF ReplyInv
  <2>. QED
    BY <1>1, <1>3, <1>5, <1>7, <1>8, <2>1, <2>2 DEF ReplyInv, s
<1>. QED
  BY <1>9, <1>10

\* Every step keeps it.
LEMMA ReplyInvStep == ReplyInv /\ [WireNext]_wireVars => ReplyInv'
<1>. SUFFICES ASSUME ReplyInv, [WireNext]_wireVars PROVE ReplyInv'
  OBVIOUS
<1>1. CASE \E r \in WireRequests : Http3OtpravitZapros(r)
  <2>. PICK r \in WireRequests : Http3OtpravitZapros(r)
    BY <1>1
  <2>1. /\ request = Unset /\ request' = r /\ reply' = reply /\ arrived' = arrived /\ accum' = accum
        /\ parsed' = parsed /\ success' = success
    BY DEF Http3OtpravitZapros
  <2>2. reply = Unset /\ r # Unset
    BY <2>1, WireAssumption DEF ReplyInv
  <2>. QED
    BY <2>1, <2>2 DEF ReplyInv
<1>2. CASE Answer
  <2>1. /\ sent # <<>> /\ sent' = sent /\ reply = Unset /\ reply' \in RepliesTo(request) /\ request' = request
        /\ arrived' = arrived /\ accum' = accum /\ parsed' = parsed /\ success' = success
    BY <1>2 DEF Answer
  <2>2. request \in WireRequests /\ reply' \in Reply /\ reply' # Unset
    <3>1. request \in WireRequests
      BY <2>1 DEF ReplyInv
    <3>. QED
      BY <2>1, <3>1, WireAssumption, ReplyAssumption
  <2>3. accum.bytes = <<>> /\ ~success /\ arrived = 0
    <3>1. accum.bytes = <<>> /\ ~success /\ arrived = Len(accum.bytes)
      BY <2>1 DEF ReplyInv
    <3>. QED
      BY <3>1
  <2>4. 0 <= Len(Stream(reply')) /\ SubSeq(Stream(reply'), 1, 0) = <<>>
    <3>1. Stream(reply') \in Bytes
      BY <2>2, StreamIs
    <3>. QED
      BY <3>1 DEF Bytes
  <2>. QED
    BY <2>1, <2>2, <2>3, <2>4 DEF ReplyInv
<1>3. CASE \E n \in Chunk, fin \in BOOLEAN : Receive(n, fin)
  BY <1>3, ReceiveStep
<1>4. CASE PeerSendShutdown
  <2>1. /\ reply # Unset /\ arrived = Len(Stream(reply)) /\ End(accum.bytes)
        /\ request' = request /\ reply' = reply /\ sent' = sent /\ arrived' = arrived /\ accum' = accum
    BY <1>4 DEF PeerSendShutdown
  <2>2. accum.bytes = Stream(reply)
    <3>1. accum.bytes = SubSeq(Stream(reply), 1, arrived) /\ Stream(reply) \in Bytes
      BY <2>1, StreamIs DEF ReplyInv
    <3>2. SubSeq(Stream(reply), 1, Len(Stream(reply))) = Stream(reply)
      BY <3>1 DEF Bytes
    <3>. QED
      BY <2>1, <3>1, <3>2
  <2>3. success' = TRUE /\ parsed' = ParseHttp3ResponseStream(Stream(reply), Nothing)
    BY <2>1, <2>2, EndStep
  <2>. QED
    BY <2>1, <2>3 DEF ReplyInv
<1>5. CASE StreamShutdown
  BY <1>5 DEF StreamShutdown, ReplyInv
<1>6. CASE ConnectionShutdown
  BY <1>6 DEF ConnectionShutdown, ReplyInv
<1>7. CASE \E r \in WireRequests : NothingSent(r)
  BY <1>7, WireAssumption DEF NothingSent, ReplyInv
<1>8. CASE UNCHANGED wireVars
  BY <1>8 DEF wireVars, ReplyInv
<1>. QED
  BY <1>1, <1>2, <1>3, <1>4, <1>5, <1>6, <1>7, <1>8 DEF WireNext

\* It is invariant, for any requests, replies, chunks and capacity.
LEMMA ReplyInvInductive == WireSpec => []ReplyInv
<1>. QED
  BY ReplyInvInit, ReplyInvStep, PTL DEF WireSpec

\* A reply is taken as the server sent it, for all replies, all ways to cut them into
\* chunks and wherever the FIN comes: the body is the DATA frames, and the status is the
\* last :status line when no field line spells its name out.
THEOREM ReplyAsSent == WireSpec => []ReplyExact
<1>1. ReplyInv => ReplyExact
  <2>. SUFFICES ASSUME ReplyInv, success PROVE ReplyExact
    BY DEF ReplyExact
  <2>1. /\ reply \in Reply /\ arrived = Len(Stream(reply))
        /\ parsed = ParseHttp3ResponseStream(Stream(reply), Nothing)
    BY DEF ReplyInv
  <2>2. Nothing \in Parsed /\ Nothing = [status |-> 0, body |-> <<>>]
    BY DEF Nothing, Parsed, Bytes
  <2>3. parsed.body = SentBody(reply) /\ (PlainNames(reply) => parsed.status = SentStatus(reply))
    BY <2>1, <2>2, StreamParsed
  <2>. QED
    BY <2>1, <2>3 DEF ReplyExact
<1>. QED
  BY <1>1, ReplyInvInductive, PTL

-----------------------------------------------------------------------------
(* The reserve of a line of the request. *)

\* Where a length lies, with the int that tells it.
LEMMA WithPrefix == \A m \in 1 .. 6, n \in Nat : m + n \in Nat /\ m + n \in n + 1 .. n + 6
OBVIOUS

\* An int holds more than the prefix of any QPACK int does.
LEMMA IntMaxType == INT_MAX \in Nat /\ INT_MAX >= 127
BY SMT DEF INT_MAX

\* What is left of an int takes no fewer bytes when it is larger.
LEMMA ContinuationGrows ==
  ASSUME NEW w \in Nat
  PROVE  /\ w < 128 => Len(Continuation(w)) = 1
         /\ w >= 128 => Len(Continuation(w)) = 1 + Len(Continuation(w \div 128))
         /\ Len(Continuation(w)) \in Nat
<1>1. CASE w < 128
  <2>1. Continuation(w) = <<w>>
    BY <1>1, ContinuationStep, Zenon
  <2>. QED
    BY <1>1, <2>1
<1>2. CASE w >= 128
  <2>1. w \div 128 \in Nat
    BY <1>2
  <2>. DEFINE a == <<128 + (w % 128)>>  b == Continuation(w \div 128)
  <2>2. Continuation(w) = a \o b
    BY <1>2, ContinuationStep, Zenon
  <2>3. a \in Bytes /\ b \in Bytes
    BY <2>1, ContinuationByte, ContinuationStep, Zenon
  <2>4. Len(a) = 1
    OBVIOUS
  <2>. HIDE DEF a, b
  <2>5. Len(a \o b) = 1 + Len(b) /\ Len(b) \in Nat
    BY <2>3, <2>4, Joined
  <2>. QED
    BY <1>2, <2>2, <2>5 DEF b
<1>. QED
  BY <1>1, <1>2

\* Five bytes carry what is left of an int above its prefix.
LEMMA ContinuationLength ==
  ASSUME NEW v \in Nat, v <= INT_MAX
  PROVE  Len(Continuation(v)) \in 1 .. 5
<1>. DEFINE v1 == v \div 128  v2 == v1 \div 128  v3 == v2 \div 128  v4 == v3 \div 128
<1>1. v1 \in Nat /\ v2 \in Nat
  OBVIOUS
<1>2. v2 <= 131071
  BY SMT DEF INT_MAX
<1>. HIDE DEF v1, v2
<1>3. v3 \in Nat /\ v3 <= 1023
  BY <1>1, <1>2, SMT
<1>. HIDE DEF v3
<1>4. v4 \in Nat /\ v4 < 128
  BY <1>3
<1>. HIDE DEF v4
<1>6. /\ v >= 128 => Len(Continuation(v)) = 1 + Len(Continuation(v1))
      /\ v1 >= 128 => Len(Continuation(v1)) = 1 + Len(Continuation(v2))
      /\ v2 >= 128 => Len(Continuation(v2)) = 1 + Len(Continuation(v3))
      /\ v3 >= 128 => Len(Continuation(v3)) = 1 + Len(Continuation(v4))
  BY <1>1, <1>3, ContinuationGrows, ZenonT(40) DEF v1, v2, v3, v4
<1>5. /\ v < 128 => Len(Continuation(v)) = 1
      /\ v1 < 128 => Len(Continuation(v1)) = 1
      /\ v2 < 128 => Len(Continuation(v2)) = 1
      /\ v3 < 128 => Len(Continuation(v3)) = 1
      /\ Len(Continuation(v4)) = 1
  BY <1>1, <1>3, <1>4, ContinuationGrows, Zenon
<1>. DEFINE n == Len(Continuation(v))  n1 == Len(Continuation(v1))  n2 == Len(Continuation(v2))
            n3 == Len(Continuation(v3))  n4 == Len(Continuation(v4))
<1>7. /\ v >= 128 => n = 1 + n1
      /\ v1 >= 128 => n1 = 1 + n2
      /\ v2 >= 128 => n2 = 1 + n3
      /\ v3 >= 128 => n3 = 1 + n4
      /\ v < 128 => n = 1
      /\ v1 < 128 => n1 = 1
      /\ v2 < 128 => n2 = 1
      /\ v3 < 128 => n3 = 1
      /\ n4 = 1
  BY <1>5, <1>6, Zenon
<1>. HIDE DEF n, n1, n2, n3, n4
<1>8. n \in 1 .. 5
  BY <1>1, <1>3, <1>7
<1>. QED
  BY <1>8 DEF n

\* The first byte of an int whose prefix is full.
LEMMA PrefixByte ==
  ASSUME NEW bits \in {3, 4, 6, 7}, NEW fixed \in FixedBits(bits)
  PROVE  fixed + PrefixMost(bits) \in Byte
<1>. DEFINE most == PrefixMost(bits)
<1>1. most \in {7, 15, 63, 127} /\ fixed \in 0 .. 255 /\ fixed % (most + 1) = 0
  BY PrefixBits DEF FixedBits
<1>. HIDE DEF most
<1>2. fixed + most \in Byte
  <2>1. CASE most = 7
    BY <1>1, <2>1 DEF Byte
  <2>2. CASE most = 15
    BY <1>1, <2>2 DEF Byte
  <2>3. CASE most = 63
    BY <1>1, <2>3 DEF Byte
  <2>4. CASE most = 127
    BY <1>1, <2>4 DEF Byte
  <2>. QED
    BY <1>1, <2>1, <2>2, <2>3, <2>4
<1>. QED
  BY <1>2 DEF most

\* An int takes six bytes at most, the index of a name two.
LEMMA QpackIntLength ==
  ASSUME NEW bits \in {3, 4, 6, 7}, NEW fixed \in FixedBits(bits), NEW v \in Nat, v <= INT_MAX
  PROVE  /\ Len(WriteQpackInt(bits, fixed, v)) \in 1 .. 6
         /\ bits = 4 /\ v < 128 => Len(WriteQpackInt(bits, fixed, v)) \in 1 .. 2
<1>. DEFINE most == PrefixMost(bits)
<1>1. 2 ^ bits - 1 = most /\ most \in {7, 15, 63, 127}
  BY PrefixBits
<1>. HIDE DEF most
<1>2. WriteQpackInt(bits, fixed, v) =
        IF v < most THEN <<fixed + v>> ELSE <<fixed + most>> \o Continuation(v - most)
  BY <1>1 DEF WriteQpackInt
<1>3. CASE v < most
  BY <1>2, <1>3
<1>4. CASE ~(v < most)
  <2>. DEFINE a == <<fixed + most>>  b == Continuation(v - most)
  <2>1. v - most \in Nat /\ v - most <= INT_MAX
    BY <1>1, <1>4, IntMaxType
  <2>2. b \in Bytes /\ Len(b) \in 1 .. 5 /\ (v - most < 128 => Len(b) = 1)
    BY <2>1, ContinuationStep, ContinuationLength, ContinuationGrows, Zenon
  <2>3. fixed + most \in Byte
    BY PrefixByte DEF most
  <2>4. a \in Bytes /\ Len(a) = 1
    BY <2>3 DEF Bytes
  <2>. HIDE DEF a, b
  <2>6. Len(a \o b) = 1 + Len(b)
    BY <2>2, <2>4, Joined
  <2>7. WriteQpackInt(bits, fixed, v) = a \o b
    BY <1>2, <1>4 DEF a, b
  <2>8. v < 128 => v - most < 128
    BY <1>1
  <2>. DEFINE n == Len(b)  m == Len(WriteQpackInt(bits, fixed, v))
  <2>9. m = 1 + n /\ n \in 1 .. 5 /\ (v - most < 128 => n = 1)
    BY <2>2, <2>6, <2>7, Zenon
  <2>. HIDE DEF n, m
  <2>10. m \in 1 .. 6 /\ (v < 128 => m \in 1 .. 2)
    BY <2>8, <2>9
  <2>. QED
    BY <2>10 DEF m
<1>. QED
  BY <1>3, <1>4

\* A text that an int can count, and one in lower case.
LEMMA WriteStringType ==
  ASSUME NEW s \in Bytes, Len(s) <= INT_MAX
  PROVE  WriteQpackString(s) \in Bytes /\ Len(WriteQpackString(s)) \in Len(s) + 1 .. Len(s) + 6
<1>1. Len(s) \in Nat /\ 0 \in FixedBits(7)
  BY StringPrefix DEF Bytes
<1>2. WriteQpackInt(7, 0, Len(s)) \in Bytes /\ Len(WriteQpackInt(7, 0, Len(s))) \in 1 .. 6
  BY <1>1, QpackIntType, QpackIntLength
<1>. DEFINE a == WriteQpackInt(7, 0, Len(s))
<1>. HIDE DEF a
<1>3. a \o s \in Bytes /\ Len(a \o s) = Len(a) + Len(s) /\ Len(a) \in 1 .. 6
  BY <1>2, Joined DEF a
<1>4. Len(a \o s) \in Len(s) + 1 .. Len(s) + 6
  BY <1>1, <1>3, WithPrefix, Zenon
<1>. QED
  BY <1>3, <1>4, Zenon DEF WriteQpackString, a

\* A text in lower case is as long as it was.
LEMMA LowerType ==
  ASSUME NEW s \in Bytes
  PROVE  Lower(s) \in Bytes /\ Len(Lower(s)) = Len(s)
<1>1. Len(s) \in Nat /\ \A i \in 1 .. Len(s) : s[i] \in Byte
  BY DEF Bytes
<1>2. \A c \in Byte : c \in Capitals => c + 32 \in Byte
  BY DEF Byte, Capitals
<1>3. \A i \in 1 .. Len(s) : (IF s[i] \in Capitals THEN s[i] + 32 ELSE s[i]) \in Byte
  BY <1>1, <1>2
<1>. QED
  BY <1>1, <1>3 DEF Lower, Bytes

\* The reserve of a line covers the line.
Reserved(l) == l \in [dlina : Nat, bytes : Bytes] /\ Len(l.bytes) <= QpackZapas(l.dlina)

\* Two facts make a line one within its reserve.
LEMMA ReservedIs ==
  \A n \in Nat, b \in Bytes : Len(b) <= n + 12 => Reserved([dlina |-> n, bytes |-> b])
BY DEF Reserved, QpackZapas

\* A line with a literal name: its reserve counts both texts and two lengths.
LEMMA LiteralReserved ==
  ASSUME NEW name \in Bytes, NEW text \in Bytes, Len(name) <= INT_MAX, Len(text) <= INT_MAX
  PROVE  Reserved([dlina |-> Len(name) + Len(text), bytes |-> WriteQpackLiteralWithLiteralName(name, text)])
<1>1. Len(name) \in Nat /\ Len(text) \in Nat /\ 32 \in FixedBits(3)
  BY StringPrefix DEF Bytes
<1>2. WriteQpackInt(3, 32, Len(name)) \in Bytes /\ Len(WriteQpackInt(3, 32, Len(name))) \in 1 .. 6
  BY <1>1, QpackIntType, QpackIntLength
<1>3. Lower(name) \in Bytes /\ Len(Lower(name)) = Len(name)
  BY LowerType
<1>4. WriteQpackString(text) \in Bytes /\ Len(WriteQpackString(text)) \in Len(text) + 1 .. Len(text) + 6
  BY WriteStringType
<1>. DEFINE a == WriteQpackInt(3, 32, Len(name))  b == Lower(name)  c == WriteQpackString(text)
<1>5. WriteQpackLiteralWithLiteralName(name, text) = (a \o b) \o c
  BY DEF WriteQpackLiteralWithLiteralName
<1>. HIDE DEF a, b, c
<1>6. a \in Bytes /\ b \in Bytes /\ c \in Bytes
  BY <1>2, <1>3, <1>4 DEF a, b, c
<1>7. (a \o b) \o c \in Bytes /\ Len((a \o b) \o c) = Len(a) + Len(b) + Len(c)
  <2>1. a \o b \in Bytes /\ Len(a \o b) = Len(a) + Len(b)
    BY <1>6, Joined
  <2>. QED
    BY <1>6, <2>1, Joined
<1>8. Len((a \o b) \o c) <= Len(name) + Len(text) + 12
  <2>1. Len(a) \in 1 .. 6 /\ Len(b) = Len(name) /\ Len(c) \in Len(text) + 1 .. Len(text) + 6
    BY <1>2, <1>3, <1>4 DEF a, b, c
  <2>2. \A l, i, j, k, m, n \in Nat :
          l = i + j + k /\ i \in 1 .. 6 /\ j = m /\ k \in n + 1 .. n + 6 => l <= m + n + 12
    OBVIOUS
  <2>3. Len((a \o b) \o c) \in Nat /\ Len(a) \in Nat /\ Len(b) \in Nat /\ Len(c) \in Nat
    BY <1>6, <1>7 DEF Bytes
  <2>. QED
    BY <1>1, <1>7, <2>1, <2>2, <2>3, Zenon
<1>9. Len(name) + Len(text) \in Nat
  BY <1>1
<1>. QED
  BY <1>5, <1>7, <1>8, <1>9, ReservedIs, Zenon

\* A line with a name of the static table.
LEMMA NameRefReserved ==
  ASSUME NEW idx \in 0 .. 127, NEW s \in Bytes, Len(s) <= INT_MAX
  PROVE  Reserved([dlina |-> Len(s), bytes |-> WriteQpackLiteralWithNameRef(idx, s)])
<1>1. Len(s) \in Nat /\ 80 \in FixedBits(4) /\ idx \in Nat /\ idx <= INT_MAX
  BY StringPrefix, IntMaxType DEF Bytes
<1>2. WriteQpackInt(4, 80, idx) \in Bytes /\ Len(WriteQpackInt(4, 80, idx)) \in 1 .. 6
  BY <1>1, QpackIntType, QpackIntLength
<1>3. WriteQpackString(s) \in Bytes /\ Len(WriteQpackString(s)) \in Len(s) + 1 .. Len(s) + 6
  BY WriteStringType
<1>. DEFINE a == WriteQpackInt(4, 80, idx)  b == WriteQpackString(s)
<1>. HIDE DEF a, b
<1>4. a \o b \in Bytes /\ Len(a \o b) = Len(a) + Len(b) /\ Len(a) \in 1 .. 6
      /\ Len(b) \in Len(s) + 1 .. Len(s) + 6
  BY <1>2, <1>3, Joined DEF a, b
<1>5. WriteQpackLiteralWithNameRef(idx, s) = a \o b
  BY DEF WriteQpackLiteralWithNameRef, a, b
<1>6. Len(a \o b) <= Len(s) + 12
  <2>1. \A l, i, k, n \in Nat : l = i + k /\ i \in 1 .. 6 /\ k \in n + 1 .. n + 6 => l <= n + 12
    OBVIOUS
  <2>2. Len(a \o b) \in Nat /\ Len(a) \in Nat /\ Len(b) \in Nat
    BY <1>4 DEF Bytes
  <2>. QED
    BY <1>1, <1>4, <2>1, <2>2, Zenon
<1>. QED
  BY <1>1, <1>4, <1>5, <1>6, ReservedIs, Zenon

\* A line of the static table is a byte long.
LEMMA IndexedReserved ==
  ASSUME NEW idx \in 0 .. 63
  PROVE  Reserved([dlina |-> 0, bytes |-> WriteQpackIndexed(idx)])
BY DEF Reserved, QpackZapas, WriteQpackIndexed, Bytes, Byte

-----------------------------------------------------------------------------
(* Decimal texts. *)

\* The decimal texts of the numbers up to n.
Decimals(r, n) ==
  /\ r \in [0 .. n -> Bytes]
  /\ \A w \in 0 .. n : r[w] = IF w < 10 THEN <<48 + w>> ELSE r[w \div 10] \o <<48 + (w % 10)>>

\* A number without its last digit.
LEMMA DigitsLess ==
  ASSUME NEW w \in Nat, w >= 10
  PROVE  w \div 10 \in Nat /\ w \div 10 < w /\ w = 10 * (w \div 10) + (w % 10)
         /\ w % 10 \in 0 .. 9
OBVIOUS

\* A digit is a byte.
LEMMA DecimalByte ==
  ASSUME NEW w \in Nat
  PROVE  (w < 10 => <<48 + w>> \in Bytes) /\ <<48 + (w % 10)>> \in Bytes
<1>1. w % 10 \in 0 .. 9
  OBVIOUS
<1>2. 48 + (w % 10) \in Byte
  BY <1>1 DEF Byte
<1>3. w < 10 => 48 + w \in Byte
  BY DEF Byte
<1>. QED
  BY <1>2, <1>3 DEF Bytes

\* There are such texts: one of every number, from the shorter ones.
LEMMA DecimalsExist ==
  ASSUME NEW n \in Nat
  PROVE  \E r : Decimals(r, n)
<1>. DEFINE D == 0 .. n
            rank == [w \in D |-> w]
            F == [p \in D \X [D -> Bytes] |->
                    IF p[1] < 10 THEN <<48 + p[1]>> ELSE p[2][p[1] \div 10] \o <<48 + (p[1] % 10)>>]
<1>1. rank \in [D -> Nat]
  OBVIOUS
<1>2. ASSUME NEW w \in D, ~(w < 10) PROVE w \div 10 \in D /\ rank[w \div 10] < rank[w]
  BY <1>2, DigitsLess
<1>3. F \in [D \X [D -> Bytes] -> Bytes]
  <2>. SUFFICES ASSUME NEW w \in D, NEW g \in [D -> Bytes]
                PROVE  (IF w < 10 THEN <<48 + w>> ELSE g[w \div 10] \o <<48 + (w % 10)>>) \in Bytes
    OBVIOUS
  <2>1. CASE w < 10
    <3>0. w \in Nat
      OBVIOUS
    <3>1. <<48 + w>> \in Bytes
      BY <2>1, <3>0, DecimalByte
    <3>. QED
      BY <2>1, <3>1, Zenon
  <2>2. CASE ~(w < 10)
    <3>1. g[w \div 10] \in Bytes /\ <<48 + (w % 10)>> \in Bytes
      BY <1>2, <2>2, DecimalByte
    <3>2. g[w \div 10] \o <<48 + (w % 10)>> \in Bytes
      BY <3>1 DEF Bytes
    <3>. QED
      BY <2>2, <3>2
  <2>. QED
    BY <2>1, <2>2
<1>4. \A w \in D, g \in [D -> Bytes] :
        F[<<w, g>>] = IF w < 10 THEN <<48 + w>> ELSE g[w \div 10] \o <<48 + (w % 10)>>
  OBVIOUS
<1>. HIDE DEF D, rank, F
<1>5. ASSUME NEW w \in D, NEW g \in [D -> Bytes], NEW h \in [D -> Bytes],
             \A y \in D : rank[y] < rank[w] => g[y] = h[y]
      PROVE  F[<<w, g>>] = F[<<w, h>>]
  <2>1. CASE w < 10
    <3>1. F[<<w, g>>] = <<48 + w>> /\ F[<<w, h>>] = <<48 + w>>
      BY <1>4, <2>1, Zenon
    <3>. QED
      BY <3>1
  <2>2. CASE ~(w < 10)
    <3>1. g[w \div 10] = h[w \div 10]
      BY <1>2, <1>5, <2>2
    <3>2. /\ F[<<w, g>>] = g[w \div 10] \o <<48 + (w % 10)>>
          /\ F[<<w, h>>] = h[w \div 10] \o <<48 + (w % 10)>>
      BY <1>4, <2>2
    <3>. QED
      BY <3>1, <3>2
  <2>. QED
    BY <2>1, <2>2
<1>6. Descends(D, Bytes, rank, F)
  <2>1. Bytes # {}
    BY EmptySeq DEF Bytes
  <2>. QED
    BY <1>1, <1>3, <1>5, <2>1 DEF Descends
<1>7. PICK r : Solves(r, D, Bytes, F)
  BY <1>6, Recursion
<1>8. \A w \in D : r[w] = IF w < 10 THEN <<48 + w>> ELSE r[w \div 10] \o <<48 + (w % 10)>>
  BY <1>4, <1>7 DEF Solves
<1>. QED
  BY <1>7, <1>8 DEF Solves, Decimals, D

\* MyIntToStr is one of them.
LEMMA DecimalIs ==
  ASSUME NEW v \in Nat, NEW n \in Nat, v <= n, NEW r, Decimals(r, n)
  PROVE  MyIntToStr(v) = r[v]
<1>. DEFINE text[w \in 0 .. v] ==
              IF w < 10 THEN <<48 + w>> ELSE text[w \div 10] \o <<48 + (w % 10)>>
            g == [w \in 0 .. v |-> r[w]]
            T == {w \in Nat : w <= v => text[w] = r[w]}
<1>1. g = [w \in 0 .. v |-> IF w < 10 THEN <<48 + w>> ELSE g[w \div 10] \o <<48 + (w % 10)>>]
  <2>1. ASSUME NEW w \in 0 .. v
        PROVE  g[w] = IF w < 10 THEN <<48 + w>> ELSE g[w \div 10] \o <<48 + (w % 10)>>
    <3>0. w \in 0 .. n
      OBVIOUS
    <3>1. r[w] = IF w < 10 THEN <<48 + w>> ELSE r[w \div 10] \o <<48 + (w % 10)>>
      BY <3>0, Zenon DEF Decimals
    <3>2. ~(w < 10) => w \div 10 \in 0 .. v
      BY DigitsLess, SMTT(30)
    <3>. QED
      BY <3>1, <3>2
  <2>. QED
    BY <2>1
<1>2. text = [w \in 0 .. v |-> IF w < 10 THEN <<48 + w>> ELSE text[w \div 10] \o <<48 + (w % 10)>>]
  <2>. HIDE DEF g
  <2>1. \E h : h = [w \in 0 .. v |-> IF w < 10 THEN <<48 + w>> ELSE h[w \div 10] \o <<48 + (w % 10)>>]
    BY <1>1
  <2>. QED
    BY <2>1, Zenon
<1>3. MyIntToStr(v) = text[v]
  BY DEF MyIntToStr
<1>. HIDE DEF text, g
<1>4. ASSUME NEW w \in Nat, \A m \in Nat : m < w => m \in T PROVE w \in T
  <2>. SUFFICES ASSUME w <= v PROVE text[w] = r[w]
    OBVIOUS
  <2>0. w \in 0 .. v /\ w \in 0 .. n
    OBVIOUS
  <2>1. text[w] = IF w < 10 THEN <<48 + w>> ELSE text[w \div 10] \o <<48 + (w % 10)>>
    BY <1>2, <2>0, Zenon
  <2>2. r[w] = IF w < 10 THEN <<48 + w>> ELSE r[w \div 10] \o <<48 + (w % 10)>>
    BY <2>0, Zenon DEF Decimals
  <2>3. ~(w < 10) => text[w \div 10] = r[w \div 10]
    BY <1>4, DigitsLess
  <2>. QED
    BY <2>1, <2>2, <2>3
<1>. HIDE DEF T
<1>5. \A w \in Nat : w \in T
  BY <1>4, StrongInduction
<1>. QED
  BY <1>3, <1>5 DEF T

\* MyIntToStr as its recursion reads, and its type.
LEMMA MyIntToStrStep ==
  ASSUME NEW v \in Nat
  PROVE  /\ MyIntToStr(v) \in Bytes
         /\ v < 10 => MyIntToStr(v) = <<48 + v>>
         /\ v >= 10 => MyIntToStr(v) = MyIntToStr(v \div 10) \o <<48 + (v % 10)>>
<1>1. PICK r : Decimals(r, v)
  BY DecimalsExist
<1>2. MyIntToStr(v) = r[v]
  BY <1>1, DecimalIs
<1>3. ASSUME v >= 10 PROVE MyIntToStr(v \div 10) = r[v \div 10]
  <2>1. v \div 10 \in Nat /\ v \div 10 <= v
    BY <1>3, DigitsLess
  <2>. QED
    BY <1>1, <2>1, DecimalIs
<1>4. r[v] \in Bytes /\ r[v] = IF v < 10 THEN <<48 + v>> ELSE r[v \div 10] \o <<48 + (v % 10)>>
  BY <1>1 DEF Decimals
<1>5. CASE v < 10
  <2>1. ~(v >= 10)
    BY <1>5
  <2>. QED
    BY <1>2, <1>4, <1>5, <2>1, Zenon
<1>6. CASE ~(v < 10)
  <2>1. v >= 10
    BY <1>6
  <2>. QED
    BY <1>2, <1>3, <1>4, <1>6, <2>1, Zenon
<1>. QED
  BY <1>5, <1>6

-----------------------------------------------------------------------------
(* Headers of the user. *)

\* One turn of the loop over the headers: what it finds, and that it moves on.
LEMMA NextPairType ==
  ASSUME NEW raw \in Bytes, NEW i \in 1 .. Len(raw)
  PROVE  /\ NextPair(raw, i).name \in Bytes /\ NextPair(raw, i).text \in Bytes
         /\ NextPair(raw, i).next \in i + 1 .. Len(raw) + 1
         /\ Len(NextPair(raw, i).name) <= Len(raw) /\ Len(NextPair(raw, i).text) <= Len(raw)
         /\ DOMAIN NextPair(raw, i) = {"name", "text", "next"}
<1>. DEFINE n == Len(raw)
            k == UpTo(raw, i, {Colon})
            c == IF k <= Len(raw) THEN k + 1 ELSE k
            v == IF c <= Len(raw) /\ raw[c] = Space THEN c + 1 ELSE c
            e == UpTo(raw, v, {CR})
            x == UpTo(raw, e, Byte \ {CR, LF})
<1>1. NextPair(raw, i) = [name |-> SubSeq(raw, i, k - 1), text |-> SubSeq(raw, v, e - 1), next |-> x]
  BY DEF NextPair
<1>2. n \in Nat
  BY DEF Bytes
<1>3. i \in 1 .. n + 1
  BY <1>2
<1>4. k \in i .. n + 1
  BY <1>3, UpToPlace
<1>. HIDE DEF k
<1>5. c \in i + 1 .. n + 1
  BY <1>2, <1>3, <1>4
<1>. HIDE DEF c
<1>6. v \in i + 1 .. n + 1 /\ v \in 1 .. n + 1
  BY <1>2, <1>3, <1>5
<1>. HIDE DEF v
<1>7. e \in v .. n + 1
  BY <1>6, UpToPlace
<1>. HIDE DEF e
<1>8. e \in 1 .. n + 1
  BY <1>2, <1>6, <1>7
<1>9. x \in e .. n + 1
  BY <1>8, UpToPlace
<1>. HIDE DEF x
<1>10. x \in i + 1 .. n + 1
  BY <1>2, <1>6, <1>7, <1>9
<1>11. \A a \in Nat \ {0}, b \in Nat : b <= n => SubSeq(raw, a, b) \in Bytes /\ Len(SubSeq(raw, a, b)) <= n
  <2>. SUFFICES ASSUME NEW a \in Nat \ {0}, NEW b \in Nat, b <= n
                PROVE  SubSeq(raw, a, b) \in Bytes /\ Len(SubSeq(raw, a, b)) <= n
    OBVIOUS
  <2>1. SubSeq(raw, a, b) \in Bytes
    BY SubType
  <2>2. Len(SubSeq(raw, a, b)) = IF a <= b THEN b - a + 1 ELSE 0
    BY <1>2 DEF Bytes
  <2>. QED
    BY <1>2, <2>1, <2>2
<1>12. /\ i \in Nat \ {0} /\ v \in Nat \ {0} /\ k - 1 \in Nat /\ k - 1 <= n /\ e - 1 \in Nat /\ e - 1 <= n
  BY <1>2, <1>3, <1>4, <1>6, <1>8
<1>. QED
  BY <1>1, <1>10, <1>11, <1>12, SMTT(30)

\* A pair as NextPair finds it, and where the next one begins.
Pair == [name : Bytes, text : Bytes, next : Nat]

\* What the encoder finds in a headers text, and how it goes through it.
PairsOf(raw) == {p \in Pair : Len(p.name) <= Len(raw) /\ Len(p.text) <= Len(raw)}
Named(p) == IF p.name = <<>> THEN <<>> ELSE <<p>>
PairsFrom(f, raw) ==
  \A i \in 1 .. Len(raw) + 1 :
    /\ f[i] \in Seq(PairsOf(raw))
    /\ f[i] = IF i > Len(raw) THEN <<>> ELSE Named(NextPair(raw, i)) \o f[NextPair(raw, i).next]

\* Any headers text is gone through in that way.
LEMMA UserPairsIs ==
  ASSUME NEW raw \in Bytes
  PROVE  \E f : PairsFrom(f, raw) /\ UserPairs(raw) = f[1]
<1>. DEFINE n == Len(raw)
            P == PairsOf(raw)
            pairs[i \in 1 .. n + 1] ==
              LET named(p) == (IF p.name = <<>> THEN <<>> ELSE <<p>>) \o pairs[p.next]
              IN IF i > n THEN <<>> ELSE named(NextPair(raw, i))
            w == [i \in 1 .. n + 1 |-> i <= n]
            a == [i \in 1 .. n + 1 |-> Named(NextPair(raw, i))]
            x == [i \in 1 .. n + 1 |-> NextPair(raw, i).next]
<1>1. UserPairs(raw) = pairs[1]
  BY DEF UserPairs
<1>2. pairs = CHOOSE h : h = [i \in 1 .. n + 1 |->
                                 IF i > n THEN <<>> ELSE Named(NextPair(raw, i)) \o h[NextPair(raw, i).next]]
  BY DEF Named
<1>. HIDE DEF pairs
<1>3. n \in Nat
  BY DEF Bytes
<1>4. \A i \in 1 .. n : NextPair(raw, i) \in P /\ NextPair(raw, i).next \in i + 1 .. n + 1
  <2>. SUFFICES ASSUME NEW i \in 1 .. n
                PROVE  NextPair(raw, i) \in P /\ NextPair(raw, i).next \in i + 1 .. n + 1
    OBVIOUS
  <2>1. /\ NextPair(raw, i).name \in Bytes /\ NextPair(raw, i).text \in Bytes
        /\ NextPair(raw, i).next \in i + 1 .. n + 1
        /\ Len(NextPair(raw, i).name) <= n /\ Len(NextPair(raw, i).text) <= n
    BY NextPairType
  <2>2. NextPair(raw, i) = [name |-> NextPair(raw, i).name, text |-> NextPair(raw, i).text,
                            next |-> NextPair(raw, i).next]
    BY DEF NextPair
  <2>3. NextPair(raw, i).next \in Nat
    BY <1>3, <2>1
  <2>4. NextPair(raw, i) \in Pair
    BY <2>1, <2>2, <2>3 DEF Pair
  <2>. QED
    BY <2>1, <2>4 DEF PairsOf
<1>. HIDE DEF P
<1>5. \A p \in P : Named(p) \in Seq(P)
  BY DEF Named
<1>6. \A i \in 1 .. n + 1 : w[i] => a[i] \in Seq(P) /\ x[i] \in i + 1 .. n + 1
  <2>. SUFFICES ASSUME NEW i \in 1 .. n + 1, w[i] PROVE a[i] \in Seq(P) /\ x[i] \in i + 1 .. n + 1
    OBVIOUS
  <2>1. i \in 1 .. n
    <3>1. i <= n
      BY Zenon
    <3>. HIDE DEF w, n
    <3>. QED
      BY <1>3, <3>1
  <2>2. a[i] = Named(NextPair(raw, i)) /\ x[i] = NextPair(raw, i).next
    OBVIOUS
  <2>. HIDE DEF a, x
  <2>. QED
    BY <1>4, <1>5, <2>1, <2>2, Zenon
<1>7. \A i \in 1 .. n + 1 : /\ w[i] = (i <= n) /\ a[i] = Named(NextPair(raw, i))
                            /\ x[i] = NextPair(raw, i).next /\ (i > n <=> ~(i <= n))
  BY <1>3
<1>. HIDE DEF w, a, x
<1>8. Leads(P, n, w, a, x)
  BY <1>3, <1>6 DEF Leads
<1>9. PICK f : Chained(f, n, w, a, x)
  BY <1>8, ChainExists
<1>10. f = [i \in 1 .. n + 1 |-> IF i > n THEN <<>> ELSE Named(NextPair(raw, i)) \o f[NextPair(raw, i).next]]
  BY <1>7, <1>9, Zenon DEF Chained
<1>11. pairs = [i \in 1 .. n + 1 |->
                  IF i > n THEN <<>> ELSE Named(NextPair(raw, i)) \o pairs[NextPair(raw, i).next]]
  BY <1>2, <1>10, Zenon
<1>12. Chained(pairs, n, w, a, x)
  BY <1>7, <1>11 DEF Chained
<1>13. \A i \in 1 .. n + 1 : pairs[i] \in Seq(P)
  BY <1>8, <1>12, ChainType
<1>14. PairsFrom(pairs, raw)
  <2>1. \A i \in 1 .. n + 1 :
          pairs[i] = IF i > n THEN <<>> ELSE Named(NextPair(raw, i)) \o pairs[NextPair(raw, i).next]
    BY <1>11
  <2>. QED
    BY <1>13, <2>1, Zenon DEF PairsFrom, n, P
<1>. QED
  BY <1>1, <1>14

\* The pairs of a headers text, each no longer than the text.
LEMMA UserPairsType ==
  ASSUME NEW raw \in Bytes
  PROVE  UserPairs(raw) \in Seq({p \in Pair : Len(p.name) <= Len(raw) /\ Len(p.text) <= Len(raw)})
<1>1. 1 \in 1 .. Len(raw) + 1
  BY DEF Bytes
<1>. QED
  BY <1>1, UserPairsIs DEF PairsFrom, PairsOf

-----------------------------------------------------------------------------
(* URLs. *)

\* A URL as ParseUrl gets it.
UrlText == [secure : BOOLEAN, rest : Bytes]

\* A piece of a text.
LEMMA PieceType ==
  ASSUME NEW s \in Bytes, NEW a \in Nat \ {0}, NEW b \in Nat, b <= Len(s)
  PROVE  SubSeq(s, a, b) \in Bytes
BY SubType

\* The parts of a URL are texts, and its scheme is kept.
LEMMA ParseUrlType ==
  ASSUME NEW url \in UrlText
  PROVE  /\ ParseUrl(url).host \in Bytes /\ ParseUrl(url).path \in Bytes
         /\ ParseUrl(url).port \in Nat /\ ParseUrl(url).secure = url.secure
<1>. DEFINE p == url.rest
            n == Len(p)
            h == UpTo(p, 1, {Slash, Colon})
            ported == h <= Len(p) /\ p[h] = Colon
            e == IF ported THEN UpTo(p, h + 1, Byte \ Digits) ELSE h
            name == SubSeq(p, 1, h - 1)
            digits == SubSeq(p, h + 1, e - 1)
            port == IF ported THEN MyAtoi(digits) ELSE IF url.secure THEN 443 ELSE 80
            path == IF e <= Len(p) /\ p[e] = Slash THEN Cut(From(p, e), PathCap) ELSE <<Slash>>
<1>1. ParseUrl(url) = [secure |-> url.secure, host |-> Cut(name, HostCap), port |-> port, path |-> path]
  BY DEF ParseUrl
<1>2. p \in Bytes /\ n \in Nat
  BY DEF UrlText, Bytes
<1>. HIDE DEF p
<1>3. 1 \in 1 .. n + 1
  BY <1>2
<1>4. h \in 1 .. n + 1
  BY <1>2, <1>3, UpToPlace
<1>. HIDE DEF h
<1>5. name \in Bytes
  <2>1. h - 1 \in Nat /\ h - 1 <= n /\ 1 \in Nat \ {0}
    BY <1>2, <1>4
  <2>. QED
    BY <1>2, <2>1, PieceType
<1>6. e \in 1 .. n + 1 /\ (ported => e \in h + 1 .. n + 1)
  <2>1. CASE ported
    <3>1. h + 1 \in 1 .. n + 1
      BY <1>2, <1>4, <2>1
    <3>2. UpTo(p, h + 1, Byte \ Digits) \in h + 1 .. n + 1
      BY <1>2, <3>1, UpToPlace
    <3>3. e = UpTo(p, h + 1, Byte \ Digits)
      BY <2>1, Zenon
    <3>. HIDE DEF e
    <3>. QED
      BY <1>4, <2>1, <3>2, <3>3
  <2>2. CASE ~ported
    <3>1. e = h
      BY <2>2, Zenon
    <3>. HIDE DEF e, ported
    <3>. QED
      BY <1>4, <2>2, <3>1, Zenon
  <2>. QED
    BY <2>1, <2>2, Zenon
<1>. HIDE DEF e
<1>7. port \in Nat
  <2>1. CASE ported
    <3>1. h + 1 \in Nat \ {0} /\ e - 1 \in Nat /\ e - 1 <= n
      BY <1>2, <1>4, <1>6
    <3>2. digits \in Bytes
      BY <1>2, <3>1, PieceType
    <3>. HIDE DEF digits, ported
    <3>3. MyAtoi(digits) \in Nat
      BY <3>2, MyAtoiType
    <3>. QED
      BY <2>1, <3>3
  <2>2. CASE ~ported
    BY <2>2
  <2>. QED
    BY <2>1, <2>2
<1>8. path \in Bytes
  <2>1. CASE e <= Len(p) /\ p[e] = Slash
    <3>1. From(p, e) \in Bytes
      <4>1. e \in Nat \ {0}
        BY <1>2, <1>6
      <4>. QED
        BY <1>2, <4>1, PieceType DEF From
    <3>2. Cut(From(p, e), PathCap) \in Bytes
      BY <3>1, CutType, WireAssumption
    <3>. QED
      BY <2>1, <3>2, Zenon
  <2>2. CASE ~(e <= Len(p) /\ p[e] = Slash)
    <3>1. path = <<Slash>>
      BY <2>2, Zenon
    <3>2. <<Slash>> \in Bytes
      BY DEF Bytes, Byte, Slash
    <3>. QED
      BY <3>1, <3>2, Zenon
  <2>. QED
    BY <2>1, <2>2
<1>9. Cut(name, HostCap) \in Bytes
  BY <1>5, CutType, WireAssumption
<1>. HIDE DEF name, port, path
<1>. QED
  BY <1>1, <1>7, <1>8, <1>9

\* The text of :authority.
LEMMA AuthorityType ==
  ASSUME NEW url \in UrlText
  PROVE  Authority(ParseUrl(url)) \in Bytes
<1>. DEFINE u == ParseUrl(url)
<1>1. u.host \in Bytes /\ u.port \in Nat
  BY ParseUrlType
<1>. HIDE DEF u
<1>2. <<Colon>> \in Bytes
  BY DEF Bytes, Byte, Colon
<1>3. MyIntToStr(u.port) \in Bytes
  BY <1>1, MyIntToStrStep, Zenon
<1>4. u.host \o <<Colon>> \in Bytes
  BY <1>1, <1>2, Joined
<1>5. (u.host \o <<Colon>>) \o MyIntToStr(u.port) \in Bytes
  BY <1>3, <1>4, Joined
<1>. QED
  BY <1>1, <1>5, Zenon DEF Authority, u

\* The headers of a request joined into one text, as Lua hands them down.
LEMMA RawHeadersType ==
  ASSUME NEW headers \in Seq(Bytes \X Bytes)
  PROVE  RawHeaders(headers) \in Bytes
<1>. DEFINE n == Len(headers)
            s == [i \in 1 .. n |-> headers[i][1] \o <<Colon, Space>> \o headers[i][2] \o <<CR, LF>>]
<1>1. n \in Nat /\ \A i \in 1 .. n : headers[i] \in Bytes \X Bytes
  OBVIOUS
<1>2. \A i \in 1 .. n : headers[i][1] \in Bytes /\ headers[i][2] \in Bytes
  BY <1>1
<1>3. <<Colon, Space>> \in Bytes /\ <<CR, LF>> \in Bytes
  BY DEF Bytes, Byte, Colon, Space, CR, LF
<1>4. \A i \in 1 .. n : ((headers[i][1] \o <<Colon, Space>>) \o headers[i][2]) \o <<CR, LF>> \in Bytes
  BY <1>2, <1>3, Joined, Zenon
<1>5. s \in Seq(Bytes)
  <2>1. \A i \in 1 .. n : s[i] \in Bytes
    BY <1>4, Zenon
  <2>2. s = [i \in 1 .. n |-> s[i]]
    BY Zenon
  <2>. HIDE DEF s
  <2>. QED
    BY <1>1, <2>1, <2>2
<1>. HIDE DEF s
<1>6. FlattenSeq(s) \in Bytes
  BY <1>5, FlattenType DEF Bytes
<1>. QED
  BY <1>6 DEF RawHeaders, s

-----------------------------------------------------------------------------
(* The lines of a request. *)

\* A request whose lengths an int holds, and the texts its block is made of.
Fits(r) == r \in WireRequest /\ HeaderRoom(r) + Len(r.body) <= INT_MAX /\ Len(r.method) <= INT_MAX

\* A text up to its first NUL, cut to a buffer, is shorter than the buffer, and the text
\* itself when it has no NUL and fits.
LEMMA CopyIs ==
  ASSUME NEW s \in Bytes, NEW cap \in Nat \ {0}
  PROVE  /\ CString(s) \in Bytes /\ Cut(CString(s), cap) \in Bytes /\ Len(Cut(CString(s), cap)) < cap
         /\ NoNul(s) => CString(s) = s /\ (Len(s) < cap => Cut(CString(s), cap) = s)
<1>. DEFINE u == UpTo(s, 1, {NUL})
            t == CString(s)
<1>1. /\ u \in 1 .. Len(s) + 1 /\ (u <= Len(s) => s[u] \in {NUL}) /\ Len(s) \in Nat
  <2>1. Len(s) \in Nat
    BY DEF Bytes
  <2>. QED
    BY <2>1, UpToPlace
<1>2. t = SubSeq(s, 1, u - 1)
  BY DEF CString
<1>. HIDE DEF u, t
<1>3. t \in Bytes
  <2>1. u - 1 \in Nat /\ u - 1 <= Len(s) /\ 1 \in Nat \ {0}
    BY <1>1
  <2>. QED
    BY <1>2, <2>1, PieceType
<1>4. Cut(t, cap) \in Bytes /\ (Len(t) < cap => Cut(t, cap) = t)
  BY <1>3, CutType
<1>5. Len(Cut(t, cap)) < cap
  <2>1. CASE Len(t) < cap
    BY <1>4, <2>1
  <2>2. CASE ~(Len(t) < cap)
    BY <1>3, <2>2 DEF Cut, Bytes
  <2>. QED
    BY <2>1, <2>2
<1>6. ASSUME NoNul(s) PROVE t = s
  <2>1. ~(u <= Len(s))
    BY <1>1, <1>6 DEF NoNul
  <2>2. u - 1 = Len(s)
    BY <1>1, <2>1
  <2>3. SubSeq(s, 1, Len(s)) = s
    BY DEF Bytes
  <2>. QED
    BY <1>2, <2>2, <2>3
<1>. QED
  BY <1>3, <1>4, <1>5, <1>6 DEF t

\* What initiateRequest keeps is a request with a method that an int's length holds, and
\* the request itself when it is well spelt.
LEMMA ContextIs ==
  ASSUME NEW r \in WireRequest
  PROVE  LET q == AsyncRequestContext(r) IN
         /\ q \in WireRequest /\ q.body = r.body /\ q.url.secure = r.url.secure
         /\ Len(q.method) \in Nat /\ Len(q.method) < MethodCap
         /\ WellSpelt(r) => q = r
<1>. DEFINE q == AsyncRequestContext(r)
            n == Len(r.headers)
            rest == Cut(CString(r.url.rest), UrlCap - SchemeLength)
            method == Cut(CString(r.method), MethodCap)
            headers == [i \in 1 .. n |-> <<CString(r.headers[i][1]), CString(r.headers[i][2])>>]
<1>1. /\ r.url \in [secure : BOOLEAN, rest : Bytes] /\ r.url.rest \in Bytes /\ r.url.secure \in BOOLEAN
      /\ r.host \in Bytes /\ r.port \in Nat /\ r.path \in Bytes
      /\ r.method \in Bytes /\ r.headers \in Seq(Bytes \X Bytes) /\ r.body \in Bytes
  BY DEF WireRequest
<1>2. UrlCap - SchemeLength \in Nat \ {0} /\ MethodCap \in Nat \ {0}
  BY WireAssumption DEF SchemeLength
<1>3. /\ n \in Nat
      /\ \A i \in 1 .. n : r.headers[i] \in Bytes \X Bytes /\ r.headers[i][1] \in Bytes /\ r.headers[i][2] \in Bytes
      /\ \A i \in 1 .. n : r.headers[i] = <<r.headers[i][1], r.headers[i][2]>>
  BY <1>1
<1>4. rest \in Bytes /\ method \in Bytes /\ Len(method) < MethodCap
  BY <1>1, <1>2, CopyIs
<1>5. headers \in Seq(Bytes \X Bytes)
  <2>1. \A i \in 1 .. n : CString(r.headers[i][1]) \in Bytes /\ CString(r.headers[i][2]) \in Bytes
    BY <1>2, <1>3, CopyIs
  <2>. QED
    BY <1>3, <2>1
<1>6. q = [url |-> [secure |-> r.url.secure, rest |-> rest], host |-> r.host, port |-> r.port,
           path |-> r.path, method |-> method, headers |-> headers, body |-> r.body]
  BY DEF AsyncRequestContext
<1>7. ASSUME WellSpelt(r) PROVE rest = r.url.rest /\ method = r.method /\ headers = r.headers
  <2>1. /\ NoNul(r.url.rest) /\ SchemeLength + Len(r.url.rest) < UrlCap
        /\ NoNul(r.method) /\ Len(r.method) < MethodCap
        /\ \A i \in 1 .. n : NoNul(r.headers[i][1]) /\ NoNul(r.headers[i][2])
    BY <1>7 DEF WellSpelt
  <2>2. Len(r.url.rest) < UrlCap - SchemeLength
    <3>1. Len(r.url.rest) \in Nat
      BY <1>1 DEF Bytes
    <3>. QED
      BY <2>1, <3>1, WireAssumption DEF SchemeLength
  <2>3. rest = r.url.rest /\ method = r.method
    BY <1>1, <1>2, <2>1, <2>2, CopyIs
  <2>4. \A i \in 1 .. n : CString(r.headers[i][1]) = r.headers[i][1] /\ CString(r.headers[i][2]) = r.headers[i][2]
    BY <1>2, <1>3, <2>1, CopyIs
  <2>5. \A i \in 1 .. n : headers[i] = r.headers[i]
    BY <1>3, <2>4
  <2>. HIDE DEF headers, n
  <2>6. Len(headers) = Len(r.headers)
    BY <1>3 DEF headers, n
  <2>7. headers = r.headers
    BY <1>1, <1>5, <2>5, <2>6 DEF n
  <2>. QED
    BY <2>3, <2>7
<1>. HIDE DEF q, rest, method, headers
<1>8. q \in WireRequest /\ q.body = r.body /\ q.url.secure = r.url.secure /\ q.method = method
  BY <1>1, <1>4, <1>5, <1>6 DEF WireRequest
<1>9. ASSUME WellSpelt(r) PROVE q = r
  <2>1. r.url = [secure |-> r.url.secure, rest |-> r.url.rest]
    BY <1>1
  <2>2. r = [url |-> r.url, host |-> r.host, port |-> r.port, path |-> r.path, method |-> r.method,
             headers |-> r.headers, body |-> r.body]
    BY DEF WireRequest
  <2>. QED
    BY <1>6, <1>7, <1>9, <2>1, <2>2, Zenon
<1>. QED
  BY <1>4, <1>8, <1>9 DEF q, Bytes

\* What is kept of the requests of the model are such requests.
LEMMA RequestFits == \A r \in WireRequests : Fits(AsyncRequestContext(r))
<1>. SUFFICES ASSUME NEW r \in WireRequests PROVE Fits(AsyncRequestContext(r))
  OBVIOUS
<1>. DEFINE q == AsyncRequestContext(r)
<1>1. r \in WireRequest /\ HeaderRoom(q) + Len(r.body) <= INT_MAX /\ MethodCap <= INT_MAX
  BY RequestAssumption
<1>2. q \in WireRequest /\ q.body = r.body /\ Len(q.method) \in Nat /\ Len(q.method) < MethodCap
  BY <1>1, ContextIs
<1>. HIDE DEF q
<1>3. Len(q.method) <= INT_MAX
  BY <1>1, <1>2, WireAssumption, IntMaxType
<1>. QED
  BY <1>1, <1>2, <1>3 DEF Fits, q

\* The requests that are sent as they were asked.
SpeltRequests == {r \in WireRequests : WellSpelt(r)}

\* They fit, and they are kept whole.
LEMMA SpeltFits == \A r \in SpeltRequests : Fits(r) /\ AsyncRequestContext(r) = r
<1>. SUFFICES ASSUME NEW r \in SpeltRequests PROVE Fits(r) /\ AsyncRequestContext(r) = r
  OBVIOUS
<1>1. r \in WireRequests /\ r \in WireRequest /\ WellSpelt(r)
  BY RequestAssumption DEF SpeltRequests
<1>2. AsyncRequestContext(r) = r
  BY <1>1, ContextIs
<1>. QED
  BY <1>1, <1>2, RequestFits

\* The texts of a request, their lengths and the room for its block are ints.
LEMMA RequestTexts ==
  ASSUME NEW r, Fits(r)
  PROVE  LET u == ParseUrl(r.url) raw == RawHeaders(r.headers) IN
         /\ u.path \in Bytes /\ Authority(u) \in Bytes /\ raw \in Bytes
         /\ r.method \in Bytes /\ r.body \in Bytes
         /\ Len(u.path) <= INT_MAX /\ Len(Authority(u)) <= INT_MAX /\ Len(raw) <= INT_MAX
         /\ HeaderRoom(r) \in Nat /\ HeaderRoom(r) <= INT_MAX /\ Len(r.body) <= INT_MAX
<1>. DEFINE u == ParseUrl(r.url)
            raw == RawHeaders(r.headers)
<1>1. /\ r.url \in UrlText /\ r.method \in Bytes /\ r.body \in Bytes
      /\ r.headers \in Seq(Bytes \X Bytes)
  BY DEF Fits, WireRequest, UrlText
<1>2. u.path \in Bytes /\ Authority(u) \in Bytes /\ raw \in Bytes
  BY <1>1, ParseUrlType, AuthorityType, RawHeadersType, Zenon
<1>. DEFINE a == Len(u.path)  b == Len(Authority(u))  c == Len(raw)  d == Len(r.body)
<1>3. HeaderRoom(r) = BaseRoom + a + b + 5 * c
  BY DEF HeaderRoom
<1>. HIDE DEF u, raw
<1>4. a \in Nat /\ b \in Nat /\ c \in Nat /\ d \in Nat /\ BaseRoom \in Nat
  BY <1>1, <1>2, WireAssumption DEF Bytes
<1>. HIDE DEF a, b, c, d
<1>5. BaseRoom + a + b + 5 * c + d <= INT_MAX
  BY <1>3, Zenon DEF Fits, d
<1>6. /\ BaseRoom + a + b + 5 * c \in Nat /\ BaseRoom + a + b + 5 * c <= INT_MAX
      /\ a <= INT_MAX /\ b <= INT_MAX /\ c <= INT_MAX /\ d <= INT_MAX
  BY <1>4, <1>5, IntMaxType
<1>. QED
  BY <1>1, <1>2, <1>3, <1>6, Zenon DEF u, raw, a, b, c, d

\* The lines within their reserve.
ReservedLine == {l \in [dlina : Nat, bytes : Bytes] : Len(l.bytes) <= QpackZapas(l.dlina)}

\* Two ways to say that a line is within its reserve.
LEMMA ReservedLines == \A l : Reserved(l) => l \in ReservedLine
BY DEF Reserved, ReservedLine

\* The index of a method in the static table fits in the six bits of an indexed line.
LEMMA MethodIndex ==
  ASSUME NEW m \in SUBSET (1 .. 7), m # {}
  PROVE  (14 + CHOOSE i \in m : TRUE) \in 0 .. 63
<1>. DEFINE x == CHOOSE i \in m : TRUE
<1>1. x \in m
  OBVIOUS
<1>. HIDE DEF x
<1>2. 14 + x \in 0 .. 63
  BY <1>1
<1>. QED
  BY <1>2 DEF x

\* Every line of a request is within its reserve.
LEMMA FieldLinesReserved ==
  ASSUME NEW r, Fits(r)
  PROVE  FieldLines(r) \in Seq(ReservedLine)
<1>. DEFINE u == ParseUrl(r.url)
            raw == RawHeaders(r.headers)
            method == {i \in DOMAIN Methods : Methods[i] = r.method}
            ref(idx, s) == [dlina |-> Len(s), bytes |-> WriteQpackLiteralWithNameRef(idx, s)]
            indexed(idx) == [dlina |-> 0, bytes |-> WriteQpackIndexed(idx)]
            users == UserPairs(raw)
            l1 == IF method # {} THEN indexed(14 + CHOOSE i \in method : TRUE)
                  ELSE [dlina |-> Len(r.method) + 7,
                        bytes |-> WriteQpackLiteralWithLiteralName(MethodName, r.method)]
            l2 == IF u.path = <<Slash>> THEN indexed(PATH_ROOT) ELSE ref(PATH_ROOT, u.path)
            l3 == indexed(SCHEME_HTTPS)
            l4 == ref(AUTHORITY, Authority(u))
            l5 == ref(USER_AGENT, Agent)
            own == [i \in 1 .. Len(users) |->
                      [dlina |-> Len(users[i].name) + Len(users[i].text),
                       bytes |-> WriteQpackLiteralWithLiteralName(users[i].name, users[i].text)]]
<1>1. FieldLines(r) = <<l1, l2, l3, l4, l5>> \o own
  BY Zenon DEF FieldLines
<1>2. /\ u.path \in Bytes /\ Authority(u) \in Bytes /\ raw \in Bytes /\ r.method \in Bytes
      /\ Len(u.path) <= INT_MAX /\ Len(Authority(u)) <= INT_MAX /\ Len(raw) <= INT_MAX
      /\ Len(r.method) <= INT_MAX
  BY RequestTexts DEF Fits
<1>. HIDE DEF u, raw
<1>3. l1 \in ReservedLine
  <2>1. CASE method # {}
    <3>1. method \in SUBSET (1 .. 7)
      BY DEF Methods
    <3>. DEFINE idx == 14 + CHOOSE i \in method : TRUE
    <3>2. idx \in 0 .. 63
      BY <2>1, <3>1, MethodIndex
    <3>3. l1 = indexed(idx)
      BY <2>1, Zenon
    <3>. HIDE DEF l1, idx
    <3>. QED
      BY <3>2, <3>3, IndexedReserved, ReservedLines, Zenon
  <2>2. CASE ~(method # {})
    <3>1. l1 = [dlina |-> Len(r.method) + 7,
                bytes |-> WriteQpackLiteralWithLiteralName(MethodName, r.method)]
      BY <2>2, Zenon
    <3>2. MethodName \in Bytes /\ Len(MethodName) = 7
      BY DEF MethodName, Bytes, Byte
    <3>3. Len(MethodName) <= INT_MAX
      BY <3>2, IntMaxType
    <3>4. Len(MethodName) + Len(r.method) = Len(r.method) + 7
      <4>1. Len(r.method) \in Nat
        BY <1>2 DEF Bytes
      <4>. QED
        BY <3>2, <4>1
    <3>. HIDE DEF l1
    <3>. QED
      BY <1>2, <3>1, <3>2, <3>3, <3>4, LiteralReserved, ReservedLines, Zenon
  <2>. QED
    BY <2>1, <2>2
<1>4. /\ indexed(PATH_ROOT) \in ReservedLine /\ indexed(SCHEME_HTTPS) \in ReservedLine
      /\ PATH_ROOT \in 0 .. 127 /\ AUTHORITY \in 0 .. 127 /\ USER_AGENT \in 0 .. 127
  <2>1. /\ PATH_ROOT \in 0 .. 63 /\ SCHEME_HTTPS \in 0 .. 63
        /\ PATH_ROOT \in 0 .. 127 /\ AUTHORITY \in 0 .. 127 /\ USER_AGENT \in 0 .. 127
    BY DEF PATH_ROOT, SCHEME_HTTPS, AUTHORITY, USER_AGENT
  <2>. QED
    BY <2>1, IndexedReserved, ReservedLines, Zenon
<1>5. \A idx \in 0 .. 127, s \in Bytes : Len(s) <= INT_MAX => ref(idx, s) \in ReservedLine
  BY NameRefReserved, ReservedLines, Zenon
<1>6. l2 \in ReservedLine
  <2>1. ref(PATH_ROOT, u.path) \in ReservedLine
    BY <1>2, <1>4, <1>5, Zenon
  <2>. QED
    BY <1>4, <2>1, Zenon
<1>7. l3 \in ReservedLine
  BY <1>4, Zenon
<1>8. l4 \in ReservedLine
  BY <1>2, <1>4, <1>5, Zenon
<1>9. l5 \in ReservedLine
  BY <1>4, <1>5, RequestAssumption, Zenon
<1>10. own \in Seq(ReservedLine)
  <2>. DEFINE n == Len(users)
              line(p) == [dlina |-> Len(p.name) + Len(p.text),
                          bytes |-> WriteQpackLiteralWithLiteralName(p.name, p.text)]
              Q == {p \in Pair : Len(p.name) <= Len(raw) /\ Len(p.text) <= Len(raw)}
  <2>1. users \in Seq(Q)
    BY <1>2, UserPairsType
  <2>2. \A p \in Q : line(p) \in ReservedLine
    <3>. SUFFICES ASSUME NEW p \in Q PROVE line(p) \in ReservedLine
      OBVIOUS
    <3>1. p.name \in Bytes /\ p.text \in Bytes /\ Len(p.name) <= Len(raw) /\ Len(p.text) <= Len(raw)
      BY DEF Pair
    <3>2. Len(p.name) <= INT_MAX /\ Len(p.text) <= INT_MAX
      <4>1. Len(p.name) \in Nat /\ Len(p.text) \in Nat /\ Len(raw) \in Nat
        BY <1>2, <3>1 DEF Bytes
      <4>. QED
        BY <1>2, <3>1, <4>1, IntMaxType
    <3>. QED
      BY <3>1, <3>2, LiteralReserved, ReservedLines, Zenon
  <2>. HIDE DEF Q, line, users
  <2>3. n \in Nat /\ \A i \in 1 .. n : users[i] \in Q
    BY <2>1
  <2>4. own = [i \in 1 .. n |-> line(users[i])]
    BY DEF line
  <2>5. \A i \in 1 .. n : line(users[i]) \in ReservedLine
    BY <2>2, <2>3
  <2>. HIDE DEF own, n
  <2>. QED
    BY <2>3, <2>4, <2>5
<1>. HIDE DEF l1, l2, l3, l4, l5, own
<1>11. <<l1, l2, l3, l4, l5>> \in Seq(ReservedLine)
  BY <1>3, <1>6, <1>7, <1>8, <1>9
<1>. QED
  BY <1>1, <1>10, <1>11

-----------------------------------------------------------------------------
(* The encoder and its room. *)

\* The encoder's loop: what it has written so far, and whether it has stopped.
Encoding(cap) == {acc \in [out : Bytes, full : BOOLEAN] : Len(acc.out) <= cap}

\* One turn of it.
EncodeLine(cap, acc, l) ==
  IF acc.full \/ Len(acc.out) + QpackZapas(l.dlina) > cap THEN [acc EXCEPT !.full = TRUE]
  ELSE [acc EXCEPT !.out = @ \o l.bytes]

\* A line leaves what is written inside the room.
LEMMA EncodeLineType ==
  ASSUME NEW cap \in Nat, NEW acc \in Encoding(cap), NEW l \in ReservedLine
  PROVE  EncodeLine(cap, acc, l) \in Encoding(cap)
<1>1. acc.out \in Bytes /\ acc.full \in BOOLEAN /\ Len(acc.out) <= cap
        /\ acc \in [out : Bytes, full : BOOLEAN]
  BY DEF Encoding
<1>2. l.bytes \in Bytes /\ l.dlina \in Nat /\ Len(l.bytes) <= QpackZapas(l.dlina)
  BY DEF ReservedLine
<1>. DEFINE stop == acc.full \/ Len(acc.out) + QpackZapas(l.dlina) > cap
<1>3. CASE stop
  <2>1. EncodeLine(cap, acc, l) = [acc EXCEPT !.full = TRUE]
    BY <1>3, Zenon DEF EncodeLine
  <2>. QED
    BY <1>1, <2>1 DEF Encoding
<1>4. CASE ~stop
  <2>1. EncodeLine(cap, acc, l) = [acc EXCEPT !.out = acc.out \o l.bytes]
    BY <1>4, Zenon DEF EncodeLine
  <2>2. acc.out \o l.bytes \in Bytes /\ Len(acc.out \o l.bytes) = Len(acc.out) + Len(l.bytes)
    BY <1>1, <1>2, Joined
  <2>3. Len(acc.out \o l.bytes) <= cap
    <3>1. Len(acc.out) \in Nat /\ Len(l.bytes) \in Nat /\ QpackZapas(l.dlina) \in Nat
      BY <1>1, <1>2 DEF Bytes, QpackZapas
    <3>2. ~(Len(acc.out) + QpackZapas(l.dlina) > cap)
      BY <1>4
    <3>3. \A a, b, z \in Nat : b <= z /\ ~(a + z > cap) => a + b <= cap
      OBVIOUS
    <3>. QED
      BY <1>2, <2>2, <3>1, <3>2, <3>3, Zenon
  <2>. HIDE DEF stop
  <2>4. EncodeLine(cap, acc, l) = [out |-> acc.out \o l.bytes, full |-> acc.full]
    BY <1>1, <2>1
  <2>. QED
    BY <1>1, <2>2, <2>3, <2>4 DEF Encoding
<1>. QED
  BY <1>3, <1>4

\* The loop line by line, within its room at every turn.
Encodes(block, cap, lines) ==
  /\ block[0] = [out |-> <<0, 0>>, full |-> FALSE]
  /\ \A i \in 1 .. Len(lines) : block[i] = EncodeLine(cap, block[i - 1], lines[i])
  /\ \A i \in 0 .. Len(lines) : block[i] \in Encoding(cap)

\* The encoder goes through that loop.
LEMMA EncoderIs ==
  ASSUME NEW cap \in Nat, ~(cap < 2), NEW lines \in Seq(ReservedLine)
  PROVE  \E block : /\ Encodes(block, cap, lines)
                    /\ QpackEncodeRequestHeaders(cap, lines) = block[Len(lines)].out
<1>. DEFINE n == Len(lines)
            V == Encoding(cap)
            base == [out |-> <<0, 0>>, full |-> FALSE]
            add(acc, l) == IF acc.full \/ Len(acc.out) + QpackZapas(l.dlina) > cap
                           THEN [acc EXCEPT !.full = TRUE]
                           ELSE [acc EXCEPT !.out = @ \o l.bytes]
            block[i \in 0 .. n] == IF i = 0 THEN base ELSE add(block[i - 1], lines[i])
            step == [p \in (1 .. n) \X V |-> EncodeLine(cap, p[2], lines[p[1]])]
<1>1. QpackEncodeRequestHeaders(cap, lines) = block[n].out
  BY DEF QpackEncodeRequestHeaders
<1>2. block = CHOOSE h : h = [i \in 0 .. n |-> IF i = 0 THEN base ELSE EncodeLine(cap, h[i - 1], lines[i])]
  BY Zenon DEF EncodeLine
<1>. HIDE DEF block
<1>3. n \in Nat /\ \A i \in 1 .. n : lines[i] \in ReservedLine
  OBVIOUS
<1>4. base \in V
  <2>1. <<0, 0>> \in Bytes /\ Len(<<0, 0>>) = 2
    BY DEF Bytes, Byte
  <2>2. \A o \in Bytes : Len(o) <= cap => [out |-> o, full |-> FALSE] \in Encoding(cap)
    BY DEF Encoding
  <2>3. Len(<<0, 0>>) <= cap
    BY <2>1
  <2>. QED
    BY <2>1, <2>2, <2>3, Zenon
<1>5. \A i \in 1 .. n, v \in V : EncodeLine(cap, v, lines[i]) \in V
  BY <1>3, EncodeLineType
<1>6. \A i \in 1 .. n, v \in V : step[<<i, v>>] = EncodeLine(cap, v, lines[i])
  OBVIOUS
<1>7. step \in [(1 .. n) \X V -> V]
  BY <1>5
<1>. HIDE DEF step, base, V, n
<1>8. Grows(V, base, n, step)
  BY <1>3, <1>4, <1>7 DEF Grows
<1>9. PICK f : Grown(f, V, base, n, step)
  BY <1>8, Iteration
<1>10. f = [i \in 0 .. n |-> IF i = 0 THEN base ELSE EncodeLine(cap, f[i - 1], lines[i])]
  <2>1. f \in [0 .. n -> V] /\ f[0] = base /\ \A i \in 1 .. n : f[i] = step[<<i, f[i - 1]>>]
    BY <1>9 DEF Grown
  <2>2. ASSUME NEW i \in 1 .. n PROVE f[i] = EncodeLine(cap, f[i - 1], lines[i])
    <3>1. f[i - 1] \in V
      BY <1>3, <2>1
    <3>. QED
      BY <1>6, <2>1, <3>1
  <2>. QED
    BY <1>3, <2>1, <2>2
<1>11. block = [i \in 0 .. n |-> IF i = 0 THEN base ELSE EncodeLine(cap, block[i - 1], lines[i])]
  BY <1>2, <1>10
<1>12. block[0] = base /\ \A i \in 1 .. n : block[i] = EncodeLine(cap, block[i - 1], lines[i])
  BY <1>3, <1>11
<1>13. \A i \in 1 .. n : block[i - 1] \in V => block[i] = step[<<i, block[i - 1]>>]
  BY <1>6, <1>12
<1>14. \A i \in 0 .. n : block[i] \in V
  BY <1>8, <1>12, <1>13, IterationTyped
<1>15. Encodes(block, cap, lines)
  BY <1>12, <1>14 DEF Encodes, base, n, V
<1>. QED
  BY <1>1, <1>15 DEF n

\* The whole loop leaves it there, for any lines within their reserve.
LEMMA EncoderType ==
  ASSUME NEW cap \in Nat, NEW lines \in Seq(ReservedLine)
  PROVE  /\ QpackEncodeRequestHeaders(cap, lines) \in Bytes
         /\ Len(QpackEncodeRequestHeaders(cap, lines)) <= cap
<1>1. CASE cap < 2
  <2>1. QpackEncodeRequestHeaders(cap, lines) = <<>>
    BY <1>1 DEF QpackEncodeRequestHeaders
  <2>2. <<>> \in Bytes /\ Len(<<>>) = 0
    BY DEF Bytes
  <2>. QED
    BY <2>1, <2>2
<1>2. CASE ~(cap < 2)
  <2>1. PICK block : Encodes(block, cap, lines) /\ QpackEncodeRequestHeaders(cap, lines) = block[Len(lines)].out
    BY <1>2, EncoderIs
  <2>2. Len(lines) \in 0 .. Len(lines)
    OBVIOUS
  <2>3. block[Len(lines)] \in Encoding(cap)
    BY <2>1, <2>2, Zenon DEF Encodes
  <2>. QED
    BY <2>1, <2>3 DEF Encoding
<1>. QED
  BY <1>1, <1>2

\* Whatever its room, the encoder stays inside it.
THEOREM EncoderFits ==
  ASSUME NEW r \in WireRequests, NEW cap \in Nat
  PROVE  Len(QpackEncodeRequestHeaders(cap, FieldLines(AsyncRequestContext(r)))) <= cap
BY RequestFits, FieldLinesReserved, EncoderType

\* What is sent is one text, or two with a body.
LEMMA SendBufType ==
  ASSUME NEW r, Fits(r)
  PROVE  SendBuf(r) \in Seq(Bytes) /\ Len(SendBuf(r)) <= 2
<1>. DEFINE block == QpackEncodeRequestHeaders(HeaderRoom(r), FieldLines(r))
            head == WriteHttp3Frame(HEADERS, block)
            data == IF r.body = <<>> THEN <<>> ELSE WriteHttp3Frame(DATA, r.body)
            buf == head \o data
            dataPos == Len(head)
            pos == dataPos + Len(data)
<1>1. SendBuf(r) = IF r.body = <<>> THEN <<buf>> ELSE <<SubSeq(buf, 1, dataPos), SubSeq(buf,
        dataPos + 1, pos)>>
  BY DEF SendBuf
<1>2. /\ HeaderRoom(r) \in Nat /\ HeaderRoom(r) <= INT_MAX
      /\ r.body \in Bytes /\ Len(r.body) <= INT_MAX
  BY RequestTexts
<1>3. block \in Bytes /\ Len(block) <= HeaderRoom(r)
  BY <1>2, FieldLinesReserved, EncoderType
<1>4. Len(block) \in Nat /\ Len(r.body) \in Nat
  BY <1>2, <1>3 DEF Bytes
<1>5. Len(block) <= INT_MAX
  BY <1>2, <1>3, <1>4, IntMaxType
<1>6. Len(block) < VarintEnd /\ Len(r.body) < VarintEnd
  BY <1>2, <1>4, <1>5, IntMaxFits
<1>7. HEADERS \in Nat /\ HEADERS < VarintEnd /\ DATA \in Nat /\ DATA < VarintEnd
  <2>1. HEADERS \in Nat /\ HEADERS <= INT_MAX /\ DATA \in Nat /\ DATA <= INT_MAX
    BY IntMaxType DEF HEADERS, DATA
  <2>. QED
    BY <2>1, IntMaxFits
<1>. HIDE DEF block
<1>8. head \in Bytes
  BY <1>3, <1>6, <1>7, FrameType
<1>9. data \in Bytes
  <2>1. <<>> \in Bytes
    BY DEF Bytes
  <2>2. WriteHttp3Frame(DATA, r.body) \in Bytes
    BY <1>2, <1>6, <1>7, FrameType
  <2>. QED
    BY <2>1, <2>2
<1>. HIDE DEF head, data
<1>10. buf \in Bytes /\ Len(buf) = pos /\ dataPos \in Nat /\ Len(data) \in Nat
  BY <1>8, <1>9, Joined DEF Bytes
<1>. HIDE DEF buf, dataPos
<1>11. SubSeq(buf, 1, dataPos) \in Bytes /\ SubSeq(buf, dataPos + 1, pos) \in Bytes
  <2>1. pos \in Nat /\ dataPos <= Len(buf) /\ pos <= Len(buf) /\ dataPos + 1 \in Nat \ {0} /\ 1 \in Nat \ {0}
    BY <1>10
  <2>. QED
    BY <1>10, <2>1, PieceType
<1>. HIDE DEF pos
<1>. DEFINE x == SubSeq(buf, 1, dataPos)  y == SubSeq(buf, dataPos + 1, pos)
<1>12. <<buf>> \in Seq(Bytes) /\ Len(<<buf>>) <= 2
  BY <1>10
<1>13. <<x, y>> \in Seq(Bytes) /\ Len(<<x, y>>) <= 2
  <2>1. x \in Bytes /\ y \in Bytes
    BY <1>11
  <2>. HIDE DEF x, y
  <2>. QED
    BY <2>1
<1>. QED
  BY <1>1, <1>12, <1>13

-----------------------------------------------------------------------------
(* The types of the exchange. *)

\* What was sent are one or two texts; the flags.
SentInv ==
  /\ sent \in Seq(Bytes) /\ Len(sent) <= 2
  /\ success \in BOOLEAN /\ failed \in BOOLEAN /\ over \in BOOLEAN

\* It holds when the stream is opened.
LEMMA SentInvInit == WireInit => SentInv
<1>1. <<>> \in Seq(Bytes) /\ Len(<<>>) <= 2
  OBVIOUS
<1>. QED
  BY <1>1 DEF WireInit, SentInv

\* Every step keeps it.
LEMMA SentInvStep == SentInv /\ [WireNext]_wireVars => SentInv'
<1>. SUFFICES ASSUME SentInv, [WireNext]_wireVars PROVE SentInv'
  OBVIOUS
<1>1. CASE \E r \in WireRequests : Http3OtpravitZapros(r)
  <2>. PICK r \in WireRequests : Http3OtpravitZapros(r)
    BY <1>1
  <2>. DEFINE q == AsyncRequestContext(r)
  <2>1. sent' = SendBuf(q) /\ success' = success /\ failed' = failed /\ over' = over
    BY DEF Http3OtpravitZapros
  <2>2. SendBuf(q) \in Seq(Bytes) /\ Len(SendBuf(q)) <= 2
    BY SendBufType, RequestFits
  <2>. QED
    BY <2>1, <2>2 DEF SentInv
<1>2. CASE Answer
  BY <1>2 DEF Answer, SentInv
<1>3. CASE \E n \in Chunk, fin \in BOOLEAN : Receive(n, fin)
  <2>. PICK n \in Chunk, fin \in BOOLEAN : Receive(n, fin)
    BY <1>3
  <2>1. /\ sent' = sent /\ failed' = failed /\ over' = over
        /\ IF fin THEN End(accum'.bytes) ELSE UNCHANGED <<parsed, success>>
    BY DEF Receive
  <2>2. success' \in BOOLEAN
    BY <2>1 DEF End, SentInv
  <2>. QED
    BY <2>1, <2>2 DEF SentInv
<1>4. CASE PeerSendShutdown
  BY <1>4 DEF PeerSendShutdown, End, SentInv
<1>5. CASE StreamShutdown
  BY <1>5 DEF StreamShutdown, SentInv
<1>6. CASE ConnectionShutdown
  BY <1>6 DEF ConnectionShutdown, SentInv
<1>7. CASE \E r \in WireRequests : NothingSent(r)
  BY <1>7 DEF NothingSent, SentInv
<1>8. CASE UNCHANGED wireVars
  BY <1>8 DEF wireVars, SentInv
<1>. QED
  BY <1>1, <1>2, <1>3, <1>4, <1>5, <1>6, <1>7, <1>8 DEF WireNext

\* WireTypeOK in every state: what is sent are one or two texts of bytes, and what is
\* collected fits its buffer, whatever the chunks.
THEOREM WireTyped == WireSpec => []WireTypeOK
<1>1. WireSpec => []SentInv
  BY SentInvInit, SentInvStep, PTL DEF WireSpec
<1>2. ReplyInv /\ SentInv => WireTypeOK
  <2>. SUFFICES ASSUME ReplyInv, SentInv PROVE WireTypeOK
    OBVIOUS
  <2>1. parsed \in Parsed
    <3>1. Nothing \in Parsed /\ Nothing = [status |-> 0, body |-> <<>>]
      BY DEF Nothing, Parsed, Bytes
    <3>2. CASE success
      <4>1. reply \in Reply /\ parsed = ParseHttp3ResponseStream(Stream(reply), Nothing)
        BY <3>2 DEF ReplyInv
      <4>. QED
        BY <3>1, <4>1, StreamParsed
    <3>3. CASE ~success
      BY <3>1, <3>3 DEF ReplyInv
    <3>. QED
      BY <3>2, <3>3
  <2>2. /\ request \in WireRequests \cup {Unset}
        /\ reply # Unset => sent # <<>> /\ reply \in RepliesTo(request)
        /\ accum \in [bytes : Bytes, cap : Nat] /\ Len(accum.bytes) <= accum.cap
        /\ arrived = Len(accum.bytes)
    BY DEF ReplyInv
  <2>3. /\ sent \in Seq(Bytes) /\ Len(sent) <= 2
        /\ success \in BOOLEAN /\ failed \in BOOLEAN /\ over \in BOOLEAN
    BY DEF SentInv
  <2>4. parsed \in [status : Nat, body : Bytes]
    BY <2>1 DEF Parsed
  <2>. QED
    BY <2>2, <2>3, <2>4, Zenon DEF WireTypeOK
<1>. QED
  BY <1>1, <1>2, ReplyInvInductive, PTL

-----------------------------------------------------------------------------
(* The field lines of a request, as the server reads them. *)

\* What a line of the request says at a place: the int it begins with, the length of its
\* text, and where its name and its text end.
FieldBits(block, pos) == IF block[pos] >= 128 THEN 6 ELSE IF block[pos] >= 64 THEN 4 ELSE 3
FieldInt(block, pos) == ReadQpackInt(block, pos, FieldBits(block, pos))
NameEnd(block, pos) ==
  pos + FieldInt(block, pos).n + (IF block[pos] < 64 THEN FieldInt(block, pos).value ELSE 0)
TextLength(block, pos) == ReadQpackInt(block, NameEnd(block, pos), 7)
TextStart(block, pos) == NameEnd(block, pos) + TextLength(block, pos).n
FieldText(block, pos) ==
  SubSeq(block, TextStart(block, pos), TextStart(block, pos) + TextLength(block, pos).value - 1)

WellFormed(block, pos) ==
  IF block[pos] >= 128
  THEN ~(block[pos] % 128 < 64) /\ FieldInt(block, pos).value \in DOMAIN StaticLine
  ELSE /\ ~(TextStart(block, pos) + TextLength(block, pos).value - 1 > Len(block))
       /\ TextLength(block, pos).n # 0
       /\ block[pos] >= 64 => ~(block[pos] % 32 < 16) /\ FieldInt(block, pos).value \in DOMAIN StaticName

FieldRead(block, pos) ==
  IF block[pos] >= 128 THEN StaticLine[FieldInt(block, pos).value]
  ELSE IF block[pos] >= 64 THEN <<StaticName[FieldInt(block, pos).value], FieldText(block, pos)>>
  ELSE <<SubSeq(block, pos + FieldInt(block, pos).n, NameEnd(block, pos) - 1), FieldText(block, pos)>>

NextField(block, pos) ==
  IF block[pos] >= 128 THEN pos + FieldInt(block, pos).n
  ELSE TextStart(block, pos) + TextLength(block, pos).value

\* A malformed line ends the list: nothing is read behind it.
FieldAdds(block, pos) == IF WellFormed(block, pos) THEN <<FieldRead(block, pos)>> ELSE Malformed
FieldLeads(block, pos) == IF WellFormed(block, pos) THEN NextField(block, pos) ELSE Len(block) + 1

FieldsFrom(f, block) ==
  Chained(f, Len(block), [p \in 1 .. Len(block) + 1 |-> p <= Len(block)],
          [p \in 1 .. Len(block) + 1 |-> FieldAdds(block, p)],
          [p \in 1 .. Len(block) + 1 |-> FieldLeads(block, p)])

\* What can be read in a block.
FieldsOf(block) == {FieldRead(block, p) : p \in 1 .. Len(block)} \cup {<<"malformed", "malformed">>}

\* The index no line of the static table has.
LEMMA NoLineZero == 0 \notin DOMAIN StaticLine
BY DEF StaticLine, PATH_ROOT, SCHEME_HTTPS

\* An int that is not there counts as zero.
LEMMA IntOfNothing ==
  ASSUME NEW bits \in {3, 4, 6, 7}, NEW data \in Bytes, NEW pos \in Nat \ {0},
         ReadQpackInt(data, pos, bits).n = 0
  PROVE  ReadQpackInt(data, pos, bits).value = 0
<1>. DEFINE most == 2 ^ bits - 1
            first == data[pos] % 2 ^ bits
            last == UpTo(data, pos + 1, 0 .. 127)
            r == ReadQpackInt(data, pos, bits)
<1>1. r = IF pos > Len(data) THEN TooFew
          ELSE IF first # most THEN [n |-> 1, value |-> first]
          ELSE IF last > Len(data) THEN TooFew
          ELSE [n |-> last - pos + 1, value |-> most + ContinuationValue(data, pos + 1, last)]
  BY DEF ReadQpackInt
<1>2. pos > Len(data) \/ last \in pos + 1 .. Len(data) + 1
  <2>1. Len(data) \in Nat
    BY DEF Bytes
  <2>2. ASSUME ~(pos > Len(data)) PROVE last \in pos + 1 .. Len(data) + 1
    <3>1. pos + 1 \in 1 .. Len(data) + 1
      BY <2>1, <2>2
    <3>. QED
      BY <3>1, UpToPlace
  <2>. QED
    BY <2>2
<1>3. r.n = 0
  OBVIOUS
<1>. HIDE DEF r, most, first, last
<1>4. pos > Len(data) \/ last - pos + 1 # 0
  BY <1>2
<1>5. r = TooFew
  BY <1>1, <1>3, <1>4
<1>. QED
  BY <1>5 DEF TooFew, r

\* A well formed line leads further on.
LEMMA FieldGoesOn ==
  ASSUME NEW block \in Bytes, NEW pos \in 1 .. Len(block), WellFormed(block, pos)
  PROVE  NextField(block, pos) \in pos + 1 .. Len(block) + 1
<1>. DEFINE int == FieldInt(block, pos)
            len == TextLength(block, pos)
<1>0. Len(block) \in Nat /\ pos \in Nat \ {0}
  BY DEF Bytes
<1>1. int.n \in Nat /\ int.value \in Nat /\ (int.n # 0 => pos + int.n - 1 <= Len(block))
  <2>. DEFINE bits == FieldBits(block, pos)
  <2>1. bits \in {3, 4, 6, 7}
    BY DEF FieldBits
  <2>. HIDE DEF bits
  <2>2. LET r == ReadQpackInt(block, pos, bits) IN
        r.n \in Nat /\ r.value \in Nat /\ (r.n # 0 => pos + r.n - 1 <= Len(block))
    BY <1>0, <2>1, QpackIntRead
  <2>. QED
    BY <2>2 DEF FieldInt, bits
<1>2. CASE block[pos] >= 128
  <2>1. int.value \in DOMAIN StaticLine /\ NextField(block, pos) = pos + int.n
    BY <1>2 DEF WellFormed, NextField
  <2>2. int.n # 0
    <3>1. int.n = 0 => int.value = 0
      <4>. DEFINE bits == FieldBits(block, pos)
      <4>1. bits \in {3, 4, 6, 7}
        BY DEF FieldBits
      <4>. HIDE DEF bits
      <4>2. ReadQpackInt(block, pos, bits).n = 0 => ReadQpackInt(block, pos, bits).value = 0
        BY <1>0, <4>1, IntOfNothing
      <4>. QED
        BY <4>2 DEF FieldInt, bits
    <3>. QED
      BY <2>1, <3>1, NoLineZero
  <2>. QED
    BY <1>0, <1>1, <2>1, <2>2
<1>3. CASE ~(block[pos] >= 128)
  <2>1. /\ ~(TextStart(block, pos) + len.value - 1 > Len(block)) /\ len.n # 0
        /\ NextField(block, pos) = TextStart(block, pos) + len.value
    BY <1>3 DEF WellFormed, NextField
  <2>2. NameEnd(block, pos) \in Nat \ {0} /\ NameEnd(block, pos) >= pos
    <3>1. NameEnd(block, pos) = pos + int.n + int.value \/ NameEnd(block, pos) = pos + int.n + 0
      BY Zenon DEF NameEnd
    <3>. HIDE DEF int
    <3>. QED
      BY <1>0, <1>1, <3>1
  <2>3. len.n \in Nat /\ len.value \in Nat
    BY <2>2, QpackIntRead DEF TextLength
  <2>4. TextStart(block, pos) = NameEnd(block, pos) + len.n
    BY DEF TextStart
  <2>. HIDE DEF len
  <2>. QED
    BY <1>0, <2>1, <2>2, <2>3, <2>4
<1>. QED
  BY <1>2, <1>3

\* The lines of any block are a chain.
LEMMA FieldsLead ==
  ASSUME NEW block \in Bytes, NEW S, FieldsOf(block) \subseteq S
  PROVE  Leads(S, Len(block), [p \in 1 .. Len(block) + 1 |-> p <= Len(block)],
               [p \in 1 .. Len(block) + 1 |-> FieldAdds(block, p)],
               [p \in 1 .. Len(block) + 1 |-> FieldLeads(block, p)])
<1>. DEFINE n == Len(block)
<1>1. n \in Nat
  BY DEF Bytes
<1>2. ASSUME NEW p \in 1 .. n PROVE FieldAdds(block, p) \in Seq(S) /\ FieldLeads(block, p) \in p + 1 .. n + 1
  <2>1. CASE WellFormed(block, p)
    <3>1. FieldAdds(block, p) = <<FieldRead(block, p)>> /\ FieldLeads(block, p) = NextField(block, p)
      BY <2>1 DEF FieldAdds, FieldLeads
    <3>2. FieldRead(block, p) \in S
      BY DEF FieldsOf
    <3>3. NextField(block, p) \in p + 1 .. n + 1
      BY <2>1, FieldGoesOn
    <3>. QED
      BY <3>1, <3>2, <3>3
  <2>2. CASE ~WellFormed(block, p)
    <3>1. FieldAdds(block, p) = Malformed /\ FieldLeads(block, p) = n + 1
      BY <2>2 DEF FieldAdds, FieldLeads
    <3>2. <<"malformed", "malformed">> \in S
      BY DEF FieldsOf
    <3>. QED
      BY <1>1, <3>1, <3>2 DEF Malformed
  <2>. QED
    BY <2>1, <2>2
<1>. HIDE DEF n
<1>3. \A p \in 1 .. n + 1 : p <= n => p \in 1 .. n
  BY <1>1
<1>. QED
  BY <1>1, <1>2, <1>3 DEF Leads, n

\* Served reads that chain from the third byte on.
LEMMA ServedIs ==
  ASSUME NEW block \in Bytes
  PROVE  \E f : FieldsFrom(f, block) /\ Served(block) = IF Len(block) < 2 THEN Malformed ELSE f[3]
<1>. DEFINE line[pos \in 1 .. Len(block) + 1] ==
              IF pos > Len(block) THEN <<>>
              ELSE LET b == block[pos]
                       bits == IF b >= 128 THEN 6 ELSE IF b >= 64 THEN 4 ELSE 3
                       int == ReadQpackInt(block, pos, bits)
                       nameEnd == pos + int.n + (IF b < 64 THEN int.value ELSE 0)
                       len == ReadQpackInt(block, nameEnd, 7)
                       first == nameEnd + len.n
                       text == SubSeq(block, first, first + len.value - 1)
                   IN IF b >= 128
                      THEN IF b % 128 < 64 \/ int.value \notin DOMAIN StaticLine THEN Malformed
                           ELSE <<StaticLine[int.value]>> \o line[pos + int.n]
                      ELSE IF first + len.value - 1 > Len(block) \/ len.n = 0 THEN Malformed
                      ELSE IF b >= 64
                      THEN IF b % 32 < 16 \/ int.value \notin DOMAIN StaticName THEN Malformed
                           ELSE << <<StaticName[int.value], text>> >> \o line[first + len.value]
                      ELSE << <<SubSeq(block, pos + int.n, nameEnd - 1), text>> >> \o line[first + len.value]
            turn(h, pos) ==
              IF pos > Len(block) THEN <<>>
              ELSE LET b == block[pos]
                       bits == IF b >= 128 THEN 6 ELSE IF b >= 64 THEN 4 ELSE 3
                       int == ReadQpackInt(block, pos, bits)
                       nameEnd == pos + int.n + (IF b < 64 THEN int.value ELSE 0)
                       len == ReadQpackInt(block, nameEnd, 7)
                       first == nameEnd + len.n
                       text == SubSeq(block, first, first + len.value - 1)
                   IN IF b >= 128
                      THEN IF b % 128 < 64 \/ int.value \notin DOMAIN StaticLine THEN Malformed
                           ELSE <<StaticLine[int.value]>> \o h[pos + int.n]
                      ELSE IF first + len.value - 1 > Len(block) \/ len.n = 0 THEN Malformed
                      ELSE IF b >= 64
                      THEN IF b % 32 < 16 \/ int.value \notin DOMAIN StaticName THEN Malformed
                           ELSE << <<StaticName[int.value], text>> >> \o h[first + len.value]
                      ELSE << <<SubSeq(block, pos + int.n, nameEnd - 1), text>> >> \o h[first + len.value]
            next(h, pos) == IF pos <= Len(block)
                            THEN FieldAdds(block, pos) \o h[FieldLeads(block, pos)] ELSE <<>>
<1>1. Served(block) = IF Len(block) < 2 THEN Malformed ELSE line[3]
  BY DEF Served
<1>2. line = CHOOSE h : h = [pos \in 1 .. Len(block) + 1 |-> turn(h, pos)]
  OBVIOUS
<1>. HIDE DEF line
<1>3. Len(block) \in Nat /\ Malformed \o <<>> = Malformed
  BY SMTT(30) DEF Bytes, Malformed
<1>4. ASSUME NEW h, h[Len(block) + 1] = <<>>, NEW pos \in 1 .. Len(block) + 1
      PROVE  turn(h, pos) = next(h, pos)
  <2>1. CASE pos > Len(block)
    BY <1>3, <2>1
  <2>2. CASE ~(pos > Len(block))
    <3>0. pos <= Len(block)
      BY <1>3, <2>2
    <3>1. turn(h, pos) =
            IF block[pos] >= 128
            THEN IF block[pos] % 128 < 64 \/ FieldInt(block, pos).value \notin DOMAIN StaticLine THEN Malformed
                 ELSE <<StaticLine[FieldInt(block, pos).value]>> \o h[pos + FieldInt(block, pos).n]
            ELSE IF TextStart(block, pos) + TextLength(block, pos).value - 1 > Len(block)
                    \/ TextLength(block, pos).n = 0 THEN Malformed
            ELSE IF block[pos] >= 64
            THEN IF block[pos] % 32 < 16 \/ FieldInt(block, pos).value \notin DOMAIN StaticName THEN Malformed
                 ELSE << <<StaticName[FieldInt(block, pos).value], FieldText(block, pos)>> >>
                        \o h[TextStart(block, pos) + TextLength(block, pos).value]
            ELSE << <<SubSeq(block, pos + FieldInt(block, pos).n, NameEnd(block, pos) - 1),
                      FieldText(block, pos)>> >>
                   \o h[TextStart(block, pos) + TextLength(block, pos).value]
      BY <2>2, Zenon DEF FieldBits, FieldInt, NameEnd, TextLength, TextStart, FieldText
    <3>. HIDE DEF turn
    <3>2. CASE WellFormed(block, pos)
      <4>1. next(h, pos) = <<FieldRead(block, pos)>> \o h[NextField(block, pos)]
        BY <3>0, <3>2, Zenon DEF FieldAdds, FieldLeads
      <4>. HIDE DEF next
      <4>2. CASE block[pos] >= 128
        <5>1. ~(block[pos] % 128 < 64 \/ FieldInt(block, pos).value \notin DOMAIN StaticLine)
          BY <3>2, <4>2, Zenon DEF WellFormed
        <5>. QED
          BY <3>1, <4>1, <4>2, <5>1, Zenon DEF FieldRead, NextField
      <4>3. CASE ~(block[pos] >= 128)
        <5>1. ~(TextStart(block, pos) + TextLength(block, pos).value - 1 > Len(block)
                \/ TextLength(block, pos).n = 0)
          BY <3>2, <4>3, Zenon DEF WellFormed
        <5>2. block[pos] >= 64
                => ~(block[pos] % 32 < 16 \/ FieldInt(block, pos).value \notin DOMAIN StaticName)
          BY <3>2, <4>3, Zenon DEF WellFormed
        <5>3. CASE block[pos] >= 64
          BY <3>1, <4>1, <4>3, <5>1, <5>2, <5>3, Zenon DEF FieldRead, NextField
        <5>4. CASE ~(block[pos] >= 64)
          BY <3>1, <4>1, <4>3, <5>1, <5>4, Zenon DEF FieldRead, NextField
        <5>. QED
          BY <5>3, <5>4
      <4>. QED
        BY <4>2, <4>3
    <3>3. CASE ~WellFormed(block, pos)
      <4>1. next(h, pos) = Malformed
        <5>1. next(h, pos) = Malformed \o h[Len(block) + 1]
          BY <3>0, <3>3, Zenon DEF FieldAdds, FieldLeads
        <5>. QED
          BY <1>3, <1>4, <5>1
      <4>. HIDE DEF next
      <4>2. CASE block[pos] >= 128
        <5>1. block[pos] % 128 < 64 \/ FieldInt(block, pos).value \notin DOMAIN StaticLine
          BY <3>3, <4>2, Zenon DEF WellFormed
        <5>. QED
          BY <3>1, <4>1, <4>2, <5>1, Zenon
      <4>3. CASE ~(block[pos] >= 128)
        <5>1. \/ TextStart(block, pos) + TextLength(block, pos).value - 1 > Len(block)
              \/ TextLength(block, pos).n = 0
              \/ /\ block[pos] >= 64
                 /\ block[pos] % 32 < 16 \/ FieldInt(block, pos).value \notin DOMAIN StaticName
          BY <3>3, <4>3, Zenon DEF WellFormed
        <5>. QED
          BY <3>1, <4>1, <4>3, <5>1, Zenon
      <4>. QED
        BY <4>2, <4>3
    <3>. QED
      BY <3>2, <3>3
  <2>. QED
    BY <2>1, <2>2
<1>5. \A h : turn(h, Len(block) + 1) = <<>>
  BY <1>3
<1>. HIDE DEF turn
<1>6. PICK f : FieldsFrom(f, block)
  BY FieldsLead, ChainExists DEF FieldsFrom
<1>7. Len(block) + 1 \in 1 .. Len(block) + 1 /\ ~(Len(block) + 1 <= Len(block))
  BY <1>3
<1>8. \A h : FieldsFrom(h, block) <=> h = [pos \in 1 .. Len(block) + 1 |-> next(h, pos)]
  BY DEF FieldsFrom, Chained
<1>9. f = [pos \in 1 .. Len(block) + 1 |-> next(f, pos)] /\ f[Len(block) + 1] = <<>>
  BY <1>6, <1>7, <1>8
<1>. HIDE DEF next
<1>10. f = [pos \in 1 .. Len(block) + 1 |-> turn(f, pos)]
  BY <1>4, <1>9
<1>11. line = [pos \in 1 .. Len(block) + 1 |-> turn(line, pos)]
  BY <1>2, <1>10
<1>12. line[Len(block) + 1] = <<>>
  BY <1>5, <1>7, <1>11
<1>13. line = [pos \in 1 .. Len(block) + 1 |-> next(line, pos)]
  BY <1>4, <1>11, <1>12
<1>14. FieldsFrom(line, block)
  BY <1>8, <1>13
<1>. QED
  BY <1>1, <1>14

\* The bytes are read as a field, wherever they lie.
ReadsAs(bytes, field) ==
  /\ bytes \in Bytes /\ bytes # <<>>
  /\ \A data \in Bytes, pos \in Nat \ {0} : LiesAt(bytes, data, pos) =>
       /\ pos <= Len(data) /\ WellFormed(data, pos) /\ FieldRead(data, pos) = field
       /\ NextField(data, pos) = pos + Len(bytes)

\* What lies at a place begins inside the text.
LEMMA LiesInside ==
  ASSUME NEW bytes \in Bytes, bytes # <<>>, NEW data \in Bytes, NEW pos \in Nat \ {0}, LiesAt(bytes, data, pos)
  PROVE  pos <= Len(data)
<1>1. Len(bytes) \in Nat \ {0} /\ Len(data) \in Nat
  BY DEF Bytes
<1>2. pos + Len(bytes) - 1 <= Len(data)
  BY DEF LiesAt
<1>. QED
  BY <1>1, <1>2

\* A line of the static table.
LEMMA IndexedReads ==
  ASSUME NEW idx \in DOMAIN StaticLine
  PROVE  ReadsAs(WriteQpackIndexed(idx), StaticLine[idx])
<1>. DEFINE b == WriteQpackIndexed(idx)
<1>1. idx \in 0 .. 62
  BY DEF StaticLine, PATH_ROOT, SCHEME_HTTPS
<1>2. 2 ^ 6 - 1 = 63
  OBVIOUS
<1>3. b = WriteQpackInt(6, 192, idx) /\ 192 \in FixedBits(6) /\ idx \in Nat
  <2>1. idx \in Nat /\ idx < 2 ^ 6 - 1
    BY <1>1, <1>2
  <2>. QED
    BY <2>1, StringPrefix DEF WriteQpackIndexed, WriteQpackInt
<1>. HIDE DEF b
<1>4. b \in Bytes /\ b # <<>>
  BY <1>3, QpackIntType
<1>5. ASSUME NEW data \in Bytes, NEW pos \in Nat \ {0}, LiesAt(b, data, pos)
      PROVE  /\ pos <= Len(data) /\ WellFormed(data, pos) /\ FieldRead(data, pos) = StaticLine[idx]
             /\ NextField(data, pos) = pos + Len(b)
  <2>1. ReadQpackInt(data, pos, 6) = [n |-> Len(b), value |-> idx] /\ data[pos] \in 192 .. 192 + PrefixMost(6)
    BY <1>3, <1>5, QpackIntRoundTrip
  <2>2. data[pos] >= 128 /\ ~(data[pos] % 128 < 64)
    <3>1. \A c \in 192 .. 192 + 63 : c >= 128 /\ ~(c % 128 < 64)
      OBVIOUS
    <3>2. data[pos] \in 192 .. 192 + 63
      BY <2>1, StringPrefix, Zenon
    <3>. QED
      BY <3>1, <3>2, Zenon
  <2>3. FieldInt(data, pos) = [n |-> Len(b), value |-> idx]
    BY <2>1, <2>2 DEF FieldInt, FieldBits
  <2>4. FieldInt(data, pos).n = Len(b) /\ FieldInt(data, pos).value = idx
    BY <2>3
  <2>5. pos <= Len(data)
    BY <1>4, <1>5, LiesInside
  <2>. QED
    BY <2>2, <2>4, <2>5, Zenon DEF WellFormed, FieldRead, NextField
<1>. QED
  BY <1>4, <1>5, Zenon DEF ReadsAs, b

\* A text behind the name of a line.
LEMMA TextReads ==
  ASSUME NEW s \in Bytes, NEW data \in Bytes, NEW pos \in Nat \ {0}, LiesAt(WriteQpackString(s), data, pos)
  PROVE  LET len == ReadQpackInt(data, pos, 7) IN
         /\ len.n \in Nat \ {0} /\ len.value = Len(s)
         /\ pos + len.n + len.value = pos + Len(WriteQpackString(s))
         /\ ~(pos + len.n + len.value - 1 > Len(data))
         /\ SubSeq(data, pos + len.n, pos + len.n + len.value - 1) = s
<1>. DEFINE w == WriteQpackInt(7, 0, Len(s))
            len == ReadQpackInt(data, pos, 7)
<1>0. Len(s) \in Nat /\ Len(data) \in Nat /\ 0 \in FixedBits(7)
  BY StringPrefix DEF Bytes
<1>1. WriteQpackString(s) = w \o s
  BY DEF WriteQpackString
<1>2. w \in Bytes /\ w # <<>>
  BY <1>0, QpackIntType
<1>3. LiesAt(w, data, pos) /\ LiesAt(s, data, pos + Len(w))
  <2>. HIDE DEF w
  <2>. QED
    BY <1>1, <1>2, LiesAtParts
<1>4. len = [n |-> Len(w), value |-> Len(s)]
  BY <1>0, <1>3, QpackIntRoundTrip
<1>. HIDE DEF w, len
<1>5. Len(w) \in Nat \ {0} /\ Len(w \o s) = Len(w) + Len(s)
  BY <1>2 DEF Bytes
<1>6. len.n = Len(w) /\ len.value = Len(s)
  BY <1>4
<1>7. pos + Len(w) \in Nat \ {0} /\ pos + Len(w) + Len(s) = pos + Len(w \o s)
  BY <1>0, <1>5
<1>8. SubSeq(data, pos + Len(w), pos + Len(w) + Len(s) - 1) = s
  BY <1>3, <1>7, LiesAtSub
<1>9. ~(pos + Len(w) + Len(s) - 1 > Len(data))
  <2>1. pos + Len(w) + Len(s) - 1 <= Len(data)
    BY <1>3, Zenon DEF LiesAt
  <2>. QED
    BY <1>0, <1>5, <2>1
<1>. QED
  BY <1>1, <1>5, <1>6, <1>7, <1>8, <1>9, Zenon DEF len

\* A text with its length is bytes, at least one.
LEMMA StringBytesType ==
  ASSUME NEW s \in Bytes
  PROVE  WriteQpackString(s) \in Bytes /\ WriteQpackString(s) # <<>>
<1>. DEFINE w == WriteQpackInt(7, 0, Len(s))
<1>1. Len(s) \in Nat /\ 0 \in FixedBits(7)
  BY StringPrefix DEF Bytes
<1>2. w \in Bytes /\ w # <<>> /\ WriteQpackString(s) = w \o s
  BY <1>1, QpackIntType DEF WriteQpackString
<1>. HIDE DEF w
<1>. QED
  BY <1>2, BytesTogether

\* A line with a name of the static table.
LEMMA NameRefReads ==
  ASSUME NEW idx \in DOMAIN StaticName, NEW s \in Bytes
  PROVE  ReadsAs(WriteQpackLiteralWithNameRef(idx, s), <<StaticName[idx], s>>)
<1>. DEFINE w == WriteQpackInt(4, 80, idx)
            t == WriteQpackString(s)
            b == WriteQpackLiteralWithNameRef(idx, s)
<1>1. b = w \o t
  BY DEF WriteQpackLiteralWithNameRef
<1>2. idx \in Nat /\ 80 \in FixedBits(4)
  BY StringPrefix DEF StaticName, AUTHORITY, PATH_ROOT, SCHEME_HTTPS, USER_AGENT
<1>3. w \in Bytes /\ w # <<>>
  BY <1>2, QpackIntType
<1>4. t \in Bytes
  BY StringBytesType
<1>5. b \in Bytes /\ b # <<>> /\ Len(b) = Len(w) + Len(t) /\ Len(w) \in Nat \ {0} /\ Len(t) \in Nat
  <2>. HIDE DEF w, t, b
  <2>1. Len(w) \in Nat \ {0} /\ Len(t) \in Nat
    BY <1>3, <1>4 DEF Bytes
  <2>. QED
    BY <1>1, <1>3, <1>4, <2>1, BytesTogether
<1>6. ASSUME NEW data \in Bytes, NEW pos \in Nat \ {0}, LiesAt(b, data, pos)
      PROVE  /\ pos <= Len(data) /\ WellFormed(data, pos) /\ FieldRead(data, pos) = <<StaticName[idx], s>>
             /\ NextField(data, pos) = pos + Len(b)
  <2>1. LiesAt(w, data, pos) /\ LiesAt(t, data, pos + Len(w))
    <3>. HIDE DEF w, t, b
    <3>. QED
      BY <1>1, <1>3, <1>4, <1>6, LiesAtParts
  <2>2. ReadQpackInt(data, pos, 4) = [n |-> Len(w), value |-> idx] /\ data[pos] \in 80 .. 80 + PrefixMost(4)
    BY <1>2, <2>1, QpackIntRoundTrip
  <2>. HIDE DEF w, b
  <2>3. ~(data[pos] >= 128) /\ data[pos] >= 64 /\ ~(data[pos] % 32 < 16) /\ ~(data[pos] < 64)
    <3>1. \A c \in 80 .. 80 + 15 : ~(c >= 128) /\ c >= 64 /\ ~(c % 32 < 16) /\ ~(c < 64)
      OBVIOUS
    <3>2. data[pos] \in 80 .. 80 + 15
      BY <2>2, StringPrefix, Zenon
    <3>. QED
      BY <3>1, <3>2, Zenon
  <2>4. FieldInt(data, pos) = [n |-> Len(w), value |-> idx]
    BY <2>2, <2>3, Zenon DEF FieldInt, FieldBits
  <2>5. FieldInt(data, pos).n = Len(w) /\ FieldInt(data, pos).value = idx
    BY <2>4
  <2>. DEFINE q == pos + Len(w)
  <2>6. NameEnd(data, pos) = q /\ q \in Nat \ {0}
    BY <1>5, <2>3, <2>5 DEF NameEnd
  <2>7. LiesAt(WriteQpackString(s), data, q)
    BY <2>1
  <2>. HIDE DEF q
  <2>. DEFINE len == ReadQpackInt(data, q, 7)
  <2>8. /\ len.n \in Nat \ {0} /\ len.value = Len(s)
        /\ q + len.n + len.value = q + Len(t)
        /\ ~(q + len.n + len.value - 1 > Len(data))
        /\ SubSeq(data, q + len.n, q + len.n + len.value - 1) = s
    BY <2>6, <2>7, TextReads
  <2>9. TextLength(data, pos) = len /\ TextStart(data, pos) = q + len.n
    BY <2>6 DEF TextLength, TextStart
  <2>. HIDE DEF len, t
  <2>10. q + Len(t) = pos + Len(b)
    BY <1>5 DEF q
  <2>11. len.n # 0
    BY <2>8
  <2>12. pos <= Len(data)
    BY <1>5, <1>6, LiesInside
  <2>13. FieldText(data, pos) = s
    BY <2>8, <2>9, Zenon DEF FieldText
  <2>14. WellFormed(data, pos)
    BY <2>3, <2>5, <2>8, <2>9, <2>11, Zenon DEF WellFormed
  <2>15. NextField(data, pos) = pos + Len(b)
    BY <2>3, <2>8, <2>9, <2>10, Zenon DEF NextField
  <2>16. FieldRead(data, pos) = <<StaticName[idx], s>>
    BY <2>3, <2>5, <2>13, Zenon DEF FieldRead
  <2>. QED
    BY <2>12, <2>14, <2>15, <2>16
<1>. HIDE DEF w, t
<1>. QED
  BY <1>5, <1>6, Zenon DEF ReadsAs, b

\* A line whose name is spelt out.
LEMMA LiteralReads ==
  ASSUME NEW name \in Bytes, NEW s \in Bytes
  PROVE  ReadsAs(WriteQpackLiteralWithLiteralName(name, s), <<Lower(name), s>>)
<1>. DEFINE w == WriteQpackInt(3, 32, Len(name))
            m == Lower(name)
            t == WriteQpackString(s)
            b == WriteQpackLiteralWithLiteralName(name, s)
<1>1. b = (w \o m) \o t
  BY DEF WriteQpackLiteralWithLiteralName
<1>2. Len(name) \in Nat /\ 32 \in FixedBits(3)
  BY StringPrefix DEF Bytes
<1>3. w \in Bytes /\ w # <<>>
  BY <1>2, QpackIntType
<1>4. t \in Bytes /\ m \in Bytes /\ Len(m) = Len(name)
  BY StringBytesType, LowerType
<1>5. /\ w \o m \in Bytes /\ w \o m # <<>> /\ b \in Bytes /\ b # <<>> /\ Len(w) \in Nat \ {0} /\ Len(t) \in Nat
      /\ Len(w \o m) = Len(w) + Len(m) /\ Len(b) = Len(w \o m) + Len(t)
  <2>. HIDE DEF w, t, m, b
  <2>1. Len(w) \in Nat \ {0} /\ Len(t) \in Nat
    BY <1>3, <1>4 DEF Bytes
  <2>2. w \o m \in Bytes /\ w \o m # <<>> /\ Len(w \o m) = Len(w) + Len(m)
    BY <1>3, <1>4, BytesTogether
  <2>. QED
    BY <1>1, <1>4, <2>1, <2>2, BytesTogether
<1>6. ASSUME NEW data \in Bytes, NEW pos \in Nat \ {0}, LiesAt(b, data, pos)
      PROVE  /\ pos <= Len(data) /\ WellFormed(data, pos) /\ FieldRead(data, pos) = <<m, s>>
             /\ NextField(data, pos) = pos + Len(b)
  <2>1. LiesAt(w, data, pos) /\ LiesAt(m, data, pos + Len(w)) /\ LiesAt(t, data, pos + Len(w \o m))
    <3>. HIDE DEF w, t, m, b
    <3>1. LiesAt(w \o m, data, pos) /\ LiesAt(t, data, pos + Len(w \o m))
      BY <1>1, <1>4, <1>5, <1>6, LiesAtParts
    <3>. QED
      BY <1>3, <1>4, <3>1, LiesAtParts
  <2>2. /\ ReadQpackInt(data, pos, 3) = [n |-> Len(w), value |-> Len(name)]
        /\ data[pos] \in 32 .. 32 + PrefixMost(3)
    BY <1>2, <2>1, QpackIntRoundTrip
  <2>. HIDE DEF w, b, m
  <2>3. ~(data[pos] >= 128) /\ ~(data[pos] >= 64) /\ data[pos] < 64
    <3>1. \A c \in 32 .. 32 + 7 : ~(c >= 128) /\ ~(c >= 64) /\ c < 64
      OBVIOUS
    <3>2. data[pos] \in 32 .. 32 + 7
      BY <2>2, StringPrefix, Zenon
    <3>. QED
      BY <3>1, <3>2, Zenon
  <2>4. FieldInt(data, pos) = [n |-> Len(w), value |-> Len(name)]
    BY <2>2, <2>3, Zenon DEF FieldInt, FieldBits
  <2>5. FieldInt(data, pos).n = Len(w) /\ FieldInt(data, pos).value = Len(name)
    BY <2>4
  <2>. DEFINE q == pos + Len(w \o m)
              p == pos + Len(w)
  <2>6. NameEnd(data, pos) = q /\ q \in Nat \ {0} /\ p \in Nat \ {0} /\ q - 1 = p + Len(m) - 1
    BY <1>2, <1>4, <1>5, <2>3, <2>5 DEF NameEnd
  <2>7. LiesAt(WriteQpackString(s), data, q) /\ LiesAt(m, data, p)
    BY <2>1
  <2>8. SubSeq(data, pos + FieldInt(data, pos).n, NameEnd(data, pos) - 1) = m
    <3>1. pos + FieldInt(data, pos).n = p
      BY <2>5
    <3>. HIDE DEF p, q
    <3>2. SubSeq(data, p, p + Len(m) - 1) = m
      BY <1>4, <2>6, <2>7, LiesAtSub
    <3>. QED
      BY <2>6, <3>1, <3>2, Zenon
  <2>. HIDE DEF q
  <2>. DEFINE len == ReadQpackInt(data, q, 7)
  <2>9. /\ len.n \in Nat \ {0} /\ len.value = Len(s)
        /\ q + len.n + len.value = q + Len(t)
        /\ ~(q + len.n + len.value - 1 > Len(data))
        /\ SubSeq(data, q + len.n, q + len.n + len.value - 1) = s
    BY <2>6, <2>7, TextReads
  <2>10. TextLength(data, pos) = len /\ TextStart(data, pos) = q + len.n
    BY <2>6 DEF TextLength, TextStart
  <2>. HIDE DEF len, t
  <2>11. q + Len(t) = pos + Len(b)
    BY <1>4, <1>5 DEF q, Bytes
  <2>12. len.n # 0
    BY <2>9
  <2>13. pos <= Len(data)
    BY <1>5, <1>6, LiesInside
  <2>14. FieldText(data, pos) = s
    BY <2>9, <2>10, Zenon DEF FieldText
  <2>15. WellFormed(data, pos)
    BY <2>3, <2>9, <2>10, <2>12, Zenon DEF WellFormed
  <2>16. NextField(data, pos) = pos + Len(b)
    BY <2>3, <2>9, <2>10, <2>11, Zenon DEF NextField
  <2>17. FieldRead(data, pos) = <<m, s>>
    BY <2>3, <2>8, <2>14, Zenon DEF FieldRead
  <2>. QED
    BY <2>13, <2>15, <2>16, <2>17
<1>. HIDE DEF w, t
<1>. QED
  BY <1>5, <1>6, Zenon DEF ReadsAs, b

\* A list is what it was with one element less, and its last one.
LEMMA ListGrows ==
  ASSUME NEW S, NEW s \in Seq(S)
  PROVE  /\ SubSeq(s, 1, 0) = <<>> /\ SubSeq(s, 1, Len(s)) = s /\ \A i \in 1 .. Len(s) : s[i] \in S
         /\ \A i \in Nat : i + 1 <= Len(s) => SubSeq(s, 1, i + 1) = SubSeq(s, 1, i) \o <<s[i + 1]>>
OBVIOUS

\* The first elements of a list.
LEMMA FirstOnes ==
  ASSUME NEW S, NEW s \in Seq(S), NEW i \in Nat, i <= Len(s)
  PROVE  SubSeq(s, 1, i) \in Seq(S) /\ Len(SubSeq(s, 1, i)) = i
OBVIOUS

\* The server reads the lines of a block as they were written, each of them and no other.
THEOREM FieldsRoundTrip ==
  ASSUME NEW lines \in Seq(Bytes), NEW S, NEW fields \in Seq(S), Len(fields) = Len(lines),
         \A i \in 1 .. Len(lines) : ReadsAs(lines[i], fields[i])
  PROVE  Served(<<0, 0>> \o FlattenSeq(lines)) = fields
<1>. DEFINE n == Len(lines)
            head == <<0, 0>>
            data == head \o FlattenSeq(lines)
            V == S \cup FieldsOf(data)
<1>1. n \in Nat /\ FlattenSeq(lines) \in Bytes
  BY FlattenType DEF Bytes
<1>2. head \in Bytes /\ Len(head) = 2
  BY DEF Bytes, Byte
<1>. HIDE DEF head
<1>3. data \in Bytes /\ Len(data) = 2 + Len(FlattenSeq(lines)) /\ Len(FlattenSeq(lines)) \in Nat
  <2>. DEFINE t == FlattenSeq(lines)
  <2>1. t \in Bytes
    BY <1>1
  <2>. HIDE DEF t
  <2>2. head \o t \in Bytes /\ Len(head \o t) = Len(head) + Len(t) /\ Len(t) \in Nat
    BY <1>2, <2>1, Joined, Zenon
  <2>. QED
    BY <1>2, <2>2 DEF t
<1>4. PICK f : Parts(f, Byte, lines)
  BY FlattenParts DEF Bytes
<1>5. FlattenSeq(lines) = f[n]
  BY <1>4, FlattenIs DEF Bytes
<1>. HIDE DEF data
<1>6. PICK h : FieldsFrom(h, data) /\ Served(data) = IF Len(data) < 2 THEN Malformed ELSE h[3]
  BY <1>3, ServedIs
<1>7. Served(data) = h[3]
  BY <1>3, <1>6
<1>8. \A p \in 1 .. Len(data) + 1 : h[p] \in Seq(V)
  <2>1. FieldsOf(data) \subseteq V
    OBVIOUS
  <2>. HIDE DEF V
  <2>. QED
    BY <1>3, <1>6, <2>1, FieldsLead, ChainType DEF FieldsFrom
<1>9. \A p \in 1 .. Len(data) + 1 :
        h[p] = IF p <= Len(data) THEN FieldAdds(data, p) \o h[FieldLeads(data, p)] ELSE <<>>
  <2>1. ASSUME NEW p \in 1 .. Len(data) + 1
        PROVE h[p] = IF p <= Len(data) THEN FieldAdds(data, p) \o h[FieldLeads(data, p)] ELSE <<>>
    BY <1>6 DEF FieldsFrom, Chained
  <2>. QED
    BY <2>1
<1>10. /\ fields \in Seq(V) /\ SubSeq(fields, 1, 0) = <<>> /\ SubSeq(fields, 1, n) = fields
       /\ \A i \in Nat : i + 1 <= n => SubSeq(fields, 1, i + 1) = SubSeq(fields, 1, i) \o <<fields[i + 1]>>
       /\ \A i \in 1 .. n : fields[i] \in V
  <2>1. fields \in Seq(V) /\ Len(fields) = n
    OBVIOUS
  <2>. HIDE DEF V, n
  <2>. QED
    BY <2>1, ListGrows
<1>. DEFINE g(i) == SubSeq(fields, 1, i)
            T == {i \in Nat : i <= n => h[3] = g(i) \o h[3 + Len(f[i])]}
<1>. HIDE DEF n, V
<1>11. 0 \in T
  <2>1. f[0] = <<>>
    BY <1>4, Zenon DEF Parts
  <2>2. 3 \in 1 .. Len(data) + 1
    BY <1>3
  <2>3. h[3] \in Seq(V)
    BY <1>8, <2>2
  <2>4. 3 + Len(f[0]) = 3
    BY <2>1
  <2>5. g(0) \o h[3] = h[3]
    BY <1>10, <2>3
  <2>6. h[3] = g(0) \o h[3 + Len(f[0])]
    BY <2>4, <2>5, Zenon
  <2>. QED
    BY <2>6
<1>12. ASSUME NEW i \in Nat, i \in T PROVE i + 1 \in T
  <2>0. i + 1 \in Nat
    OBVIOUS
  <2>. SUFFICES ASSUME i + 1 <= n PROVE h[3] = g(i + 1) \o h[3 + Len(f[i + 1])]
    BY <2>0, Zenon
  <2>. DEFINE l == lines[i + 1]
              e == fields[i + 1]
              p == 3 + Len(f[i])
  <2>1. i + 1 \in 1 .. n /\ (i + 1) - 1 = i /\ i <= n
    BY <1>1
  <2>2. l \in Bytes /\ e \in V /\ ReadsAs(l, e)
    BY <1>10, <2>1 DEF n
  <2>3. h[3] = g(i) \o h[p]
    BY <1>12, <2>1
  <2>. HIDE DEF T
  <2>4. /\ LiesAt(lines[i + 1], data, Len(head) + Len(f[(i + 1) - 1]) + 1)
        /\ Len(f[i + 1]) = Len(f[(i + 1) - 1]) + Len(lines[i + 1]) /\ Len(f[(i + 1) - 1]) \in Nat
        /\ Len(lines[i + 1]) \in Nat
    BY <1>2, <1>4, <2>1, PartLiesAt DEF data, n
  <2>5. /\ LiesAt(l, data, Len(head) + Len(f[i]) + 1)
        /\ Len(f[i + 1]) = Len(f[i]) + Len(l) /\ Len(f[i]) \in Nat /\ Len(l) \in Nat
    BY <2>1, <2>4, Zenon
  <2>. HIDE DEF l, e
  <2>6. Len(head) + Len(f[i]) + 1 = p /\ p \in Nat \ {0} /\ p + Len(l) = 3 + Len(f[i + 1])
    BY <1>2, <2>5
  <2>. HIDE DEF p
  <2>7. p <= Len(data) /\ WellFormed(data, p) /\ FieldRead(data, p) = e /\ NextField(data, p) = p + Len(l)
    <3>1. LiesAt(l, data, p)
      BY <2>5, <2>6
    <3>. QED
      BY <1>3, <2>2, <2>6, <3>1, Zenon DEF ReadsAs
  <2>8. p \in 1 .. Len(data) + 1 /\ 3 + Len(f[i + 1]) \in 1 .. Len(data) + 1
    <3>1. p + Len(l) - 1 <= Len(data)
      BY <2>5, <2>6, Zenon DEF LiesAt
    <3>. QED
      BY <1>3, <2>5, <2>6, <3>1
  <2>9. h[p] = <<e>> \o h[3 + Len(f[i + 1])]
    <3>1. FieldAdds(data, p) = <<e>> /\ FieldLeads(data, p) = 3 + Len(f[i + 1])
      BY <2>6, <2>7 DEF FieldAdds, FieldLeads
    <3>2. h[p] = FieldAdds(data, p) \o h[FieldLeads(data, p)]
      BY <1>9, <2>7, <2>8, Zenon
    <3>. QED
      BY <3>1, <3>2, Zenon
  <2>10. g(i + 1) = g(i) \o <<e>> /\ g(i) \in Seq(V)
    <3>1. g(i + 1) = g(i) \o <<e>>
      BY <1>10 DEF e
    <3>2. Len(fields) \in Nat /\ i <= Len(fields)
      BY <2>1 DEF n
    <3>3. g(i) \in Seq(V)
      <4>1. fields \in Seq(V)
        BY <1>10
      <4>. QED
        BY <3>2, <4>1, FirstOnes
    <3>. QED
      BY <3>1, <3>3
  <2>11. h[3 + Len(f[i + 1])] \in Seq(V)
    BY <1>8, <2>8
  <2>12. g(i) \o (<<e>> \o h[3 + Len(f[i + 1])]) = (g(i) \o <<e>>) \o h[3 + Len(f[i + 1])]
    <3>. HIDE DEF g
    <3>. QED
      <4>1. \A a, c \in Seq(V), b \in V : a \o (<<b>> \o c) = (a \o <<b>>) \o c
        BY ListsRegrouped, SMTT(30)
      <4>. QED
        BY <2>2, <2>10, <2>11, <4>1, Zenon
  <2>. QED
    BY <2>3, <2>9, <2>10, <2>12, Zenon
<1>. HIDE DEF T
<1>13. \A i \in Nat : i \in T
  BY <1>11, <1>12, InductionSet
<1>14. h[3] = g(n) \o h[3 + Len(f[n])]
  <2>1. n \in Nat /\ n <= n
    BY <1>1
  <2>. QED
    BY <1>13, <2>1, Zenon DEF T
<1>15. h[3 + Len(f[n])] = <<>>
  <2>. DEFINE p == 3 + Len(f[n])
  <2>1. p \in 1 .. Len(data) + 1 /\ ~(p <= Len(data))
    BY <1>3, <1>5
  <2>. HIDE DEF p
  <2>2. h[p] = <<>>
    BY <1>9, <2>1, Zenon
  <2>. QED
    BY <2>2 DEF p
<1>16. h[3] = fields
  BY <1>10, <1>14, <1>15
<1>. QED
  BY <1>7, <1>16 DEF data, head

-----------------------------------------------------------------------------
(* How far the encoder comes. *)

\* The bytes of the first lines.
BytesOf(lines, k) == [i \in 1 .. k |-> lines[i].bytes]

\* They are the first of all the bytes.
LEMMA BytesOfFirst ==
  ASSUME NEW lines \in Seq(ReservedLine), NEW F, Parts(F, Byte, BytesOf(lines, Len(lines))),
         NEW k \in 0 .. Len(lines)
  PROVE  BytesOf(lines, k) \in Seq(Bytes) /\ Len(BytesOf(lines, k)) = k /\ FlattenSeq(BytesOf(lines, k)) = F[k]
<1>. DEFINE s == BytesOf(lines, k)
            t == BytesOf(lines, Len(lines))
<1>1. \A i \in 1 .. Len(lines) : lines[i].bytes \in Bytes
  BY DEF ReservedLine
<1>2. s \in Seq(Bytes) /\ Len(s) = k /\ t \in Seq(Bytes) /\ Len(t) = Len(lines)
  BY <1>1 DEF BytesOf
<1>3. \A i \in 1 .. k : s[i] = t[i]
  BY DEF BytesOf
<1>. HIDE DEF s, t
<1>4. Parts(F, Byte, s)
  <2>1. F[0] = <<>> /\ \A i \in 0 .. Len(lines) : F[i] \in Seq(Byte)
    BY <1>2 DEF Parts, t
  <2>2. \A i \in 1 .. Len(lines) : F[i] = F[i - 1] \o t[i]
    BY <1>2 DEF Parts, t
  <2>3. Len(lines) \in Nat /\ k \in Nat /\ k <= Len(lines)
    OBVIOUS
  <2>. HIDE DEF t
  <2>4. \A i \in 0 .. Len(s) : F[i] \in Seq(Byte)
    BY <1>2, <2>1, <2>3
  <2>5. \A i \in 1 .. k : i \in 1 .. Len(lines)
    BY <2>3
  <2>6. \A i \in 1 .. k : F[i] = F[i - 1] \o s[i]
    BY <1>3, <2>2, <2>5, Zenon
  <2>7. \A i \in 1 .. Len(s) : F[i] = F[i - 1] \o s[i]
    BY <1>2, <2>6, Zenon
  <2>. QED
    BY <2>1, <2>4, <2>7, Zenon DEF Parts
<1>5. FlattenSeq(s) = F[Len(s)]
  BY <1>2, <1>4, FlattenIs DEF Bytes
<1>. QED
  BY <1>2, <1>5 DEF s

\* Bytes behind bytes behind bytes.
LEMMA BytesRegrouped == \A a, b, c \in Bytes : (a \o b) \o c = a \o (b \o c)
BY SMTT(30) DEF Bytes

\* The encoder writes the first lines, each of them whole, and stops behind them.
LEMMA EncoderWrites ==
  ASSUME NEW cap \in Nat, ~(cap < 2), NEW lines \in Seq(ReservedLine)
  PROVE  \E k \in 0 .. Len(lines) :
           QpackEncodeRequestHeaders(cap, lines) = <<0, 0>> \o FlattenSeq(BytesOf(lines, k))
<1>. DEFINE n == Len(lines)
            head == <<0, 0>>
            all == BytesOf(lines, n)
<1>1. PICK block : Encodes(block, cap, lines) /\ QpackEncodeRequestHeaders(cap, lines) = block[n].out
  BY EncoderIs
<1>2. n \in Nat /\ all \in Seq(Bytes) /\ Len(all) = n
  <2>1. \A i \in 1 .. n : lines[i].bytes \in Bytes
    BY DEF ReservedLine
  <2>. QED
    BY <2>1 DEF BytesOf
<1>. HIDE DEF all, n
<1>3. PICK F : Parts(F, Byte, all)
  BY <1>2, FlattenParts DEF Bytes
<1>. DEFINE Written(i) == \E k \in 0 .. i : block[i].out = head \o F[k] /\ (~block[i].full => k = i)
            T == {i \in Nat : i <= n => Written(i)}
<1>4. 0 \in T
  <2>1. block[0].out = <<0, 0>>
    BY <1>1 DEF Encodes
  <2>2. F[0] = <<>>
    BY <1>3, Zenon DEF Parts
  <2>3. head \o <<>> = head
    OBVIOUS
  <2>4. block[0].out = head \o F[0] /\ 0 \in 0 .. 0
    BY <2>1, <2>2, <2>3
  <2>. QED
    BY <2>4
<1>5. ASSUME NEW i \in Nat, i \in T PROVE i + 1 \in T
  <2>. SUFFICES ASSUME i + 1 <= n PROVE Written(i + 1)
    OBVIOUS
  <2>0. i + 1 \in 1 .. n /\ (i + 1) - 1 = i /\ i \in 0 .. n /\ i <= n
    BY <1>2
  <2>1. PICK k \in 0 .. i : block[i].out = head \o F[k] /\ (~block[i].full => k = i)
    BY <1>5, <2>0
  <2>2. block[i + 1] = EncodeLine(cap, block[i], lines[i + 1]) /\ block[i] \in Encoding(cap)
    BY <1>1, <2>0 DEF Encodes, n
  <2>3. block[i].out \in Bytes /\ block[i].full \in BOOLEAN /\ block[i] \in [out : Bytes, full : BOOLEAN]
    BY <2>2 DEF Encoding
  <2>. DEFINE stop == block[i].full \/ Len(block[i].out) + QpackZapas(lines[i + 1].dlina) > cap
  <2>4. CASE stop
    <3>1. block[i + 1] = [block[i] EXCEPT !.full = TRUE]
      BY <2>2, <2>4, Zenon DEF EncodeLine
    <3>2. block[i + 1].out = block[i].out /\ block[i + 1].full = TRUE
      BY <2>3, <3>1
    <3>3. k \in 0 .. i + 1
      OBVIOUS
    <3>. QED
      BY <2>1, <3>2, <3>3
  <2>5. CASE ~stop
    <3>1. block[i + 1] = [block[i] EXCEPT !.out = block[i].out \o lines[i + 1].bytes]
      BY <2>2, <2>5, Zenon DEF EncodeLine
    <3>2. block[i + 1].out = block[i].out \o lines[i + 1].bytes /\ k = i
      BY <2>1, <2>3, <2>5, <3>1
    <3>3. F[i + 1] = F[i] \o all[i + 1] /\ F[i] \in Bytes
      BY <1>2, <1>3, <2>0 DEF Parts, Bytes
    <3>4. all[i + 1] = lines[i + 1].bytes /\ all[i + 1] \in Bytes
      BY <1>2, <2>0 DEF all, BytesOf
    <3>5. head \in Bytes
      BY DEF Bytes, Byte
    <3>6. (head \o F[i]) \o all[i + 1] = head \o (F[i] \o all[i + 1])
      BY <3>3, <3>4, <3>5, BytesRegrouped, Zenon
    <3>7. block[i + 1].out = head \o F[i + 1]
      BY <2>1, <3>2, <3>3, <3>4, <3>6, Zenon
    <3>8. i + 1 \in 0 .. i + 1
      OBVIOUS
    <3>. QED
      BY <3>7, <3>8
  <2>. QED
    BY <2>4, <2>5
<1>. HIDE DEF T
<1>6. \A i \in Nat : i \in T
  BY <1>4, <1>5, InductionSet
<1>7. PICK k \in 0 .. n : block[n].out = head \o F[k]
  <2>1. n \in Nat /\ n <= n /\ n \in T
    BY <1>2, <1>6
  <2>2. Written(n)
    BY <2>1, Zenon DEF T
  <2>. QED
    BY <2>2, Zenon
<1>8. FlattenSeq(BytesOf(lines, k)) = F[k]
  BY <1>3, BytesOfFirst DEF all, n
<1>. QED
  BY <1>1, <1>7, <1>8 DEF n

\* R[i] is room for the first i lines, each with the reserve asked for it.
Room(R, lines, cap) ==
  /\ R[0] = 2
  /\ \A i \in 1 .. Len(lines) :
       /\ R[i] \in Nat /\ R[i - 1] \in Nat /\ R[i - 1] + QpackZapas(lines[i].dlina) <= R[i] /\ R[i] <= cap

\* With room for all of them the encoder writes all of them.
LEMMA EncoderWritesAll ==
  ASSUME NEW cap \in Nat, ~(cap < 2), NEW lines \in Seq(ReservedLine), NEW R, Room(R, lines, cap)
  PROVE  QpackEncodeRequestHeaders(cap, lines) = <<0, 0>> \o FlattenSeq(BytesOf(lines, Len(lines)))
<1>. DEFINE n == Len(lines)
            head == <<0, 0>>
            all == BytesOf(lines, n)
<1>1. PICK block : Encodes(block, cap, lines) /\ QpackEncodeRequestHeaders(cap, lines) = block[n].out
  BY EncoderIs
<1>2. n \in Nat /\ all \in Seq(Bytes) /\ Len(all) = n
  <2>1. \A i \in 1 .. n : lines[i].bytes \in Bytes
    BY DEF ReservedLine
  <2>. QED
    BY <2>1 DEF BytesOf
<1>. HIDE DEF all, n
<1>3. PICK F : Parts(F, Byte, all)
  BY <1>2, FlattenParts DEF Bytes
<1>. DEFINE Whole(i) == block[i].out = head \o F[i] /\ block[i].full = FALSE /\ Len(block[i].out) <= R[i]
            T == {i \in Nat : i <= n => Whole(i)}
<1>4. 0 \in T
  <2>1. block[0] = [out |-> <<0, 0>>, full |-> FALSE] /\ R[0] = 2
    BY <1>1, Zenon DEF Encodes, Room
  <2>2. F[0] = <<>>
    BY <1>3, Zenon DEF Parts
  <2>3. head \o <<>> = head /\ Len(head) = 2
    OBVIOUS
  <2>4. block[0].out = head /\ block[0].full = FALSE
    BY <2>1
  <2>. HIDE DEF head
  <2>5. Len(block[0].out) <= R[0]
    BY <2>1, <2>3, <2>4
  <2>6. Whole(0)
    BY <2>2, <2>3, <2>4, <2>5, Zenon
  <2>. QED
    BY <2>6
<1>5. ASSUME NEW i \in Nat, i \in T PROVE i + 1 \in T
  <2>n. i + 1 \in Nat
    OBVIOUS
  <2>. SUFFICES ASSUME i + 1 <= n PROVE Whole(i + 1)
    BY <2>n, Zenon
  <2>0. i + 1 \in 1 .. n /\ (i + 1) - 1 = i /\ i \in 0 .. n /\ i <= n
    BY <1>2
  <2>1. block[i].out = head \o F[i] /\ block[i].full = FALSE /\ Len(block[i].out) <= R[i]
    BY <1>5, <2>0
  <2>2. block[i + 1] = EncodeLine(cap, block[i], lines[i + 1]) /\ block[i] \in Encoding(cap)
    BY <1>1, <2>0 DEF Encodes, n
  <2>3. block[i].out \in Bytes /\ block[i].full \in BOOLEAN /\ block[i] \in [out : Bytes, full : BOOLEAN]
    BY <2>2 DEF Encoding
  <2>. DEFINE z == QpackZapas(lines[i + 1].dlina)
              stop == block[i].full \/ Len(block[i].out) + z > cap
  <2>4. R[i + 1] \in Nat /\ R[i] \in Nat /\ R[i] + z <= R[i + 1] /\ R[i + 1] <= cap
    <3>1. /\ R[i + 1] \in Nat /\ R[(i + 1) - 1] \in Nat /\ R[(i + 1) - 1] + z <= R[i + 1] /\ R[i + 1] <= cap
      BY <2>0, Zenon DEF Room, n
    <3>. QED
      BY <2>0, <3>1, Zenon
  <2>5. lines[i + 1] \in ReservedLine
    BY <2>0 DEF n
  <2>6. /\ lines[i + 1].bytes \in Bytes /\ Len(lines[i + 1].bytes) \in Nat /\ Len(lines[i + 1].bytes) <= z
        /\ z \in Nat /\ Len(block[i].out) \in Nat
    BY <2>3, <2>5, SMTT(30) DEF ReservedLine, QpackZapas, Bytes
  <2>. HIDE DEF z
  <2>7. ~stop
    BY <2>1, <2>4, <2>6, SMTT(30)
  <2>8. block[i + 1] = [block[i] EXCEPT !.out = block[i].out \o lines[i + 1].bytes]
    BY <2>2, <2>7, Zenon DEF EncodeLine, z
  <2>9. block[i + 1].out = block[i].out \o lines[i + 1].bytes /\ block[i + 1].full = FALSE
    BY <2>1, <2>3, <2>8
  <2>10. Len(block[i + 1].out) <= R[i + 1]
    <3>1. Len(block[i].out \o lines[i + 1].bytes) = Len(block[i].out) + Len(lines[i + 1].bytes)
      BY <2>3, <2>6, Joined, Zenon
    <3>2. \A a, b, c, d, e \in Nat : a <= b /\ b + c <= d /\ e <= c => a + e <= d
      OBVIOUS
    <3>3. Len(block[i].out) + Len(lines[i + 1].bytes) <= R[i + 1]
      BY <2>1, <2>4, <2>6, <3>2, Zenon
    <3>. QED
      BY <2>9, <3>1, <3>3, Zenon
  <2>11. F[i + 1] = F[i] \o all[i + 1] /\ F[i] \in Bytes
    BY <1>2, <1>3, <2>0 DEF Parts, Bytes
  <2>12. all[i + 1] = lines[i + 1].bytes /\ all[i + 1] \in Bytes
    BY <1>2, <2>0 DEF all, BytesOf
  <2>13. head \in Bytes
    BY DEF Bytes, Byte
  <2>14. (head \o F[i]) \o all[i + 1] = head \o (F[i] \o all[i + 1])
    BY <2>11, <2>12, <2>13, BytesRegrouped, Zenon
  <2>15. block[i + 1].out = head \o F[i + 1]
    BY <2>1, <2>9, <2>11, <2>12, <2>14, Zenon
  <2>. QED
    BY <2>9, <2>10, <2>15, Zenon
<1>. HIDE DEF T
<1>6. \A i \in Nat : i \in T
  BY <1>4, <1>5, InductionSet
<1>7. block[n].out = head \o F[n]
  <2>1. n \in Nat /\ n <= n /\ n \in T
    BY <1>2, <1>6
  <2>. QED
    BY <2>1, Zenon DEF T
<1>8. FlattenSeq(all) = F[n]
  BY <1>2, <1>3, FlattenIs DEF Bytes
<1>. QED
  BY <1>1, <1>7, <1>8 DEF n, all

-----------------------------------------------------------------------------
(* The headers of the caller, as the encoder reads them. *)

\* The line of a header.
HeaderLine(h) == ((h[1] \o <<Colon, Space>>) \o h[2]) \o <<CR, LF>>

\* A header whose name and text end where the encoder looks for their ends.
Spelt(h) ==
  /\ h[1] \in Bytes /\ h[2] \in Bytes
  /\ h[1] # <<>> /\ h[1][1] \notin {CR, LF} /\ \A k \in 1 .. Len(h[1]) : h[1][k] # Colon
  /\ \A k \in 1 .. Len(h[2]) : h[2][k] # CR

\* The bytes of two texts in a row.
LEMMA JoinedBytes ==
  ASSUME NEW s \in Bytes, NEW t \in Bytes
  PROVE  /\ \A k \in 1 .. Len(s) : (s \o t)[k] = s[k]
         /\ \A k \in 1 .. Len(t) : (s \o t)[Len(s) + k] = t[k]
BY DEF Bytes

\* What stands where in the line of a header.
LEMMA HeaderLineIs ==
  ASSUME NEW h, Spelt(h)
  PROVE  LET n == Len(h[1]) t == Len(h[2]) IN
         /\ n \in Nat \ {0} /\ t \in Nat
         /\ HeaderLine(h) \in Bytes /\ Len(HeaderLine(h)) = n + t + 4
         /\ \A k \in 1 .. n : HeaderLine(h)[k] = h[1][k]
         /\ HeaderLine(h)[n + 1] = Colon /\ HeaderLine(h)[n + 2] = Space
         /\ \A k \in 1 .. t : HeaderLine(h)[n + 2 + k] = h[2][k]
         /\ HeaderLine(h)[n + t + 3] = CR /\ HeaderLine(h)[n + t + 4] = LF
<1>. DEFINE a == h[1]
            b == <<Colon, Space>>
            c == h[2]
            d == <<CR, LF>>
            n == Len(a)
            t == Len(c)
            x == a \o b
            y == x \o c
            l == y \o d
<1>1. a \in Bytes /\ c \in Bytes /\ a # <<>>
  BY DEF Spelt
<1>2. /\ b \in Bytes /\ d \in Bytes /\ Len(b) = 2 /\ Len(d) = 2
      /\ b[1] = Colon /\ b[2] = Space /\ d[1] = CR /\ d[2] = LF
  BY DEF Bytes, Byte, Colon, Space, CR, LF
<1>3. HeaderLine(h) = l
  BY DEF HeaderLine
<1>4. n \in Nat \ {0} /\ t \in Nat
  BY <1>1 DEF Bytes
<1>. HIDE DEF a, b, c, d
<1>5. x \in Bytes /\ Len(x) = n + 2
  BY <1>1, <1>2, Joined
<1>6. (\A k \in 1 .. n : x[k] = a[k]) /\ (\A k \in 1 .. 2 : x[n + k] = b[k])
  <2>1. (\A k \in 1 .. Len(a) : x[k] = a[k]) /\ (\A k \in 1 .. Len(b) : x[Len(a) + k] = b[k])
    BY <1>1, <1>2, JoinedBytes
  <2>. QED
    BY <1>2, <2>1, Zenon
<1>. HIDE DEF x
<1>7. y \in Bytes /\ Len(y) = n + 2 + t
  BY <1>1, <1>5, Joined
<1>8. (\A k \in 1 .. n + 2 : y[k] = x[k]) /\ (\A k \in 1 .. t : y[n + 2 + k] = c[k])
  BY <1>1, <1>5, JoinedBytes
<1>. HIDE DEF y
<1>9. l \in Bytes /\ Len(l) = n + 2 + t + 2
  BY <1>2, <1>7, Joined
<1>10. (\A k \in 1 .. n + 2 + t : l[k] = y[k]) /\ (\A k \in 1 .. 2 : l[n + 2 + t + k] = d[k])
  <2>1. (\A k \in 1 .. Len(y) : l[k] = y[k]) /\ (\A k \in 1 .. Len(d) : l[Len(y) + k] = d[k])
    BY <1>2, <1>7, JoinedBytes
  <2>. QED
    BY <1>2, <1>7, <2>1, Zenon
<1>. HIDE DEF l, n, t
<1>11. \A k \in 1 .. n : l[k] = a[k]
  BY <1>4, <1>6, <1>8, <1>10
<1>12. l[n + 1] = Colon /\ l[n + 2] = Space
  BY <1>2, <1>4, <1>6, <1>8, <1>10
<1>13. \A k \in 1 .. t : l[n + 2 + k] = c[k]
  BY <1>4, <1>8, <1>10
<1>14. l[n + t + 3] = CR /\ l[n + t + 4] = LF
  <2>1. n + 2 + t + 1 = n + t + 3 /\ n + 2 + t + 2 = n + t + 4
    BY <1>4
  <2>2. l[n + 2 + t + 1] = CR /\ l[n + 2 + t + 2] = LF
    BY <1>2, <1>10
  <2>. QED
    BY <2>1, <2>2
<1>15. n + 2 + t + 2 = n + t + 4
  BY <1>4
<1>. QED
  BY <1>3, <1>4, <1>9, <1>11, <1>12, <1>13, <1>14, <1>15 DEF n, t, a, c

\* Where a header's line lies, the encoder finds its name, its text and the next line.
LEMMA PairReads ==
  ASSUME NEW raw \in Bytes, NEW p \in Nat \ {0}, NEW h, Spelt(h), LiesAt(HeaderLine(h), raw, p),
         LET q == p + Len(HeaderLine(h)) IN q <= Len(raw) => raw[q] \in Byte \ {CR, LF}
  PROVE  /\ p <= Len(raw)
         /\ NextPair(raw, p) = [name |-> h[1], text |-> h[2], next |-> p + Len(HeaderLine(h))]
<1>. DEFINE a == h[1]
            b == h[2]
            l == HeaderLine(h)
            n == Len(a)
            t == Len(b)
            q == p + Len(l)
            N == Len(raw)
<1>1. /\ n \in Nat \ {0} /\ t \in Nat /\ Len(l) = n + t + 4
      /\ \A k \in 1 .. n : l[k] = a[k]
      /\ l[n + 1] = Colon /\ l[n + 2] = Space
      /\ \A k \in 1 .. t : l[n + 2 + k] = b[k]
      /\ l[n + t + 3] = CR /\ l[n + t + 4] = LF
  BY HeaderLineIs
<1>2. /\ a \in Bytes /\ b \in Bytes /\ \A k \in 1 .. n : a[k] # Colon
      /\ \A k \in 1 .. t : b[k] # CR
  BY DEF Spelt
<1>4. p + Len(l) - 1 <= N /\ \A k \in 1 .. Len(l) : raw[p + k - 1] = l[k]
  BY DEF LiesAt
<1>5. N \in Nat
  BY DEF Bytes
<1>6. q <= N => raw[q] \in Byte \ {CR, LF}
  OBVIOUS
<1>. HIDE DEF a, b, l, n, t, N
<1>. DEFINE k == p + n
            v == p + n + 2
            e == p + n + 2 + t
<1>7. /\ q = e + 2 /\ q - 1 <= N /\ k \in p .. N + 1 /\ k <= N /\ k + 1 <= N
      /\ v \in 1 .. N + 1 /\ e \in v .. N + 1
      /\ e \in 1 .. N + 1 /\ e <= N /\ q \in e .. N + 1 /\ p \in 1 .. N + 1 /\ e + 1 <= N /\ p <= N
  BY <1>1, <1>4, <1>5
<1>8. \A j \in p .. k - 1 : raw[j] \notin {Colon}
  <2>. SUFFICES ASSUME NEW j \in p .. k - 1 PROVE raw[j] \notin {Colon}
    OBVIOUS
  <2>. DEFINE m == j - p + 1
  <2>1. m \in 1 .. n /\ m \in 1 .. Len(l) /\ p + m - 1 = j
    <3>1. j \in Int /\ p <= j /\ j <= p + n - 1
      BY <1>1
    <3>2. m \in 1 .. n /\ p + m - 1 = j
      BY <1>1, <3>1
    <3>3. \A i \in 1 .. n : i \in 1 .. Len(l)
      BY <1>1
    <3>. QED
      BY <3>2, <3>3
  <2>. HIDE DEF m
  <2>2. raw[p + m - 1] = a[m]
    BY <1>1, <1>4, <2>1, Zenon
  <2>. QED
    BY <1>2, <2>1, <2>2
<1>9. raw[k] = Colon /\ raw[k + 1] = Space /\ raw[e] = CR /\ raw[e + 1] = LF
  <2>1. /\ n + 1 \in 1 .. Len(l) /\ n + 2 \in 1 .. Len(l)
        /\ n + t + 3 \in 1 .. Len(l) /\ n + t + 4 \in 1 .. Len(l)
        /\ p + (n + 1) - 1 = k /\ p + (n + 2) - 1 = k + 1
        /\ p + (n + t + 3) - 1 = e /\ p + (n + t + 4) - 1 = e + 1
    BY <1>1
  <2>2. /\ raw[p + (n + 1) - 1] = Colon /\ raw[p + (n + 2) - 1] = Space
        /\ raw[p + (n + t + 3) - 1] = CR /\ raw[p + (n + t + 4) - 1] = LF
    BY <1>1, <1>4, <2>1, Zenon
  <2>. QED
    BY <2>1, <2>2, Zenon
<1>10. \A m \in 1 .. t : raw[v + m - 1] = b[m]
  <2>. SUFFICES ASSUME NEW m \in 1 .. t PROVE raw[v + m - 1] = b[m]
    OBVIOUS
  <2>1. n + 2 + m \in 1 .. Len(l) /\ p + (n + 2 + m) - 1 = v + m - 1
    BY <1>1, SMTT(30)
  <2>2. raw[p + (n + 2 + m) - 1] = b[m]
    BY <1>1, <1>4, <2>1, Zenon
  <2>. QED
    BY <2>1, <2>2, Zenon
<1>11. \A j \in v .. e - 1 : raw[j] \notin {CR}
  <2>. SUFFICES ASSUME NEW j \in v .. e - 1 PROVE raw[j] \notin {CR}
    OBVIOUS
  <2>. DEFINE m == j - v + 1
  <2>1. m \in 1 .. t /\ v + m - 1 = j
    BY <1>1
  <2>. HIDE DEF m, v
  <2>2. raw[v + m - 1] = b[m]
    BY <1>10, <2>1, Zenon
  <2>. QED
    BY <1>2, <2>1, <2>2
<1>12. UpTo(raw, p, {Colon}) = k
  <2>1. k <= Len(raw) => raw[k] \in {Colon}
    BY <1>9
  <2>2. k \in p .. Len(raw) + 1 /\ p \in 1 .. Len(raw) + 1
    BY <1>7 DEF N
  <2>. HIDE DEF k
  <2>. QED
    BY <1>8, <2>1, <2>2, UpToIs
<1>13. UpTo(raw, v, {CR}) = e
  <2>1. e <= Len(raw) => raw[e] \in {CR}
    BY <1>9
  <2>2. e \in v .. Len(raw) + 1 /\ v \in 1 .. Len(raw) + 1
    BY <1>7 DEF N
  <2>. HIDE DEF e, v
  <2>. QED
    BY <1>11, <2>1, <2>2, UpToIs
<1>14. UpTo(raw, e, Byte \ {CR, LF}) = q
  <2>1. q <= Len(raw) => raw[q] \in Byte \ {CR, LF}
    BY <1>6 DEF N
  <2>2. q \in e .. Len(raw) + 1 /\ e \in 1 .. Len(raw) + 1
    BY <1>7 DEF N
  <2>3. \A j \in e .. q - 1 : raw[j] \notin Byte \ {CR, LF}
    <3>. SUFFICES ASSUME NEW j \in e .. q - 1 PROVE raw[j] \notin Byte \ {CR, LF}
      OBVIOUS
    <3>1. j = e \/ j = e + 1
      BY <1>7
    <3>. HIDE DEF e, q
    <3>2. raw[j] = CR \/ raw[j] = LF
      BY <1>9, <3>1, Zenon
    <3>. QED
      BY <3>2
  <2>. HIDE DEF e, q
  <2>. QED
    BY <2>1, <2>2, <2>3, UpToIs
<1>15. SubSeq(raw, p, k - 1) = a
  <2>1. LiesAt(a, raw, p)
    <3>1. \A m \in 1 .. Len(a) : raw[p + m - 1] = a[m]
      <4>1. \A m \in 1 .. n : m \in 1 .. Len(l)
        BY <1>1
      <4>. QED
        BY <1>1, <1>4, <4>1, Zenon DEF n
    <3>2. p + Len(a) - 1 <= Len(raw) /\ p \in 1 .. Len(raw) + 1
      BY <1>1, <1>5, <1>7 DEF n, N
    <3>. QED
      BY <3>1, <3>2 DEF LiesAt
  <2>. QED
    BY <1>2, <2>1, LiesAtSub DEF n
<1>16. SubSeq(raw, v, e - 1) = b
  <2>1. LiesAt(b, raw, v)
    <3>1. \A m \in 1 .. Len(b) : raw[v + m - 1] = b[m]
      BY <1>10 DEF t
    <3>2. v + Len(b) - 1 <= Len(raw) /\ v \in 1 .. Len(raw) + 1
      BY <1>1, <1>5, <1>7 DEF t, N
    <3>. HIDE DEF v
    <3>. QED
      BY <3>1, <3>2 DEF LiesAt
  <2>2. v \in Nat \ {0} /\ e - 1 = v + Len(b) - 1
    BY <1>1 DEF t
  <2>. HIDE DEF v, e
  <2>3. SubSeq(raw, v, v + Len(b) - 1) = b
    BY <1>2, <2>1, <2>2, LiesAtSub
  <2>. QED
    BY <2>2, <2>3, Zenon
<1>17. NextPair(raw, p) = [name |-> SubSeq(raw, p, k - 1), text |-> SubSeq(raw, v, e - 1), next |-> q]
  <2>. DEFINE kk == UpTo(raw, p, {Colon})
              cc == IF kk <= Len(raw) THEN kk + 1 ELSE kk
              vv == IF cc <= Len(raw) /\ raw[cc] = Space THEN cc + 1 ELSE cc
              ee == UpTo(raw, vv, {CR})
              xx == UpTo(raw, ee, Byte \ {CR, LF})
  <2>1. NextPair(raw, p) = [name |-> SubSeq(raw, p, kk - 1), text |-> SubSeq(raw, vv, ee - 1), next |-> xx]
    BY DEF NextPair
  <2>2. kk = k
    BY <1>12
  <2>3. cc = k + 1
    BY <1>7, <2>2, Zenon DEF N
  <2>4. vv = k + 1 + 1
    BY <1>7, <1>9, <2>3, Zenon DEF N
  <2>5. k + 1 + 1 = v
    BY <1>1
  <2>. HIDE DEF kk, cc, vv, k, v, e, q
  <2>6. vv = v
    BY <2>4, <2>5, Zenon
  <2>7. ee = e
    BY <1>13, <2>6, Zenon
  <2>. HIDE DEF ee
  <2>8. xx = q
    BY <1>14, <2>7, Zenon
  <2>. HIDE DEF xx
  <2>. QED
    BY <2>1, <2>2, <2>6, <2>7, <2>8, Zenon
<1>. HIDE DEF k, v, e
<1>. QED
  BY <1>7, <1>15, <1>16, <1>17, Zenon DEF a, b, q, l, N

\* A list that is read from place to place, one element at each.
LEMMA ListRead ==
  ASSUME NEW P, NEW U \in Seq(P), NEW f, NEW at, \A i \in 0 .. Len(U) : f[at[i]] \in Seq(P),
         \A i \in 1 .. Len(U) : f[at[i - 1]] = <<U[i]>> \o f[at[i]], f[at[Len(U)]] = <<>>
  PROVE  f[at[0]] = U
<1>. DEFINE n == Len(U)
            g(i) == SubSeq(U, 1, i)
            T == {i \in Nat : i <= n => f[at[0]] = g(i) \o f[at[i]]}
<1>1. n \in Nat /\ \A i \in 0 .. n : f[at[i]] \in Seq(P)
  OBVIOUS
<1>2. /\ g(0) = <<>> /\ g(n) = U /\ \A i \in 1 .. n : U[i] \in P
      /\ \A i \in Nat : i + 1 <= n => g(i + 1) = g(i) \o <<U[i + 1]>>
  <2>. HIDE DEF n
  <2>. QED
    BY ListGrows DEF n
<1>3. \A i \in Nat : i <= n => g(i) \in Seq(P)
  BY FirstOnes
<1>4. \A i \in 1 .. n : f[at[i - 1]] = <<U[i]>> \o f[at[i]]
  OBVIOUS
<1>5. f[at[n]] = <<>>
  OBVIOUS
<1>. HIDE DEF n, g
<1>6. 0 \in T
  <2>1. f[at[0]] \in Seq(P)
    BY <1>1
  <2>2. <<>> \o f[at[0]] = f[at[0]]
    BY <2>1
  <2>3. f[at[0]] = g(0) \o f[at[0]]
    BY <1>2, <2>2
  <2>. QED
    BY <2>3
<1>7. ASSUME NEW i \in Nat, i \in T PROVE i + 1 \in T
  <2>n. i + 1 \in Nat
    OBVIOUS
  <2>. SUFFICES ASSUME i + 1 <= n PROVE f[at[0]] = g(i + 1) \o f[at[i + 1]]
    BY <2>n, Zenon
  <2>1. i + 1 \in 1 .. n /\ (i + 1) - 1 = i /\ i <= n /\ i + 1 \in 0 .. n
    BY <1>1
  <2>2. f[at[0]] = g(i) \o f[at[i]]
    BY <1>7, <2>1
  <2>. HIDE DEF T
  <2>3. f[at[i]] = <<U[i + 1]>> \o f[at[i + 1]]
    <3>1. f[at[(i + 1) - 1]] = <<U[i + 1]>> \o f[at[i + 1]]
      BY <1>4, <2>1, Zenon
    <3>. QED
      BY <2>1, <3>1, Zenon
  <2>4. g(i) \in Seq(P) /\ U[i + 1] \in P /\ f[at[i + 1]] \in Seq(P)
    BY <1>1, <1>2, <1>3, <2>1
  <2>5. g(i) \o (<<U[i + 1]>> \o f[at[i + 1]]) = (g(i) \o <<U[i + 1]>>) \o f[at[i + 1]]
    <3>1. \A a, c \in Seq(P), b \in P : a \o (<<b>> \o c) = (a \o <<b>>) \o c
      BY ListsRegrouped
    <3>. QED
      BY <2>4, <3>1, Zenon
  <2>6. g(i + 1) = g(i) \o <<U[i + 1]>>
    BY <1>2, <2>1
  <2>. QED
    BY <2>2, <2>3, <2>5, <2>6, Zenon
<1>. HIDE DEF T
<1>8. \A i \in Nat : i \in T
  BY <1>6, <1>7, InductionSet
<1>9. f[at[0]] = g(n) \o f[at[n]]
  <2>1. n \in Nat /\ n <= n
    BY <1>1
  <2>. QED
    BY <1>8, <2>1, Zenon DEF T
<1>10. U \o <<>> = U
  OBVIOUS
<1>. QED
  BY <1>2, <1>5, <1>9, <1>10, Zenon

\* The lines of headers, one after the other.
HeaderLines(headers) == [i \in 1 .. Len(headers) |-> HeaderLine(headers[i])]

\* They are texts, and the headers text is what they make.
LEMMA HeaderLinesType ==
  ASSUME NEW headers \in Seq(Bytes \X Bytes)
  PROVE  /\ HeaderLines(headers) \in Seq(Bytes) /\ Len(HeaderLines(headers)) = Len(headers)
         /\ RawHeaders(headers) = FlattenSeq(HeaderLines(headers))
<1>. DEFINE n == Len(headers)
            s == HeaderLines(headers)
<1>1. n \in Nat /\ \A i \in 1 .. n : headers[i] \in Bytes \X Bytes
  OBVIOUS
<1>2. \A i \in 1 .. n : headers[i][1] \in Bytes /\ headers[i][2] \in Bytes
  BY <1>1
<1>3. <<Colon, Space>> \in Bytes /\ <<CR, LF>> \in Bytes
  BY DEF Bytes, Byte, Colon, Space, CR, LF
<1>4. \A i \in 1 .. n : HeaderLine(headers[i]) \in Bytes
  BY <1>2, <1>3, Joined, Zenon DEF HeaderLine
<1>5. s = [i \in 1 .. n |-> HeaderLine(headers[i])]
  BY DEF HeaderLines
<1>6. s \in Seq(Bytes) /\ Len(s) = n
  <2>. HIDE DEF s, n
  <2>. QED
    BY <1>1, <1>4, <1>5
<1>7. RawHeaders(headers) = FlattenSeq(s)
  BY Zenon DEF RawHeaders, HeaderLines, HeaderLine
<1>. QED
  BY <1>6, <1>7

\* The encoder finds the headers of the caller, all of them in their order.
LEMMA UserPairsAre ==
  ASSUME NEW headers \in Seq(Bytes \X Bytes), \A i \in 1 .. Len(headers) : Spelt(headers[i])
  PROVE  /\ Len(UserPairs(RawHeaders(headers))) = Len(headers)
         /\ \A i \in 1 .. Len(headers) : /\ UserPairs(RawHeaders(headers))[i].name = headers[i][1]
                                         /\ UserPairs(RawHeaders(headers))[i].text = headers[i][2]
<1>. DEFINE n == Len(headers)
            s == HeaderLines(headers)
            raw == FlattenSeq(s)
<1>1. s \in Seq(Bytes) /\ Len(s) = n /\ RawHeaders(headers) = raw /\ n \in Nat
  BY HeaderLinesType
<1>2. \A i \in 1 .. n : s[i] = HeaderLine(headers[i]) /\ Spelt(headers[i])
  BY DEF HeaderLines
<1>3. raw \in Bytes
  BY <1>1, FlattenType DEF Bytes
<1>4. PICK F : Parts(F, Byte, s)
  BY <1>1, FlattenParts DEF Bytes
<1>5. raw = F[n]
  BY <1>1, <1>4, FlattenIs DEF Bytes
<1>. HIDE DEF s
<1>. DEFINE at == [i \in 0 .. n |-> Len(F[i]) + 1]
<1>6. ASSUME NEW i \in 1 .. n
      PROVE  /\ LiesAt(HeaderLine(headers[i]), raw, Len(F[i - 1]) + 1)
             /\ Len(F[i]) = Len(F[i - 1]) + Len(HeaderLine(headers[i])) /\ Len(F[i - 1]) \in Nat
             /\ Len(HeaderLine(headers[i])) \in Nat
  <2>. DEFINE head == <<>>
  <2>1. head \in Bytes /\ Len(head) = 0
    BY DEF Bytes
  <2>2. head \o raw = raw
    BY <1>3 DEF Bytes
  <2>. HIDE DEF head
  <2>3. i \in 1 .. Len(s)
    BY <1>1
  <2>4. /\ LiesAt(s[i], head \o FlattenSeq(s), Len(head) + Len(F[i - 1]) + 1)
        /\ Len(F[i]) = Len(F[i - 1]) + Len(s[i]) /\ Len(F[i - 1]) \in Nat /\ Len(s[i]) \in Nat
    BY <1>1, <1>4, <2>1, <2>3, PartLiesAt
  <2>5. Len(head) + Len(F[i - 1]) + 1 = Len(F[i - 1]) + 1
    BY <2>1, <2>4
  <2>6. s[i] = HeaderLine(headers[i])
    BY <1>2
  <2>. QED
    BY <2>2, <2>4, <2>5, <2>6, Zenon
<1>. HIDE DEF raw
<1>. DEFINE N == Len(raw)
<1>7. N \in Nat /\ N = Len(F[n])
  BY <1>3, <1>5 DEF Bytes
<1>8. ASSUME NEW i \in 1 .. n
      PROVE  LET q == Len(F[i]) + 1 IN q <= N => raw[q] \in Byte \ {CR, LF}
  <2>. DEFINE q == Len(F[i]) + 1
  <2>. SUFFICES ASSUME q <= N PROVE raw[q] \in Byte \ {CR, LF}
    OBVIOUS
  <2>1. i # n
    BY <1>7
  <2>2. i + 1 \in 1 .. n /\ (i + 1) - 1 = i
    BY <1>1, <2>1
  <2>. DEFINE h == headers[i + 1]
  <2>3. LiesAt(HeaderLine(h), raw, Len(F[(i + 1) - 1]) + 1) /\ Spelt(h)
    BY <1>2, <1>6, <2>2
  <2>. HIDE DEF h
  <2>4. LiesAt(HeaderLine(h), raw, q)
    BY <2>2, <2>3, Zenon
  <2>. HIDE DEF q
  <2>5. /\ Len(h[1]) \in Nat \ {0} /\ Len(h[2]) \in Nat
        /\ Len(HeaderLine(h)) = Len(h[1]) + Len(h[2]) + 4
        /\ \A k \in 1 .. Len(h[1]) : HeaderLine(h)[k] = h[1][k]
    BY <2>3, HeaderLineIs
  <2>6. 1 \in 1 .. Len(h[1]) /\ 1 \in 1 .. Len(HeaderLine(h)) /\ q \in Nat
    <3>1. q \in Nat
      BY <2>4 DEF LiesAt
    <3>2. \A a \in Nat \ {0}, b \in Nat : 1 \in 1 .. a /\ 1 \in 1 .. (a + b + 4)
      OBVIOUS
    <3>. QED
      BY <2>5, <3>1, <3>2, Zenon
  <2>7. raw[q + 1 - 1] = h[1][1]
    BY <2>4, <2>5, <2>6, Zenon DEF LiesAt
  <2>8. q + 1 - 1 = q
    BY <2>6
  <2>9. h[1][1] \in Byte \ {CR, LF}
    BY <2>3, <2>6 DEF Spelt, Bytes
  <2>. QED
    BY <2>7, <2>8, <2>9, Zenon
<1>9. \A i \in 1 .. n :
        /\ at[i - 1] \in 1 .. N /\ at[i] \in 1 .. N + 1
        /\ NextPair(raw, at[i - 1]) = [name |-> headers[i][1], text |-> headers[i][2], next |-> at[i]]
  <2>. SUFFICES ASSUME NEW i \in 1 .. n
                PROVE  /\ at[i - 1] \in 1 .. N /\ at[i] \in 1 .. N + 1
                       /\ NextPair(raw, at[i - 1]) =
                            [name |-> headers[i][1], text |-> headers[i][2], next |-> at[i]]
    OBVIOUS
  <2>. DEFINE p == Len(F[i - 1]) + 1
              h == headers[i]
  <2>1. /\ LiesAt(HeaderLine(h), raw, p) /\ Spelt(h)
        /\ Len(F[i]) + 1 = p + Len(HeaderLine(h)) /\ p \in Nat \ {0} /\ Len(HeaderLine(h)) \in Nat
    <3>1. /\ LiesAt(HeaderLine(h), raw, p) /\ Spelt(h)
          /\ Len(F[i]) = Len(F[i - 1]) + Len(HeaderLine(h)) /\ Len(F[i - 1]) \in Nat
          /\ Len(HeaderLine(h)) \in Nat
      BY <1>2, <1>6, Zenon
    <3>2. \A a, b \in Nat : (a + b) + 1 = (a + 1) + b /\ a + 1 \in Nat \ {0}
      OBVIOUS
    <3>. QED
      BY <3>1, <3>2, Zenon
  <2>2. Len(F[i]) + 1 <= N => raw[Len(F[i]) + 1] \in Byte \ {CR, LF}
    BY <1>8
  <2>3. at[i - 1] = p /\ at[i] = Len(F[i]) + 1
    BY <1>1
  <2>. HIDE DEF p, h, at
  <2>4. LET q == p + Len(HeaderLine(h)) IN q <= Len(raw) => raw[q] \in Byte \ {CR, LF}
    BY <2>1, <2>2, Zenon DEF N
  <2>5. /\ p <= Len(raw)
        /\ NextPair(raw, p) = [name |-> h[1], text |-> h[2], next |-> p + Len(HeaderLine(h))]
    BY <1>3, <2>1, <2>4, PairReads
  <2>6. p + Len(HeaderLine(h)) - 1 <= N
    BY <2>1, Zenon DEF LiesAt, N
  <2>7. p \in 1 .. N /\ p + Len(HeaderLine(h)) \in 1 .. N + 1
    BY <1>7, <2>1, <2>5, <2>6 DEF N
  <2>. QED
    BY <2>1, <2>3, <2>5, <2>7, Zenon DEF h
<1>10. PICK f : PairsFrom(f, raw) /\ UserPairs(raw) = f[1]
  BY <1>3, UserPairsIs
<1>11. at[0] = 1 /\ at[n] = N + 1
  <2>1. F[0] = <<>>
    BY <1>4, Zenon DEF Parts
  <2>2. at[0] = Len(F[0]) + 1 /\ at[n] = Len(F[n]) + 1
    BY <1>1
  <2>. HIDE DEF at
  <2>3. Len(F[0]) = 0
    BY <2>1
  <2>. QED
    BY <1>7, <2>2, <2>3
<1>. DEFINE U == [i \in 1 .. n |-> [name |-> headers[i][1], text |-> headers[i][2], next |-> at[i]]]
            P == PairsOf(raw)
<1>12. \A i \in 0 .. n : at[i] \in 1 .. N + 1
  <2>. SUFFICES ASSUME NEW i \in 0 .. n PROVE at[i] \in 1 .. N + 1
    OBVIOUS
  <2>1. i = 0 \/ i \in 1 .. n
    BY <1>1
  <2>2. 1 \in 1 .. N + 1
    BY <1>7
  <2>. HIDE DEF at
  <2>. QED
    BY <1>9, <1>11, <2>1, <2>2
<1>. HIDE DEF at
<1>13. \A i \in 0 .. n : f[at[i]] \in Seq(P)
  BY <1>10, <1>12, Zenon DEF PairsFrom, N
<1>14. \A i \in 1 .. n : f[at[i - 1]] = <<U[i]>> \o f[at[i]] /\ U[i] \in P
  <2>. SUFFICES ASSUME NEW i \in 1 .. n PROVE f[at[i - 1]] = <<U[i]>> \o f[at[i]] /\ U[i] \in P
    OBVIOUS
  <2>1. /\ at[i - 1] \in 1 .. N /\ at[i] \in 1 .. N + 1
        /\ NextPair(raw, at[i - 1]) = [name |-> headers[i][1], text |-> headers[i][2], next |-> at[i]]
    BY <1>9
  <2>2. U[i] = [name |-> headers[i][1], text |-> headers[i][2], next |-> at[i]]
    OBVIOUS
  <2>. HIDE DEF U
  <2>3. NextPair(raw, at[i - 1]) = U[i] /\ U[i].name = headers[i][1] /\ U[i].next = at[i]
        /\ DOMAIN U[i] = {"name", "text", "next"}
        /\ U[i].text = headers[i][2]
    BY <2>1, <2>2
  <2>4. headers[i][1] # <<>>
    BY <1>2 DEF Spelt
  <2>5. Named(NextPair(raw, at[i - 1])) = <<U[i]>>
    BY <2>3, <2>4, Zenon DEF Named
  <2>6. f[at[i - 1]] = Named(NextPair(raw, at[i - 1])) \o f[NextPair(raw, at[i - 1]).next]
    <3>1. at[i - 1] \in 1 .. N + 1 /\ ~(at[i - 1] > N)
      BY <1>7, <2>1
    <3>. QED
      BY <1>10, <3>1, Zenon DEF PairsFrom, N
  <2>7. f[at[i - 1]] = <<U[i]>> \o f[at[i]]
    BY <2>3, <2>5, <2>6, Zenon
  <2>8. U[i] \in P
    <3>1. /\ NextPair(raw, at[i - 1]).name \in Bytes /\ NextPair(raw, at[i - 1]).text \in Bytes
          /\ Len(NextPair(raw, at[i - 1]).name) <= Len(raw) /\ Len(NextPair(raw, at[i - 1]).text) <= Len(raw)
      <4>1. at[i - 1] \in 1 .. Len(raw)
        BY <2>1 DEF N
      <4>. QED
        BY <1>3, <4>1, NextPairType
    <3>2. /\ headers[i][1] \in Bytes /\ headers[i][2] \in Bytes
          /\ Len(headers[i][1]) <= Len(raw) /\ Len(headers[i][2]) <= Len(raw)
      BY <2>3, <3>1, Zenon
    <3>3. at[i] \in Nat
      BY <1>7, <2>1
    <3>. QED
      BY <2>2, <3>2, <3>3 DEF PairsOf, Pair
  <2>. QED
    BY <2>7, <2>8
<1>15. U \in Seq(P) /\ Len(U) = n
  <2>1. U = [i \in 1 .. n |-> U[i]]
    BY Zenon
  <2>2. \A i \in 1 .. n : U[i] \in P
    BY <1>14
  <2>. HIDE DEF U, P
  <2>. QED
    BY <1>1, <2>1, <2>2
<1>16. \A i \in 1 .. n : U[i].name = headers[i][1] /\ U[i].text = headers[i][2]
  OBVIOUS
<1>. HIDE DEF U, P
<1>17. f[at[n]] = <<>>
  <2>1. N + 1 \in 1 .. N + 1 /\ N + 1 > N
    BY <1>7
  <2>2. f[N + 1] = <<>>
    BY <1>10, <2>1, Zenon DEF PairsFrom, N
  <2>. QED
    BY <1>11, <2>2
<1>18. f[at[0]] = U
  <2>1. \A i \in 1 .. n : f[at[i - 1]] = <<U[i]>> \o f[at[i]]
    BY <1>14
  <2>. QED
    <3>1. \A i \in 0 .. Len(U) : f[at[i]] \in Seq(P)
      BY <1>13, <1>15, Zenon
    <3>2. \A i \in 1 .. Len(U) : f[at[i - 1]] = <<U[i]>> \o f[at[i]]
      BY <1>15, <2>1, Zenon
    <3>3. f[at[Len(U)]] = <<>>
      BY <1>15, <1>17, Zenon
    <3>. QED
      BY <1>15, <3>1, <3>2, <3>3, ListRead
<1>19. UserPairs(raw) = U
  BY <1>10, <1>11, <1>18
<1>. QED
  BY <1>1, <1>15, <1>16, <1>19

-----------------------------------------------------------------------------
(* The URL, taken apart the way it was spelt. *)

\* The leading digits of a text, and the number they make, digit by digit.
Leading(s) == UpTo(s, 1, Byte \ Digits) - 1
AtoiFrom(f, s) ==
  /\ f[0] = 0 /\ \A i \in 0 .. Leading(s) : f[i] \in Nat
  /\ \A i \in 1 .. Leading(s) : f[i] = 10 * f[i - 1] + s[i] - 48

\* The number a text begins with is made in that way.
LEMMA MyAtoiIs ==
  ASSUME NEW s \in Bytes
  PROVE  \E f : AtoiFrom(f, s) /\ MyAtoi(s) = f[Leading(s)] /\ Leading(s) \in Nat
<1>. DEFINE n == Leading(s)
            value[i \in 0 .. n] == IF i = 0 THEN 0 ELSE 10 * value[i - 1] + s[i] - 48
            step == [p \in (1 .. n) \X Nat |-> 10 * p[2] + s[p[1]] - 48]
<1>1. MyAtoi(s) = value[n]
  BY DEF MyAtoi, Leading
<1>2. n \in 0 .. Len(s) /\ \A k \in 1 .. n : s[k] \notin Byte \ Digits
  <2>1. Len(s) \in Nat /\ 1 \in 1 .. Len(s) + 1
    BY DEF Bytes
  <2>. DEFINE u == UpTo(s, 1, Byte \ Digits)
  <2>2. u \in 1 .. Len(s) + 1 /\ \A k \in 1 .. u - 1 : s[k] \notin Byte \ Digits
    BY <2>1, UpToPlace
  <2>. HIDE DEF u
  <2>3. u - 1 \in 0 .. Len(s) /\ n = u - 1
    BY <2>1, <2>2 DEF u, Leading
  <2>. HIDE DEF n
  <2>. QED
    BY <2>2, <2>3, Zenon
<1>. HIDE DEF n
<1>3. n \in Nat /\ \A k \in 1 .. n : s[k] \in 48 .. 57
  <2>1. n \in Nat /\ \A k \in 1 .. n : s[k] \in Byte
    BY <1>2 DEF Bytes
  <2>. QED
    BY <1>2, <2>1 DEF Digits
<1>4. \A i \in 1 .. n, v \in Nat : 10 * v + s[i] - 48 \in Nat
  BY <1>3
<1>5. Grows(Nat, 0, n, step)
  BY <1>3, <1>4 DEF Grows
<1>6. \A i \in 1 .. n, v \in Nat : step[<<i, v>>] = 10 * v + s[i] - 48
  OBVIOUS
<1>. HIDE DEF step
<1>7. PICK f : Grown(f, Nat, 0, n, step)
  BY <1>5, Iteration
<1>8. f = [i \in 0 .. n |-> IF i = 0 THEN 0 ELSE 10 * f[i - 1] + s[i] - 48]
  <2>1. f \in [0 .. n -> Nat] /\ f[0] = 0 /\ \A i \in 1 .. n : f[i] = step[<<i, f[i - 1]>>]
    BY <1>7 DEF Grown
  <2>2. ASSUME NEW i \in 1 .. n PROVE f[i] = 10 * f[i - 1] + s[i] - 48
    <3>1. f[i - 1] \in Nat
      BY <1>3, <2>1
    <3>. QED
      BY <1>6, <2>1, <3>1
  <2>. QED
    BY <1>3, <2>1, <2>2
<1>9. value = [i \in 0 .. n |-> IF i = 0 THEN 0 ELSE 10 * value[i - 1] + s[i] - 48]
  <2>. HIDE DEF value
  <2>1. \E h : h = [i \in 0 .. n |-> IF i = 0 THEN 0 ELSE 10 * h[i - 1] + s[i] - 48]
    BY <1>8
  <2>. QED
    BY <2>1 DEF value
<1>. HIDE DEF value
<1>10. value[0] = 0 /\ \A i \in 1 .. n : value[i] = 10 * value[i - 1] + s[i] - 48
  BY <1>3, <1>9
<1>11. \A i \in 1 .. n : value[i - 1] \in Nat => value[i] = step[<<i, value[i - 1]>>]
  BY <1>6, <1>10
<1>12. \A i \in 0 .. n : value[i] \in Nat
  BY <1>5, <1>10, <1>11, IterationTyped
<1>13. AtoiFrom(value, s)
  BY <1>10, <1>12, Zenon DEF AtoiFrom, n
<1>. QED
  BY <1>1, <1>3, <1>13 DEF n

\* A text of digits.
AllDigits(s) == s \in Bytes /\ \A k \in 1 .. Len(s) : s[k] \in Digits

\* Its digits are all of it.
LEMMA AllLeading ==
  ASSUME NEW s, AllDigits(s)
  PROVE  Leading(s) = Len(s)
<1>1. s \in Bytes /\ Len(s) \in Nat /\ \A k \in 1 .. Len(s) : s[k] \in Digits
  BY DEF AllDigits, Bytes
<1>2. \A k \in 1 .. (Len(s) + 1) - 1 : s[k] \notin Byte \ Digits
  BY <1>1
<1>3. Len(s) + 1 \in 1 .. Len(s) + 1 /\ 1 \in 1 .. Len(s) + 1 /\ ~(Len(s) + 1 <= Len(s))
  BY <1>1
<1>. DEFINE e == Len(s) + 1
<1>4. /\ e \in 1 .. Len(s) + 1 /\ (\A k \in 1 .. e - 1 : s[k] \notin Byte \ Digits)
      /\ (e <= Len(s) => s[e] \in Byte \ Digits)
  BY <1>2, <1>3
<1>. HIDE DEF e
<1>5. UpTo(s, 1, Byte \ Digits) = e
  BY <1>1, <1>3, <1>4, UpToIs
<1>. QED
  BY <1>1, <1>5 DEF Leading, e

\* One digit more.
LEMMA AtoiGrows ==
  ASSUME NEW s, AllDigits(s), NEW d \in Digits
  PROVE  AllDigits(s \o <<d>>) /\ MyAtoi(s \o <<d>>) = 10 * MyAtoi(s) + d - 48
<1>. DEFINE n == Len(s)
            t == s \o <<d>>
<1>1. s \in Bytes /\ n \in Nat /\ \A k \in 1 .. n : s[k] \in Digits
  BY DEF AllDigits, Bytes
<1>2. <<d>> \in Bytes /\ Len(<<d>>) = 1
  BY DEF Bytes, Byte, Digits
<1>3. t \in Bytes /\ Len(t) = n + 1 /\ (\A k \in 1 .. n : t[k] = s[k]) /\ t[n + 1] = d
  BY <1>1, <1>2 DEF Bytes
<1>. HIDE DEF t, n
<1>4. AllDigits(t)
  <2>1. \A k \in 1 .. n + 1 : k \in 1 .. n \/ k = n + 1
    BY <1>1
  <2>2. \A k \in 1 .. n + 1 : t[k] \in Digits
    BY <1>1, <1>3, <2>1, Zenon
  <2>. QED
    BY <1>3, <2>2, Zenon DEF AllDigits
<1>5. Leading(s) = n /\ Leading(t) = n + 1
  BY <1>3, <1>4, AllLeading DEF n
<1>6. PICK f : AtoiFrom(f, s) /\ MyAtoi(s) = f[n]
  BY <1>1, <1>5, MyAtoiIs
<1>7. PICK g : AtoiFrom(g, t) /\ MyAtoi(t) = g[n + 1]
  BY <1>3, <1>5, MyAtoiIs
<1>. DEFINE T == {i \in Nat : i <= n => f[i] = g[i]}
<1>8. 0 \in T
  BY <1>6, <1>7 DEF AtoiFrom
<1>9. ASSUME NEW i \in Nat, i \in T PROVE i + 1 \in T
  <2>. SUFFICES ASSUME i + 1 <= n PROVE f[i + 1] = g[i + 1]
    OBVIOUS
  <2>1. i + 1 \in 1 .. n /\ i + 1 \in 1 .. n + 1 /\ (i + 1) - 1 = i /\ i <= n
    BY <1>1
  <2>2. f[i] = g[i]
    BY <1>9, <2>1
  <2>. HIDE DEF T
  <2>3. f[i + 1] = 10 * f[(i + 1) - 1] + s[i + 1] - 48
    BY <1>5, <1>6, <2>1, Zenon DEF AtoiFrom
  <2>4. g[i + 1] = 10 * g[(i + 1) - 1] + t[i + 1] - 48
    BY <1>5, <1>7, <2>1, Zenon DEF AtoiFrom
  <2>5. t[i + 1] = s[i + 1]
    BY <1>3, <2>1
  <2>. QED
    BY <2>1, <2>2, <2>3, <2>4, <2>5, Zenon
<1>. HIDE DEF T
<1>10. \A i \in Nat : i \in T
  BY <1>8, <1>9, InductionSet
<1>11. f[n] = g[n]
  <2>1. n \in T /\ n <= n
    BY <1>1, <1>10
  <2>. QED
    BY <2>1, Zenon DEF T
<1>12. g[n + 1] = 10 * g[(n + 1) - 1] + t[n + 1] - 48 /\ (n + 1) - 1 = n
  <2>1. n + 1 \in 1 .. n + 1 /\ (n + 1) - 1 = n
    BY <1>1
  <2>. QED
    BY <1>5, <1>7, <2>1, Zenon DEF AtoiFrom
<1>13. MyAtoi(t) = 10 * MyAtoi(s) + d - 48
  BY <1>3, <1>6, <1>7, <1>11, <1>12, Zenon
<1>. QED
  BY <1>4, <1>13 DEF t

\* No digit makes zero.
LEMMA AtoiOfNothing == AllDigits(<<>>) /\ MyAtoi(<<>>) = 0
<1>1. AllDigits(<<>>) /\ <<>> \in Bytes /\ Len(<<>>) = 0
  BY DEF AllDigits, Bytes
<1>2. Leading(<<>>) = 0
  BY <1>1, AllLeading
<1>3. PICK f : AtoiFrom(f, <<>>) /\ MyAtoi(<<>>) = f[0]
  BY <1>1, <1>2, MyAtoiIs
<1>. QED
  BY <1>1, <1>3 DEF AtoiFrom

\* A number is read from the text it was written as.
LEMMA AtoiOfText ==
  ASSUME NEW v \in Nat
  PROVE  AllDigits(MyIntToStr(v)) /\ MyIntToStr(v) # <<>> /\ MyAtoi(MyIntToStr(v)) = v
<1>. DEFINE Good(w) == AllDigits(MyIntToStr(w)) /\ MyIntToStr(w) # <<>> /\ MyAtoi(MyIntToStr(w)) = w
            T == {w \in Nat : Good(w)}
<1>1. ASSUME NEW w \in Nat, \A m \in Nat : m < w => m \in T PROVE w \in T
  <2>. SUFFICES Good(w)
    OBVIOUS
  <2>1. CASE w < 10
    <3>1. MyIntToStr(w) = <<48 + w>>
      BY <2>1, MyIntToStrStep
    <3>2. 48 + w \in Digits /\ 10 * 0 + (48 + w) - 48 = w
      BY <2>1 DEF Digits
    <3>. DEFINE d == 48 + w
    <3>. HIDE DEF d
    <3>3. AllDigits(<<>> \o <<d>>) /\ MyAtoi(<<>> \o <<d>>) = 10 * MyAtoi(<<>>) + d - 48
      BY <3>2, AtoiOfNothing, AtoiGrows DEF d
    <3>4. <<>> \o <<d>> = <<d>> /\ <<d>> # <<>>
      OBVIOUS
    <3>. QED
      BY <3>1, <3>2, <3>3, <3>4, AtoiOfNothing, Zenon DEF d
  <2>2. CASE ~(w < 10)
    <3>0. w >= 10
      BY <2>2
    <3>. DEFINE q == w \div 10
                d == 48 + (w % 10)
                s == MyIntToStr(q)
    <3>1. MyIntToStr(w) = s \o <<d>>
      BY <3>0, MyIntToStrStep
    <3>2. q \in Nat /\ q < w /\ d \in Digits /\ 10 * q + d - 48 = w
      <4>1. q \in Nat /\ q < w /\ w = 10 * q + (w % 10) /\ w % 10 \in 0 .. 9
        BY <3>0, DigitsLess
      <4>. HIDE DEF q
      <4>. QED
        BY <4>1 DEF Digits
    <3>. HIDE DEF q, d
    <3>3. Good(q)
      BY <1>1, <3>2
    <3>. HIDE DEF T
    <3>4. AllDigits(s \o <<d>>) /\ MyAtoi(s \o <<d>>) = 10 * MyAtoi(s) + d - 48
      BY <3>2, <3>3, AtoiGrows
    <3>5. s \o <<d>> # <<>>
      <4>1. s \in Bytes
        BY <3>3 DEF AllDigits
      <4>. HIDE DEF s
      <4>. QED
        BY <4>1 DEF Bytes
    <3>. QED
      BY <3>1, <3>2, <3>3, <3>4, <3>5, Zenon
  <2>. QED
    BY <2>1, <2>2
<1>. HIDE DEF T
<1>2. \A w \in Nat : w \in T
  BY <1>1, StrongInduction
<1>. QED
  BY <1>2 DEF T

\* The pieces of a text put together of three.
LEMMA MiddlePiece ==
  ASSUME NEW x \in Bytes, NEW y \in Bytes, NEW z \in Bytes
  PROVE  LET s == (x \o y) \o z IN
         /\ s \in Bytes /\ Len(s) = Len(x) + Len(y) + Len(z)
         /\ \A k \in 1 .. Len(x) : s[k] = x[k]
         /\ \A k \in 1 .. Len(y) : s[Len(x) + k] = y[k]
         /\ \A k \in 1 .. Len(z) : s[Len(x) + Len(y) + k] = z[k]
<1>. DEFINE a == x \o y
            s == a \o z
<1>0. Len(x) \in Nat /\ Len(y) \in Nat /\ Len(z) \in Nat
  BY DEF Bytes
<1>1. a \in Bytes /\ Len(a) = Len(x) + Len(y)
  BY Joined
<1>2. (\A k \in 1 .. Len(x) : a[k] = x[k]) /\ (\A k \in 1 .. Len(y) : a[Len(x) + k] = y[k])
  BY JoinedBytes
<1>. HIDE DEF a
<1>3. s \in Bytes /\ Len(s) = Len(a) + Len(z)
  BY <1>1, Joined
<1>4. (\A k \in 1 .. Len(a) : s[k] = a[k]) /\ (\A k \in 1 .. Len(z) : s[Len(a) + k] = z[k])
  BY <1>1, JoinedBytes
<1>. HIDE DEF s
<1>5. \A k \in 1 .. Len(x) : k \in 1 .. Len(a)
  BY <1>0, <1>1
<1>6. \A k \in 1 .. Len(y) : Len(x) + k \in 1 .. Len(a)
  BY <1>0, <1>1
<1>7. \A k \in 1 .. Len(x) : s[k] = x[k]
  BY <1>2, <1>4, <1>5, Zenon
<1>8. \A k \in 1 .. Len(y) : s[Len(x) + k] = y[k]
  BY <1>2, <1>4, <1>6, Zenon
<1>9. \A k \in 1 .. Len(z) : s[Len(x) + Len(y) + k] = z[k]
  BY <1>1, <1>4, Zenon
<1>10. Len(s) = Len(x) + Len(y) + Len(z)
  BY <1>0, <1>1, <1>3
<1>. QED
  BY <1>3, <1>7, <1>8, <1>9, <1>10 DEF s, a

\* A piece is cut out again where it lies.
LEMMA PieceBack ==
  ASSUME NEW t \in Bytes, NEW data \in Bytes, NEW pos \in Nat \ {0}, pos + Len(t) - 1 <= Len(data),
         \A k \in 1 .. Len(t) : data[pos + k - 1] = t[k]
  PROVE  SubSeq(data, pos, pos + Len(t) - 1) = t
<1>1. pos \in 1 .. Len(data) + 1
  BY DEF Bytes
<1>2. LiesAt(t, data, pos)
  BY <1>1 DEF LiesAt
<1>. QED
  BY <1>2, LiesAtSub

\* The client takes apart the URL the way it was spelt.
LEMMA UrlParsed ==
  ASSUME NEW r \in SpeltRequests, r.url.secure
  PROVE  LET u == ParseUrl(r.url) IN
         /\ u.host = r.host
         /\ u.port = (IF r.port = 0 THEN 443 ELSE r.port)
         /\ u.path = (IF r.path = <<>> THEN <<Slash>> ELSE r.path)
<1>. DEFINE p == r.url.rest
            a == r.host
            b == IF r.port = 0 THEN <<>> ELSE <<Colon>> \o MyIntToStr(r.port)
            c == r.path
            A == Len(a)
            B == Len(b)
            C == Len(c)
            n == Len(p)
            h == UpTo(p, 1, {Slash, Colon})
            ported == h <= Len(p) /\ p[h] = Colon
            e == IF ported THEN UpTo(p, h + 1, Byte \ Digits) ELSE h
            name == SubSeq(p, 1, h - 1)
            digits == SubSeq(p, h + 1, e - 1)
            port == IF ported THEN MyAtoi(digits) ELSE IF r.url.secure THEN 443 ELSE 80
            path == IF e <= Len(p) /\ p[e] = Slash THEN Cut(From(p, e), PathCap) ELSE <<Slash>>
<1>1. ParseUrl(r.url) = [secure |-> r.url.secure, host |-> Cut(name, HostCap), port |-> port, path |-> path]
  BY DEF ParseUrl
<1>2. /\ p = (a \o b) \o c
      /\ A < HostCap /\ (\A i \in 1 .. A : a[i] \notin {Slash, Colon})
      /\ C < PathCap /\ (c # <<>> => c[1] = Slash)
  <2>1. WellSpelt(r)
    BY DEF SpeltRequests
  <2>. QED
    BY <2>1 DEF WellSpelt
<1>3. a \in Bytes /\ c \in Bytes /\ r.port \in Nat
  BY RequestAssumption DEF SpeltRequests, WireRequest
<1>4. <<Colon>> \in Bytes /\ Len(<<Colon>>) = 1 /\ <<Colon>>[1] = Colon /\ <<>> \in Bytes /\ Len(<<>>) = 0
  BY DEF Bytes, Byte, Colon
<1>. DEFINE D == MyIntToStr(r.port)
<1>5. AllDigits(D) /\ D \in Bytes /\ MyAtoi(D) = r.port /\ (\A k \in 1 .. Len(D) : D[k] \in Digits)
  <2>1. AllDigits(D) /\ MyAtoi(D) = r.port
    BY <1>3, AtoiOfText
  <2>. QED
    BY <2>1 DEF AllDigits
<1>. HIDE DEF D
<1>6. /\ b \in Bytes
      /\ r.port # 0 => /\ b = <<Colon>> \o D /\ B = 1 + Len(D) /\ b[1] = Colon
                       /\ \A k \in 1 .. Len(D) : b[1 + k] = D[k]
      /\ r.port = 0 => B = 0
  <2>1. CASE r.port = 0
    <3>1. b = <<>>
      BY <2>1
    <3>. HIDE DEF b
    <3>. QED
      BY <1>4, <2>1, <3>1
  <2>2. CASE r.port # 0
    <3>1. b = <<Colon>> \o D
      BY <2>2, Zenon DEF D
    <3>. HIDE DEF b
    <3>2. <<Colon>> \o D \in Bytes /\ Len(<<Colon>> \o D) = Len(<<Colon>>) + Len(D)
      BY <1>4, <1>5, Joined, Zenon
    <3>. DEFINE col == <<Colon>>
    <3>3. /\ (\A k \in 1 .. Len(col) : (col \o D)[k] = col[k])
          /\ (\A k \in 1 .. Len(D) : (col \o D)[Len(col) + k] = D[k])
      <4>1. col \in Bytes
        BY <1>4
      <4>. HIDE DEF col
      <4>. QED
        BY <1>5, <4>1, JoinedBytes
    <3>4. 1 \in 1 .. Len(col)
      BY <1>4
    <3>. HIDE DEF col
    <3>5. (col \o D)[1] = Colon
      BY <1>4, <3>3, <3>4, Zenon DEF col
    <3>6. \A k \in 1 .. Len(D) : (col \o D)[1 + k] = D[k]
      BY <1>4, <3>3, Zenon DEF col
    <3>7. Len(<<Colon>> \o D) = 1 + Len(D)
      BY <1>4, <3>2, Zenon
    <3>. QED
      BY <2>2, <3>1, <3>2, <3>5, <3>6, <3>7, Zenon DEF col
  <2>. QED
    BY <2>1, <2>2
<1>. HIDE DEF b
<1>7. /\ p \in Bytes /\ n = A + B + C
      /\ (\A k \in 1 .. A : p[k] = a[k])
      /\ (\A k \in 1 .. B : p[A + k] = b[k])
      /\ (\A k \in 1 .. C : p[A + B + k] = c[k])
  <2>. HIDE DEF a, c, p
  <2>. DEFINE s == (a \o b) \o c
  <2>1. /\ s \in Bytes /\ Len(s) = Len(a) + Len(b) + Len(c)
        /\ (\A k \in 1 .. Len(a) : s[k] = a[k])
        /\ (\A k \in 1 .. Len(b) : s[Len(a) + k] = b[k])
        /\ (\A k \in 1 .. Len(c) : s[Len(a) + Len(b) + k] = c[k])
    BY <1>3, <1>6, MiddlePiece, ZenonT(40)
  <2>2. p = s
    BY <1>2
  <2>. HIDE DEF s
  <2>. QED
    BY <2>1, <2>2, Zenon
<1>. HIDE DEF p, a, c
<1>8. A \in Nat /\ B \in Nat /\ C \in Nat /\ n \in Nat /\ Len(D) \in Nat
  BY <1>3, <1>5, <1>6, <1>7 DEF Bytes
<1>9. c # <<>> => C # 0 /\ p[A + B + 1] = Slash
  <2>1. c # <<>> => C # 0
    BY <1>3 DEF Bytes
  <2>. HIDE DEF A, B, C
  <2>. SUFFICES ASSUME c # <<>> PROVE C # 0 /\ p[A + B + 1] = Slash
    OBVIOUS
  <2>2. 1 \in 1 .. C
    BY <1>8, <2>1
  <2>. QED
    BY <1>2, <1>7, <2>1, <2>2, Zenon
<1>10. c = <<>> => C = 0
  <2>. SUFFICES ASSUME c = <<>> PROVE Len(c) = 0
    BY DEF C
  <2>. QED
    BY <1>4, Zenon
<1>. HIDE DEF A, B, C, n
<1>11. h = A + 1 /\ h \in 1 .. n + 1 /\ (r.port # 0 => ported) /\ (r.port = 0 => ~ported)
  <2>. DEFINE x == A + 1
  <2>1. x \in 1 .. n + 1 /\ 1 \in 1 .. n + 1
    BY <1>7, <1>8
  <2>2. \A k \in 1 .. x - 1 : p[k] \notin {Slash, Colon}
    <3>1. \A k \in 1 .. x - 1 : k \in 1 .. A
      BY <1>8
    <3>. QED
      BY <1>2, <1>7, <3>1, Zenon
  <2>3. r.port # 0 => x <= n /\ p[x] = Colon
    <3>. SUFFICES ASSUME r.port # 0 PROVE x <= n /\ p[x] = Colon
      OBVIOUS
    <3>1. B = 1 + Len(D) /\ b[1] = Colon
      BY <1>6
    <3>2. 1 \in 1 .. B /\ x <= n
      BY <1>7, <1>8, <3>1
    <3>. QED
      BY <1>7, <3>1, <3>2, Zenon
  <2>4. r.port = 0 => (x <= n => p[x] = Slash)
    <3>. SUFFICES ASSUME r.port = 0, x <= n PROVE p[x] = Slash
      OBVIOUS
    <3>1. B = 0
      BY <1>6
    <3>2. C # 0 /\ A + B + 1 = x
      BY <1>7, <1>8, <3>1
    <3>3. p[A + B + 1] = Slash
      BY <1>9, <1>10, <3>2
    <3>. QED
      BY <3>2, <3>3, Zenon
  <2>5. x <= n => p[x] \in {Slash, Colon}
    BY <2>3, <2>4
  <2>. HIDE DEF x
  <2>6. h = x
    <3>. QED
      BY <1>7, <2>1, <2>2, <2>5, UpToIs DEF n
  <2>7. Slash # Colon
    BY DEF Slash, Colon
  <2>. HIDE DEF h
  <2>8. r.port # 0 => ported
    BY <2>3, <2>6, Zenon DEF n
  <2>9. r.port = 0 => ~ported
    BY <2>4, <2>6, <2>7, Zenon DEF n
  <2>. QED
    BY <2>1, <2>6, <2>8, <2>9, Zenon DEF x
<1>. HIDE DEF h
<1>12. e = A + B + 1
  <2>1. CASE r.port = 0
    <3>1. e = h
      BY <1>11, <2>1, Zenon
    <3>2. B = 0
      BY <1>6, <2>1
    <3>. HIDE DEF e
    <3>. QED
      BY <1>8, <1>11, <3>1, <3>2
  <2>2. CASE r.port # 0
    <3>1. e = UpTo(p, h + 1, Byte \ Digits)
      BY <1>11, <2>2, Zenon
    <3>. HIDE DEF e, ported
    <3>. DEFINE i == h + 1
                x == A + B + 1
    <3>2. B = 1 + Len(D) /\ \A k \in 1 .. Len(D) : b[1 + k] = D[k]
      BY <1>6, <2>2
    <3>3. i \in 1 .. n + 1 /\ x \in i .. n + 1 /\ i = A + 2
      BY <1>7, <1>8, <1>11, <3>2
    <3>4. \A k \in i .. x - 1 : p[k] \notin Byte \ Digits
      <4>. SUFFICES ASSUME NEW k \in i .. x - 1 PROVE p[k] \notin Byte \ Digits
        OBVIOUS
      <4>. DEFINE m == k - (A + 1)
      <4>0. k \in Int /\ A + 2 <= k /\ k <= A + (1 + Len(D))
        BY <1>8, <3>2, <3>3
      <4>1. m \in 1 .. Len(D)
        BY <1>8, <4>0
      <4>2. A + (1 + m) = k
        BY <1>8, <4>0
      <4>3. 1 + m \in 1 .. B
        BY <1>8, <3>2, <4>1
      <4>. HIDE DEF m
      <4>4. p[A + (1 + m)] = D[m]
        BY <1>7, <3>2, <4>1, <4>3, Zenon
      <4>5. D[m] \in Digits
        BY <1>5, <4>1
      <4>. QED
        BY <4>2, <4>4, <4>5
    <3>5. x <= n => p[x] \in Byte \ Digits
      <4>1. x <= n => C # 0
        BY <1>7, <1>8
      <4>2. Slash \in Byte \ Digits
        BY DEF Slash, Byte, Digits
      <4>. QED
        BY <1>9, <1>10, <4>1, <4>2
    <3>. HIDE DEF i, x
    <3>6. UpTo(p, i, Byte \ Digits) = x
      BY <1>7, <3>3, <3>4, <3>5, UpToIs DEF n
    <3>. QED
      BY <3>1, <3>6 DEF i, x
  <2>. QED
    BY <2>1, <2>2
<1>. HIDE DEF e
<1>13. Cut(name, HostCap) = a
  <2>1. \A k \in 1 .. Len(a) : p[1 + k - 1] = a[k]
    <3>1. \A k \in 1 .. A : 1 + k - 1 = k
      BY <1>8
    <3>. QED
      BY <1>7, <3>1, Zenon DEF A
  <2>2. 1 \in Nat \ {0} /\ 1 + Len(a) - 1 <= Len(p) /\ 1 + Len(a) - 1 = h - 1
    BY <1>7, <1>8, <1>11 DEF A, n
  <2>3. SubSeq(p, 1, 1 + Len(a) - 1) = a
    BY <1>3, <1>7, <2>1, <2>2, PieceBack, SMTT(30)
  <2>4. name = a
    BY <2>2, <2>3, Zenon
  <2>5. Cut(a, HostCap) = a
    BY <1>2, <1>3, CutType, WireAssumption DEF A
  <2>. QED
    BY <2>4, <2>5, Zenon
<1>14. port = (IF r.port = 0 THEN 443 ELSE r.port)
  <2>1. CASE r.port = 0
    BY <1>11, <2>1, Zenon
  <2>2. CASE r.port # 0
    <3>1. B = 1 + Len(D) /\ \A k \in 1 .. Len(D) : b[1 + k] = D[k]
      BY <1>6, <2>2
    <3>2. \A k \in 1 .. Len(D) : p[(A + 2) + k - 1] = D[k]
      <4>. SUFFICES ASSUME NEW k \in 1 .. Len(D) PROVE p[(A + 2) + k - 1] = D[k]
        OBVIOUS
      <4>1. 1 + k \in 1 .. B /\ A + (1 + k) = (A + 2) + k - 1
        BY <1>8, <3>1
      <4>2. p[A + (1 + k)] = D[k]
        BY <1>7, <3>1, <4>1, Zenon
      <4>. QED
        BY <4>1, <4>2, Zenon
    <3>3. /\ A + 2 \in Nat \ {0} /\ (A + 2) + Len(D) - 1 <= Len(p)
          /\ (A + 2) + Len(D) - 1 = e - 1 /\ A + 2 = h + 1
      BY <1>7, <1>8, <1>11, <1>12, <3>1 DEF n
    <3>4. SubSeq(p, A + 2, (A + 2) + Len(D) - 1) = D
      BY <1>5, <1>7, <3>2, <3>3, PieceBack
    <3>5. digits = D
      BY <3>3, <3>4, Zenon
    <3>. QED
      BY <1>5, <1>11, <2>2, <3>5, Zenon
  <2>. QED
    BY <2>1, <2>2
<1>15. path = (IF c = <<>> THEN <<Slash>> ELSE c)
  <2>1. CASE c = <<>>
    <3>1. ~(e <= Len(p))
      BY <1>7, <1>8, <1>10, <1>12, <2>1 DEF n
    <3>. QED
      BY <2>1, <3>1, Zenon
  <2>2. CASE c # <<>>
    <3>1. e <= Len(p) /\ p[e] = Slash
      <4>1. C # 0
        BY <1>9, <2>2
      <4>2. e <= Len(p)
        BY <1>7, <1>8, <1>12, <4>1 DEF n
      <4>. QED
        BY <1>9, <1>12, <2>2, <4>2, Zenon
    <3>2. \A k \in 1 .. Len(c) : p[e + k - 1] = c[k]
      <4>1. \A k \in 1 .. C : A + B + k = e + k - 1
        BY <1>8, <1>12
      <4>. QED
        BY <1>7, <4>1, Zenon DEF C
    <3>3. e \in Nat \ {0} /\ e + Len(c) - 1 <= Len(p) /\ e + Len(c) - 1 = Len(p)
      BY <1>7, <1>8, <1>12 DEF n, C
    <3>4. SubSeq(p, e, e + Len(c) - 1) = c
      BY <1>3, <1>7, <3>2, <3>3, PieceBack
    <3>5. From(p, e) = c
      BY <3>3, <3>4, Zenon DEF From
    <3>6. Cut(c, PathCap) = c
      BY <1>2, <1>3, CutType, WireAssumption DEF C
    <3>. QED
      BY <2>2, <3>1, <3>5, <3>6, Zenon
  <2>. QED
    BY <2>1, <2>2
<1>. HIDE DEF name, port, path
<1>. QED
  BY <1>1, <1>13, <1>14, <1>15 DEF a, c

-----------------------------------------------------------------------------
(* The frames of a request. *)

\* Lists of two are the same when their elements are.
LEMMA SameTwo ==
  ASSUME NEW S, NEW s \in Seq(S), NEW t \in Seq(S), Len(s) = 2, Len(t) = 2, s[1] = t[1], s[2] = t[2]
  PROVE  s = t
<1>1. 1 .. 2 = {1, 2}
  OBVIOUS
<1>. QED
  BY <1>1

\* The list of two.
LEMMA TwoInARow ==
  ASSUME NEW S, NEW v \in S, NEW w \in S
  PROVE  Append(<<v>>, w) = <<v, w>> /\ <<v>> \o <<w>> = <<v, w>>
<1>1. <<v>> \in Seq(S) /\ Len(<<v>>) = 1 /\ <<w>> \in Seq(S) /\ Len(<<w>>) = 1
  OBVIOUS
<1>2. /\ Append(<<v>>, w) \in Seq(S) /\ Len(Append(<<v>>, w)) = 2
      /\ Append(<<v>>, w)[1] = v /\ Append(<<v>>, w)[2] = w
  OBVIOUS
<1>3. /\ <<v>> \o <<w>> \in Seq(S) /\ Len(<<v>> \o <<w>>) = 2
      /\ (<<v>> \o <<w>>)[1] = v /\ (<<v>> \o <<w>>)[2] = w
  OBVIOUS
<1>4. <<v, w>> \in Seq(S) /\ Len(<<v, w>>) = 2 /\ <<v, w>>[1] = v /\ <<v, w>>[2] = w
  OBVIOUS
<1>5. Append(<<v>>, w) = <<v, w>>
  BY <1>2, <1>4, SameTwo
<1>6. <<v>> \o <<w>> = <<v, w>>
  BY <1>3, <1>4, SameTwo
<1>. QED
  BY <1>5, <1>6

\* The concatenation of one text and of two.
LEMMA FlattenTwo ==
  ASSUME NEW x \in Bytes, NEW y \in Bytes
  PROVE  FlattenSeq(<<x>>) = x /\ FlattenSeq(<<x, y>>) = x \o y
<1>1. x \in Seq(Byte) /\ y \in Seq(Byte) /\ <<>> \in Seq(Seq(Byte))
  BY DEF Bytes
<1>2. Append(<<>>, x) = <<x>> /\ Append(<<x>>, y) = <<x, y>> /\ <<x>> \in Seq(Seq(Byte))
  <2>1. \A v \in Seq(Byte) : Append(<<>>, v) = <<v>>
    OBVIOUS
  <2>3. Append(<<x>>, y) = <<x, y>>
    BY <1>1, TwoInARow
  <2>2. \A v \in Seq(Byte) : <<v>> \in Seq(Seq(Byte))
    OBVIOUS
  <2>. QED
    BY <1>1, <2>1, <2>2, <2>3, Zenon
<1>3. FlattenSeq(Append(<<>>, x)) = FlattenSeq(<<>>) \o x
  BY <1>1, FlattenAppend
<1>4. FlattenSeq(<<>>) \o x = x
  <2>1. <<>> \o x = x
    BY <1>1
  <2>. QED
    BY <2>1, FlattenEmpty, Zenon
<1>5. FlattenSeq(Append(<<x>>, y)) = FlattenSeq(<<x>>) \o y
  BY <1>1, <1>2, FlattenAppend
<1>. QED
  BY <1>2, <1>3, <1>4, <1>5, Zenon

\* A text in two pieces.
LEMMA TwoPieces ==
  ASSUME NEW x \in Bytes, NEW y \in Bytes
  PROVE  LET s == x \o y IN
         SubSeq(s, 1, Len(x)) = x /\ SubSeq(s, Len(x) + 1, Len(x) + Len(y)) = y
<1>. DEFINE s == x \o y
            b == Len(x) + 1
<1>1. s \in Bytes /\ Len(s) = Len(x) + Len(y) /\ Len(x) \in Nat /\ Len(y) \in Nat
  BY Joined DEF Bytes
<1>2. (\A k \in 1 .. Len(x) : s[k] = x[k]) /\ (\A k \in 1 .. Len(y) : s[Len(x) + k] = y[k])
  BY JoinedBytes
<1>. HIDE DEF s
<1>3. SubSeq(s, 1, Len(x)) = x
  <2>1. \A k \in 1 .. Len(x) : 1 + k - 1 = k
    OBVIOUS
  <2>2. \A k \in 1 .. Len(x) : s[1 + k - 1] = x[k]
    BY <1>2, <2>1, Zenon
  <2>3. 1 \in Nat \ {0} /\ 1 + Len(x) - 1 <= Len(s) /\ 1 + Len(x) - 1 = Len(x)
    BY <1>1
  <2>4. SubSeq(s, 1, 1 + Len(x) - 1) = x
    BY <1>1, <2>2, <2>3, PieceBack
  <2>. QED
    BY <2>3, <2>4, Zenon
<1>4. SubSeq(s, b, Len(x) + Len(y)) = y
  <2>1. \A k \in 1 .. Len(y) : b + k - 1 = Len(x) + k
    BY <1>1
  <2>2. \A k \in 1 .. Len(y) : s[b + k - 1] = y[k]
    BY <1>2, <2>1, Zenon
  <2>3. b \in Nat \ {0} /\ b + Len(y) - 1 <= Len(s) /\ b + Len(y) - 1 = Len(x) + Len(y)
    BY <1>1
  <2>. HIDE DEF b
  <2>4. SubSeq(s, b, b + Len(y) - 1) = y
    BY <1>1, <2>2, <2>3, PieceBack
  <2>. QED
    BY <2>3, <2>4, Zenon
<1>. QED
  BY <1>3, <1>4 DEF s, b

\* The header block and the body are texts of bytes that a frame can hold.
LEMMA SentFits ==
  ASSUME NEW r, Fits(r)
  PROVE  LET block == QpackEncodeRequestHeaders(HeaderRoom(r), FieldLines(r)) IN
         /\ block \in Bytes /\ Len(block) < VarintEnd /\ r.body \in Bytes /\ Len(r.body) < VarintEnd
         /\ HEADERS \in Nat /\ HEADERS < VarintEnd /\ DATA \in Nat /\ DATA < VarintEnd
<1>. DEFINE block == QpackEncodeRequestHeaders(HeaderRoom(r), FieldLines(r))
<1>1. /\ HeaderRoom(r) \in Nat /\ HeaderRoom(r) <= INT_MAX
      /\ r.body \in Bytes /\ Len(r.body) <= INT_MAX
  BY RequestTexts
<1>2. block \in Bytes /\ Len(block) <= HeaderRoom(r)
  BY <1>1, FieldLinesReserved, EncoderType
<1>3. Len(block) \in Nat /\ Len(r.body) \in Nat
  BY <1>1, <1>2 DEF Bytes
<1>4. Len(block) <= INT_MAX
  BY <1>1, <1>2, <1>3, IntMaxType
<1>5. HEADERS \in Nat /\ HEADERS <= INT_MAX /\ DATA \in Nat /\ DATA <= INT_MAX
  BY IntMaxType DEF HEADERS, DATA
<1>. QED
  BY <1>1, <1>2, <1>3, <1>4, <1>5, IntMaxFits

\* What is sent, whether in one piece or in two, is the frame of the header block
\* and then, if there is a body, the frame of the body.
LEMMA SentIs ==
  ASSUME NEW r, Fits(r)
  PROVE  LET head == WriteHttp3Frame(HEADERS, QpackEncodeRequestHeaders(HeaderRoom(r), FieldLines(r)))
             data == IF r.body = <<>> THEN <<>> ELSE WriteHttp3Frame(DATA, r.body)
         IN FlattenSeq(SendBuf(r)) = head \o data
<1>. DEFINE block == QpackEncodeRequestHeaders(HeaderRoom(r), FieldLines(r))
            head == WriteHttp3Frame(HEADERS, block)
            data == IF r.body = <<>> THEN <<>> ELSE WriteHttp3Frame(DATA, r.body)
            buf == head \o data
            dataPos == Len(head)
            pos == dataPos + Len(data)
<1>1. SendBuf(r) = IF r.body = <<>> THEN <<buf>> ELSE <<SubSeq(buf, 1, dataPos), SubSeq(buf, dataPos + 1, pos)>>
  BY DEF SendBuf
<1>2. head \in Bytes /\ data \in Bytes
  <2>1. block \in Bytes /\ Len(block) < VarintEnd /\ r.body \in Bytes /\ Len(r.body) < VarintEnd
        /\ HEADERS \in Nat /\ HEADERS < VarintEnd /\ DATA \in Nat /\ DATA < VarintEnd
    BY SentFits
  <2>. HIDE DEF block
  <2>2. head \in Bytes
    BY <2>1, FrameType
  <2>3. WriteHttp3Frame(DATA, r.body) \in Bytes /\ <<>> \in Bytes
    BY <2>1, FrameType DEF Bytes
  <2>. QED
    BY <2>2, <2>3
<1>. HIDE DEF head, data
<1>3. SubSeq(buf, 1, dataPos) = head /\ SubSeq(buf, dataPos + 1, pos) = data
  BY <1>2, TwoPieces
<1>4. buf \in Bytes
  BY <1>2, Joined
<1>5. SendBuf(r) = <<buf>> \/ SendBuf(r) = <<head, data>>
  BY <1>1, <1>3, Zenon
<1>6. FlattenSeq(<<buf>>) = buf
  <2>. HIDE DEF buf
  <2>. QED
    BY <1>4, FlattenTwo
<1>7. FlattenSeq(<<head, data>>) = buf
  BY <1>2, FlattenTwo
<1>8. FlattenSeq(SendBuf(r)) = buf
  BY <1>5, <1>6, <1>7, Zenon
<1>. QED
  BY <1>8, Zenon DEF head, data

\* A frame that lies whole in a stream is read, and then what comes behind it.
GoesOn(h, data) ==
  \A type \in Nat, payload \in Bytes, pos \in 1 .. Len(data) + 1 :
    /\ type < VarintEnd /\ Len(payload) < VarintEnd
    /\ LiesAt(WriteHttp3Frame(type, payload), data, pos)
    => h[pos] = <<[type |-> type, payload |-> payload]>>
                  \o h[pos + Len(WriteHttp3Frame(type, payload))]

\* Frames reads them in that way.
LEMMA FramesGoOn ==
  ASSUME NEW data \in Bytes, NEW h, FramesFrom(h, data)
  PROVE  GoesOn(h, data)
<1>. SUFFICES ASSUME NEW type \in Nat, type < VarintEnd, NEW payload \in Bytes, Len(payload) < VarintEnd,
                     NEW pos \in 1 .. Len(data) + 1, LiesAt(WriteHttp3Frame(type, payload), data, pos)
              PROVE  h[pos] = <<[type |-> type, payload |-> payload]>>
                                \o h[pos + Len(WriteHttp3Frame(type, payload))]
  BY Zenon DEF GoesOn
<1>1. pos \in Nat \ {0}
  OBVIOUS
<1>2. /\ WholeFrame(data, pos) /\ NextFrame(data, pos) = pos + Len(WriteHttp3Frame(type, payload))
      /\ FrameRead(data, pos) = [type |-> type, payload |-> payload]
  BY <1>1, FrameRoundTrip
<1>3. h[pos] = IF WholeFrame(data, pos) THEN <<FrameRead(data, pos)>> \o h[NextFrame(data, pos)] ELSE <<>>
  BY DEF FramesFrom, Chained
<1>. QED
  BY <1>2, <1>3, Zenon

\* Nothing is read behind the end.
LEMMA FramesEnd ==
  ASSUME NEW data \in Bytes, NEW h, FramesFrom(h, data)
  PROVE  h[Len(data) + 1] = <<>>
<1>. DEFINE p == Len(data) + 1
<1>1. Len(data) \in Nat /\ p \in 1 .. Len(data) + 1 /\ p > Len(data)
  BY DEF Bytes
<1>2. h[p] = IF WholeFrame(data, p) THEN <<FrameRead(data, p)>> \o h[NextFrame(data, p)] ELSE <<>>
  BY <1>1 DEF FramesFrom, Chained
<1>. HIDE DEF p
<1>3. FrameKind(data, p).n = 0
  BY <1>1 DEF FrameKind, ReadQuicVarint, TooFew
<1>4. ~WholeFrame(data, p)
  BY <1>3 DEF WholeFrame
<1>5. h[p] = <<>>
  BY <1>2, <1>4, Zenon
<1>. QED
  BY <1>5 DEF p

\* One frame, or two of them, are read as they were written.
LEMMA FramesOfTwo ==
  ASSUME NEW t1 \in Nat, t1 < VarintEnd, NEW p1 \in Bytes, Len(p1) < VarintEnd,
         NEW t2 \in Nat, t2 < VarintEnd, NEW p2 \in Bytes, Len(p2) < VarintEnd
  PROVE  LET a == WriteHttp3Frame(t1, p1)  b == WriteHttp3Frame(t2, p2) IN
         /\ Frames(a) = <<[type |-> t1, payload |-> p1]>>
         /\ Frames(a \o b) = <<[type |-> t1, payload |-> p1], [type |-> t2, payload |-> p2]>>
<1>. DEFINE a == WriteHttp3Frame(t1, p1)
            b == WriteHttp3Frame(t2, p2)
            x == [type |-> t1, payload |-> p1]
            y == [type |-> t2, payload |-> p2]
<1>1. a \in Bytes /\ b \in Bytes
  BY FrameType
<1>2. Len(a) \in Nat /\ Len(b) \in Nat /\ 1 \in 1 .. Len(a) + 1 /\ 1 \in Nat \ {0}
  BY <1>1 DEF Bytes
<1>3. Frames(a) = <<x>>
  <2>1. PICK h : FramesFrom(h, a) /\ Frames(a) = h[1]
    BY <1>1, FramesIs
  <2>2. LiesAt(a, a, 1)
    <3>. HIDE DEF a
    <3>1. \A k \in 1 .. Len(a) : 1 + k - 1 = k
      OBVIOUS
    <3>. QED
      BY <1>2, <3>1 DEF LiesAt
  <2>3. h[1] = <<x>> \o h[1 + Len(a)]
    <3>1. GoesOn(h, a)
      BY <1>1, <2>1, FramesGoOn
    <3>. QED
      BY <1>2, <2>2, <3>1, Zenon DEF GoesOn
  <2>4. h[Len(a) + 1] = <<>>
    BY <1>1, <2>1, FramesEnd
  <2>5. 1 + Len(a) = Len(a) + 1 /\ <<x>> \o <<>> = <<x>>
    BY <1>2
  <2>. HIDE DEF a, x
  <2>. QED
    BY <2>1, <2>3, <2>4, <2>5, Zenon
<1>4. Frames(a \o b) = <<x, y>>
  <2>. DEFINE data == a \o b
              q == 1 + Len(a)
  <2>1. data \in Bytes /\ Len(data) = Len(a) + Len(b)
    BY <1>1, Joined
  <2>2. PICK h : FramesFrom(h, data) /\ Frames(data) = h[1]
    BY <2>1, FramesIs
  <2>3. LiesAt(a, data, 1) /\ LiesAt(b, data, q)
    <3>1. (\A k \in 1 .. Len(a) : data[k] = a[k]) /\ (\A k \in 1 .. Len(b) : data[Len(a) + k] = b[k])
      BY <1>1, JoinedBytes
    <3>. HIDE DEF data, a, b
    <3>2. (\A k \in 1 .. Len(a) : 1 + k - 1 = k) /\ (\A k \in 1 .. Len(b) : q + k - 1 = Len(a) + k)
      BY <1>2
    <3>3. (\A k \in 1 .. Len(a) : data[1 + k - 1] = a[k]) /\ (\A k \in 1 .. Len(b) : data[q + k - 1] = b[k])
      BY <3>1, <3>2, Zenon
    <3>4. 1 \in 1 .. Len(data) + 1 /\ q \in 1 .. Len(data) + 1 /\ 1 + Len(a) - 1 <= Len(data)
          /\ q + Len(b) - 1 <= Len(data)
      BY <1>2, <2>1
    <3>. QED
      BY <3>3, <3>4, Zenon DEF LiesAt
  <2>4. 1 \in 1 .. Len(data) + 1 /\ q \in 1 .. Len(data) + 1 /\ q + Len(b) = Len(data) + 1
    BY <1>2, <2>1
  <2>. HIDE DEF q
  <2>f. GoesOn(h, data)
    BY <2>1, <2>2, FramesGoOn
  <2>5. h[1] = <<x>> \o h[1 + Len(a)]
    BY <2>3, <2>4, <2>f, Zenon DEF GoesOn
  <2>6. h[q] = <<y>> \o h[q + Len(b)]
    BY <2>3, <2>4, <2>f, Zenon DEF GoesOn
  <2>7. h[Len(data) + 1] = <<>>
    <3>. HIDE DEF data
    <3>. QED
      BY <2>1, <2>2, FramesEnd
  <2>8. <<x>> \o (<<y>> \o <<>>) = <<x, y>>
    <3>1. \A w \in ReadFrame : <<w>> \o <<>> = <<w>>
      OBVIOUS
    <3>2. x \in ReadFrame /\ y \in ReadFrame
      BY DEF ReadFrame
    <3>. HIDE DEF x, y
    <3>3. <<x>> \o <<y>> = <<x, y>>
      BY <3>2, TwoInARow
    <3>. QED
      BY <3>1, <3>2, <3>3, Zenon
  <2>9. h[1] = <<x>> \o (<<y>> \o <<>>)
    BY <2>4, <2>5, <2>6, <2>7, Zenon DEF q
  <2>. QED
    BY <2>2, <2>8, <2>9, Zenon
<1>. QED
  BY <1>3, <1>4

-----------------------------------------------------------------------------
(* Every line of a request, and the room for all of them. *)

\* Two lists, one behind the other.
LEMMA JoinedLists ==
  ASSUME NEW S, NEW t \in Seq(S), NEW w \in Seq(S)
  PROVE  /\ t \o w \in Seq(S) /\ Len(t \o w) = Len(t) + Len(w)
         /\ \A k \in 1 .. Len(t) : (t \o w)[k] = t[k]
         /\ \A k \in 1 .. Len(w) : (t \o w)[Len(t) + k] = w[k]
OBVIOUS

\* A list of five and more.
FiveThen(s, a, b, c, d, e, n, w) ==
  /\ \E S : s \in Seq(S)
  /\ Len(s) = 5 + n /\ s[1] = a /\ s[2] = b /\ s[3] = c /\ s[4] = d /\ s[5] = e
  /\ \A i \in 1 .. n : s[5 + i] = w[i]

\* A list made like that is one.
LEMMA FiveAndMore ==
  ASSUME NEW a, NEW b, NEW c, NEW d, NEW e, NEW n \in Nat, NEW w, w = [i \in 1 .. n |-> w[i]]
  PROVE  FiveThen(<<a, b, c, d, e>> \o w, a, b, c, d, e, n, w)
<1>. DEFINE S == {a, b, c, d, e} \cup {w[i] : i \in 1 .. n}
            t == <<a, b, c, d, e>>
<1>1. t \in Seq(S) /\ Len(t) = 5 /\ t[1] = a /\ t[2] = b /\ t[3] = c /\ t[4] = d /\ t[5] = e
  OBVIOUS
<1>2. \A i \in 1 .. n : w[i] \in S
  OBVIOUS
<1>. HIDE DEF S, t
<1>3. w \in Seq(S) /\ Len(w) = n
  BY <1>2
<1>4. /\ t \o w \in Seq(S) /\ Len(t \o w) = 5 + n /\ \A k \in 1 .. 5 : (t \o w)[k] = t[k]
      /\ \A k \in 1 .. n : (t \o w)[5 + k] = w[k]
  <2>1. t \in Seq(S) /\ w \in Seq(S)
    BY <1>1, <1>3
  <2>2. /\ t \o w \in Seq(S) /\ Len(t \o w) = Len(t) + Len(w)
        /\ \A k \in 1 .. Len(t) : (t \o w)[k] = t[k]
        /\ \A k \in 1 .. Len(w) : (t \o w)[Len(t) + k] = w[k]
    BY <2>1, JoinedLists
  <2>3. Len(t) = 5 /\ Len(w) = n
    BY <1>1, <1>3
  <2>. QED
    BY <2>2, <2>3, Zenon
<1>5. 1 \in 1 .. 5 /\ 2 \in 1 .. 5 /\ 3 \in 1 .. 5 /\ 4 \in 1 .. 5 /\ 5 \in 1 .. 5
  OBVIOUS
<1>. QED
  BY <1>1, <1>4, <1>5, Zenon DEF t, FiveThen

\* Lower case stays as it is.
LEMMA LowerMethodName == MethodName \in Bytes /\ Len(MethodName) = 7 /\ Lower(MethodName) = MethodName
<1>1. /\ MethodName \in Bytes /\ Len(MethodName) = 7
      /\ \A i \in 1 .. 7 : MethodName[i] \notin Capitals
  BY DEF MethodName, Bytes, Byte, Capitals
<1>2. Lower(MethodName) = [i \in 1 .. 7 |-> MethodName[i]]
  BY <1>1 DEF Lower
<1>3. MethodName = [i \in 1 .. 7 |-> MethodName[i]]
  <2>. HIDE DEF MethodName
  <2>. QED
    BY <1>1 DEF Bytes
<1>. QED
  BY <1>1, <1>2, <1>3

\* The line of the method, as the caller asked for it.
MethodAsked(m) ==
  IF m \in {Methods[i] : i \in DOMAIN Methods} THEN <<"method", m>> ELSE <<MethodName, m>>

\* The line of the method.
LEMMA MethodReads ==
  ASSUME NEW r \in SpeltRequests
  PROVE  LET method == {i \in DOMAIN Methods : Methods[i] = r.method}
             l == IF method # {}
                  THEN [dlina |-> 0, bytes |-> WriteQpackIndexed(14 + CHOOSE i \in method : TRUE)]
                  ELSE [dlina |-> Len(r.method) + 7,
                        bytes |-> WriteQpackLiteralWithLiteralName(MethodName, r.method)]
         IN /\ ReadsAs(l.bytes, MethodAsked(r.method))
            /\ l.dlina \in Nat /\ l.dlina <= Len(r.method) + 7
<1>. DEFINE method == {i \in DOMAIN Methods : Methods[i] = r.method}
            l == IF method # {}
                 THEN [dlina |-> 0, bytes |-> WriteQpackIndexed(14 + CHOOSE i \in method : TRUE)]
                 ELSE [dlina |-> Len(r.method) + 7,
                       bytes |-> WriteQpackLiteralWithLiteralName(MethodName, r.method)]
<1>2. r.method \in Bytes /\ Len(r.method) \in Nat
  BY RequestAssumption DEF SpeltRequests, WireRequest, Bytes
<1>3. DOMAIN Methods = 1 .. 7
  BY DEF Methods
<1>4. CASE method = {}
  <2>1. MethodAsked(r.method) = <<MethodName, r.method>>
    <3>1. r.method \notin {Methods[i] : i \in DOMAIN Methods}
      BY <1>4
    <3>. QED
      BY <3>1, Zenon DEF MethodAsked
  <2>2. l = [dlina |-> Len(r.method) + 7,
             bytes |-> WriteQpackLiteralWithLiteralName(MethodName, r.method)]
    BY <1>4, Zenon
  <2>3. ReadsAs(WriteQpackLiteralWithLiteralName(MethodName, r.method),
                <<Lower(MethodName), r.method>>)
    BY <1>2, LowerMethodName, LiteralReads
  <2>. HIDE DEF l
  <2>4. /\ l.bytes = WriteQpackLiteralWithLiteralName(MethodName, r.method)
        /\ l.dlina = Len(r.method) + 7
    BY <2>2
  <2>5. l.dlina \in Nat /\ l.dlina <= Len(r.method) + 7
    BY <1>2, <2>4
  <2>6. ReadsAs(l.bytes, <<MethodName, r.method>>)
    BY <2>3, <2>4, LowerMethodName, Zenon
  <2>. QED
    BY <2>1, <2>5, <2>6, Zenon DEF l
<1>5. CASE method # {}
  <2>. DEFINE x == CHOOSE i \in method : TRUE
  <2>1. MethodAsked(r.method) = <<"method", r.method>>
    <3>1. r.method \in {Methods[i] : i \in DOMAIN Methods}
      BY <1>5
    <3>. QED
      BY <3>1, Zenon DEF MethodAsked
  <2>2. x \in 1 .. 7 /\ Methods[x] = r.method
    BY <1>3, <1>5
  <2>3. l = [dlina |-> 0, bytes |-> WriteQpackIndexed(14 + x)]
    BY <1>5, Zenon
  <2>. HIDE DEF x, l, method
  <2>. DEFINE idx == 14 + x
  <2>4. idx \in 15 .. 21 /\ idx - 14 = x
    BY <2>2
  <2>5. idx \in DOMAIN StaticLine /\ StaticLine[idx] = <<"method", Methods[idx - 14]>>
    <3>. HIDE DEF idx
    <3>1. idx # 1 /\ idx # 23 /\ idx \in {PATH_ROOT, SCHEME_HTTPS} \cup 15 .. 21
      BY <2>4
    <3>. HIDE DEF Methods
    <3>. QED
      BY <2>4, <3>1 DEF StaticLine, PATH_ROOT, SCHEME_HTTPS
  <2>6. ReadsAs(WriteQpackIndexed(idx), StaticLine[idx])
    BY <2>5, IndexedReads
  <2>7. ReadsAs(WriteQpackIndexed(idx), <<"method", r.method>>)
    BY <2>2, <2>4, <2>5, <2>6, Zenon
  <2>8. l.bytes = WriteQpackIndexed(idx) /\ l.dlina = 0
    BY <2>3
  <2>9. l.dlina \in Nat /\ l.dlina <= Len(r.method) + 7
    BY <1>2, <2>8
  <2>10. ReadsAs(l.bytes, <<"method", r.method>>)
    BY <2>7, <2>8, Zenon
  <2>. QED
    BY <2>1, <2>9, <2>10, Zenon DEF l, method
<1>. QED
  BY <1>4, <1>5, Zenon

\* The line of a text under a name of the static table, and the line of a header.
RefLine(idx, s) == [dlina |-> Len(s), bytes |-> WriteQpackLiteralWithNameRef(idx, s)]
OwnLine(h) == [dlina |-> Len(h[1]) + Len(h[2]), bytes |-> WriteQpackLiteralWithLiteralName(h[1], h[2])]

\* The line of the method.
MethodLine(m) ==
  LET method == {i \in DOMAIN Methods : Methods[i] = m}
  IN IF method # {} THEN [dlina |-> 0, bytes |-> WriteQpackIndexed(14 + CHOOSE i \in method : TRUE)]
     ELSE [dlina |-> Len(m) + 7, bytes |-> WriteQpackLiteralWithLiteralName(MethodName, m)]

\* What a request holds, when its headers are spelt as they should be.
LEMMA RequestParts ==
  ASSUME NEW r \in SpeltRequests
  PROVE  /\ r.headers \in Seq(Bytes \X Bytes) /\ Len(r.headers) \in Nat
         /\ r.method \in Bytes /\ r.host \in Bytes /\ r.path \in Bytes /\ r.port \in Nat
         /\ Agent \in Bytes /\ Fits(r)
         /\ \A i \in 1 .. Len(r.headers) : Spelt(r.headers[i])
<1>1. /\ r.headers \in Seq(Bytes \X Bytes) /\ r.method \in Bytes /\ r.host \in Bytes
      /\ r.path \in Bytes /\ r.port \in Nat
  BY RequestAssumption DEF SpeltRequests, WireRequest
<1>2. Len(r.headers) \in Nat /\ \A i \in 1 .. Len(r.headers) : r.headers[i] \in Bytes \X Bytes
  BY <1>1
<1>3. WellSpelt(r)
  BY DEF SpeltRequests
<1>4. \A i \in 1 .. Len(r.headers) : Spelt(r.headers[i])
  <2>1. \A h \in Bytes \X Bytes : h[1] \in Bytes /\ h[2] \in Bytes
    OBVIOUS
  <2>. QED
    BY <1>2, <1>3, <2>1, Zenon DEF WellSpelt, Spelt
<1>. QED
  BY <1>1, <1>2, <1>4, RequestAssumption, SpeltFits

\* The lines the client writes, one by one.
LEMMA LinesAre ==
  ASSUME NEW r \in SpeltRequests
  PROVE  LET u == ParseUrl(r.url)  L == FieldLines(r) IN
         /\ Len(L) = 5 + Len(r.headers)
         /\ L[1] = MethodLine(r.method)
         /\ L[2] = (IF u.path = <<Slash>> THEN [dlina |-> 0, bytes |-> WriteQpackIndexed(PATH_ROOT)]
                    ELSE RefLine(PATH_ROOT, u.path))
         /\ L[3] = [dlina |-> 0, bytes |-> WriteQpackIndexed(SCHEME_HTTPS)]
         /\ L[4] = RefLine(AUTHORITY, Authority(u)) /\ L[5] = RefLine(USER_AGENT, Agent)
         /\ \A i \in 1 .. Len(r.headers) : L[5 + i] = OwnLine(r.headers[i])
<1>. DEFINE u == ParseUrl(r.url)
            raw == RawHeaders(r.headers)
            method == {i \in DOMAIN Methods : Methods[i] = r.method}
            users == UserPairs(raw)
            n == Len(users)
            l1 == IF method # {}
                  THEN [dlina |-> 0, bytes |-> WriteQpackIndexed(14 + CHOOSE i \in method : TRUE)]
                  ELSE [dlina |-> Len(r.method) + 7,
                        bytes |-> WriteQpackLiteralWithLiteralName(MethodName, r.method)]
            l2 == IF u.path = <<Slash>> THEN [dlina |-> 0, bytes |-> WriteQpackIndexed(PATH_ROOT)]
                  ELSE [dlina |-> Len(u.path), bytes |-> WriteQpackLiteralWithNameRef(PATH_ROOT, u.path)]
            l3 == [dlina |-> 0, bytes |-> WriteQpackIndexed(SCHEME_HTTPS)]
            l4 == [dlina |-> Len(Authority(u)), bytes |-> WriteQpackLiteralWithNameRef(AUTHORITY, Authority(u))]
            l5 == [dlina |-> Len(Agent), bytes |-> WriteQpackLiteralWithNameRef(USER_AGENT, Agent)]
            own == [i \in 1 .. n |->
                      [dlina |-> Len(users[i].name) + Len(users[i].text),
                       bytes |-> WriteQpackLiteralWithLiteralName(users[i].name, users[i].text)]]
            L == FieldLines(r)
<1>1. L = <<l1, l2, l3, l4, l5>> \o own
  BY Zenon DEF FieldLines
<1>2. l1 = MethodLine(r.method) /\ l4 = RefLine(AUTHORITY, Authority(u)) /\ l5 = RefLine(USER_AGENT, Agent)
  BY Zenon DEF MethodLine, RefLine
<1>3. l2 = IF u.path = <<Slash>> THEN [dlina |-> 0, bytes |-> WriteQpackIndexed(PATH_ROOT)]
           ELSE RefLine(PATH_ROOT, u.path)
  BY Zenon DEF RefLine
<1>4. /\ r.headers \in Seq(Bytes \X Bytes) /\ Len(r.headers) \in Nat
      /\ \A i \in 1 .. Len(r.headers) : Spelt(r.headers[i])
  BY RequestParts
<1>5. /\ n = Len(r.headers)
      /\ \A i \in 1 .. Len(r.headers) : users[i].name = r.headers[i][1] /\ users[i].text = r.headers[i][2]
  BY <1>4, UserPairsAre
<1>. HIDE DEF users
<1>6. n \in Nat /\ \A i \in 1 .. n : own[i] = OwnLine(r.headers[i])
  <2>1. \A i \in 1 .. n : own[i] = [dlina |-> Len(users[i].name) + Len(users[i].text),
                                    bytes |-> WriteQpackLiteralWithLiteralName(users[i].name, users[i].text)]
    BY Zenon
  <2>. QED
    BY <1>4, <1>5, <2>1, Zenon DEF OwnLine
<1>7. own = [i \in 1 .. n |-> own[i]]
  BY Zenon
<1>. HIDE DEF l1, l2, l3, l4, l5, own, L, n
<1>8. /\ Len(L) = 5 + n /\ L[1] = l1 /\ L[2] = l2 /\ L[3] = l3 /\ L[4] = l4 /\ L[5] = l5
      /\ \A i \in 1 .. n : L[5 + i] = own[i]
  <2>1. FiveThen(<<l1, l2, l3, l4, l5>> \o own, l1, l2, l3, l4, l5, n, own)
    BY <1>6, <1>7, FiveAndMore
  <2>. QED
    BY <1>1, <2>1, Zenon DEF FiveThen
<1>9. l3 = [dlina |-> 0, bytes |-> WriteQpackIndexed(SCHEME_HTTPS)]
  BY DEF l3
<1>. HIDE DEF u
<1>10. Len(L) = 5 + Len(r.headers) /\ \A i \in 1 .. Len(r.headers) : L[5 + i] = OwnLine(r.headers[i])
  BY <1>5, <1>6, <1>8, Zenon
<1>. QED
  BY <1>2, <1>3, <1>8, <1>9, <1>10, Zenon DEF u, L

\* The lines the caller asked for, one by one.
LEMMA AskedAre ==
  ASSUME NEW r \in SpeltRequests
  PROVE  LET A == Asked(r) IN
         /\ \E S : A \in Seq(S)
         /\ Len(A) = 5 + Len(r.headers)
         /\ A[1] = MethodAsked(r.method)
         /\ A[2] = <<"path", IF r.path = <<>> THEN <<Slash>> ELSE r.path>>
         /\ A[3] = <<"scheme", "https">>
         /\ A[4] = <<"authority", IF r.port \in {0, 443} THEN r.host
                                  ELSE r.host \o <<Colon>> \o MyIntToStr(r.port)>>
         /\ A[5] = <<"user-agent", Agent>>
         /\ \A i \in 1 .. Len(r.headers) : A[5 + i] = <<Lower(r.headers[i][1]), r.headers[i][2]>>
<1>. DEFINE n == Len(r.headers)
            a1 == MethodAsked(r.method)
            a2 == <<"path", IF r.path = <<>> THEN <<Slash>> ELSE r.path>>
            a3 == <<"scheme", "https">>
            a4 == <<"authority", IF r.port \in {0, 443} THEN r.host
                                 ELSE r.host \o <<Colon>> \o MyIntToStr(r.port)>>
            a5 == <<"user-agent", Agent>>
            more == [i \in 1 .. n |-> <<Lower(r.headers[i][1]), r.headers[i][2]>>]
            A == Asked(r)
<1>1. A = <<a1, a2, a3, a4, a5>> \o more
  BY Zenon DEF Asked, MethodAsked
<1>2. n \in Nat
  BY RequestParts
<1>3. \A i \in 1 .. n : more[i] = <<Lower(r.headers[i][1]), r.headers[i][2]>>
  BY Zenon
<1>4. more = [i \in 1 .. n |-> more[i]]
  BY Zenon
<1>. HIDE DEF a1, a2, a3, a4, a5, more, A, n
<1>5. FiveThen(<<a1, a2, a3, a4, a5>> \o more, a1, a2, a3, a4, a5, n, more)
  BY <1>2, <1>4, FiveAndMore
<1>6. /\ \E S : A \in Seq(S)
      /\ Len(A) = 5 + n /\ A[1] = a1 /\ A[2] = a2 /\ A[3] = a3 /\ A[4] = a4 /\ A[5] = a5
      /\ \A i \in 1 .. n : A[5 + i] = more[i]
  BY <1>1, <1>5, Zenon DEF FiveThen
<1>7. \A i \in 1 .. n : A[5 + i] = <<Lower(r.headers[i][1]), r.headers[i][2]>>
  BY <1>3, <1>6, Zenon
<1>. QED
  BY <1>6, <1>7, Zenon DEF a1, a2, a3, a4, a5, A, n

\* Every line the client writes is read as the line the caller asked for.
LEMMA RequestReads ==
  ASSUME NEW r \in SpeltRequests, r.url.secure
  PROVE  \A i \in 1 .. 5 + Len(r.headers) : ReadsAs(FieldLines(r)[i].bytes, Asked(r)[i])
<1>. DEFINE u == ParseUrl(r.url)
            n == Len(r.headers)
            L == FieldLines(r)
            A == Asked(r)
<1>1. /\ n \in Nat /\ r.headers \in Seq(Bytes \X Bytes) /\ Agent \in Bytes
      /\ \A i \in 1 .. n : Spelt(r.headers[i])
  BY RequestParts
<1>2. u.path \in Bytes /\ Authority(u) \in Bytes
  BY SpeltFits, RequestTexts, Zenon
<1>3. u.host = r.host /\ u.port = (IF r.port = 0 THEN 443 ELSE r.port)
      /\ u.path = (IF r.path = <<>> THEN <<Slash>> ELSE r.path)
  BY UrlParsed
<1>4. /\ L[1] = MethodLine(r.method)
      /\ L[2] = (IF u.path = <<Slash>> THEN [dlina |-> 0, bytes |-> WriteQpackIndexed(PATH_ROOT)]
                 ELSE RefLine(PATH_ROOT, u.path))
      /\ L[3] = [dlina |-> 0, bytes |-> WriteQpackIndexed(SCHEME_HTTPS)]
      /\ L[4] = RefLine(AUTHORITY, Authority(u)) /\ L[5] = RefLine(USER_AGENT, Agent)
      /\ \A i \in 1 .. n : L[5 + i] = OwnLine(r.headers[i])
  BY LinesAre
<1>5. /\ A[1] = MethodAsked(r.method)
      /\ A[2] = <<"path", IF r.path = <<>> THEN <<Slash>> ELSE r.path>>
      /\ A[3] = <<"scheme", "https">>
      /\ A[4] = <<"authority", IF r.port \in {0, 443} THEN r.host
                               ELSE r.host \o <<Colon>> \o MyIntToStr(r.port)>>
      /\ A[5] = <<"user-agent", Agent>>
      /\ \A i \in 1 .. n : A[5 + i] = <<Lower(r.headers[i][1]), r.headers[i][2]>>
  BY AskedAre, ZenonT(40)
<1>. HIDE DEF L, A, u
<1>6. ReadsAs(L[1].bytes, A[1])
  <2>1. ReadsAs(MethodLine(r.method).bytes, MethodAsked(r.method))
    BY MethodReads, Zenon DEF MethodLine
  <2>. QED
    BY <1>4, <1>5, <2>1, Zenon
<1>7. \A idx, s : RefLine(idx, s).bytes = WriteQpackLiteralWithNameRef(idx, s)
  BY DEF RefLine
<1>8. /\ [dlina |-> 0, bytes |-> WriteQpackIndexed(PATH_ROOT)].bytes = WriteQpackIndexed(PATH_ROOT)
      /\ [dlina |-> 0, bytes |-> WriteQpackIndexed(SCHEME_HTTPS)].bytes = WriteQpackIndexed(SCHEME_HTTPS)
  OBVIOUS
<1>9. /\ PATH_ROOT \in DOMAIN StaticLine /\ SCHEME_HTTPS \in DOMAIN StaticLine
      /\ AUTHORITY \in DOMAIN StaticName /\ PATH_ROOT \in DOMAIN StaticName
      /\ USER_AGENT \in DOMAIN StaticName
      /\ StaticLine[PATH_ROOT] = <<"path", <<Slash>> >> /\ StaticLine[SCHEME_HTTPS] = <<"scheme", "https">>
      /\ StaticName[AUTHORITY] = "authority" /\ StaticName[PATH_ROOT] = "path"
      /\ StaticName[USER_AGENT] = "user-agent"
  BY DEF StaticLine, StaticName, PATH_ROOT, SCHEME_HTTPS, AUTHORITY, USER_AGENT
<1>10. ReadsAs(L[2].bytes, A[2])
  <2>1. A[2] = <<"path", u.path>>
    BY <1>3, <1>5, Zenon
  <2>2. CASE u.path = <<Slash>>
    <3>1. L[2].bytes = WriteQpackIndexed(PATH_ROOT)
      BY <1>4, <1>8, <2>2, Zenon
    <3>2. ReadsAs(WriteQpackIndexed(PATH_ROOT), StaticLine[PATH_ROOT])
      BY <1>9, IndexedReads
    <3>. QED
      BY <1>9, <2>1, <2>2, <3>1, <3>2, Zenon
  <2>3. CASE u.path # <<Slash>>
    <3>1. L[2].bytes = WriteQpackLiteralWithNameRef(PATH_ROOT, u.path)
      BY <1>4, <1>7, <2>3, Zenon
    <3>2. ReadsAs(WriteQpackLiteralWithNameRef(PATH_ROOT, u.path), <<StaticName[PATH_ROOT], u.path>>)
      BY <1>2, <1>9, NameRefReads
    <3>. QED
      BY <1>9, <2>1, <3>1, <3>2, Zenon
  <2>. QED
    BY <2>2, <2>3
<1>11. ReadsAs(L[3].bytes, A[3])
  <2>1. ReadsAs(WriteQpackIndexed(SCHEME_HTTPS), StaticLine[SCHEME_HTTPS])
    BY <1>9, IndexedReads
  <2>2. L[3].bytes = WriteQpackIndexed(SCHEME_HTTPS)
    BY <1>4, <1>8, Zenon
  <2>3. A[3] = StaticLine[SCHEME_HTTPS]
    BY <1>5, <1>9, Zenon
  <2>. QED
    BY <2>1, <2>2, <2>3, Zenon
<1>12. ReadsAs(L[4].bytes, A[4])
  <2>1. Authority(u) = IF r.port \in {0, 443} THEN r.host ELSE r.host \o <<Colon>> \o MyIntToStr(r.port)
    <3>1. CASE r.port = 0
      BY <1>3, <3>1 DEF Authority
    <3>2. CASE r.port = 443
      BY <1>3, <3>2 DEF Authority
    <3>3. CASE r.port # 0 /\ r.port # 443
      <4>1. u.port = r.port
        BY <1>3, <3>3
      <4>. QED
        BY <1>3, <3>3, <4>1 DEF Authority
    <3>. QED
      BY <3>1, <3>2, <3>3
  <2>2. ReadsAs(WriteQpackLiteralWithNameRef(AUTHORITY, Authority(u)), <<StaticName[AUTHORITY], Authority(u)>>)
    BY <1>2, <1>9, NameRefReads
  <2>3. L[4].bytes = WriteQpackLiteralWithNameRef(AUTHORITY, Authority(u))
    BY <1>4, <1>7, Zenon
  <2>4. A[4] = <<StaticName[AUTHORITY], Authority(u)>>
    BY <1>5, <1>9, <2>1, Zenon
  <2>. QED
    BY <2>2, <2>3, <2>4, Zenon
<1>13. ReadsAs(L[5].bytes, A[5])
  <2>1. ReadsAs(WriteQpackLiteralWithNameRef(USER_AGENT, Agent), <<StaticName[USER_AGENT], Agent>>)
    BY <1>1, <1>9, NameRefReads
  <2>. QED
    BY <1>4, <1>5, <1>7, <1>9, <2>1, ZenonT(40)
<1>14. \A i \in 1 .. n : ReadsAs(L[5 + i].bytes, A[5 + i])
  <2>. SUFFICES ASSUME NEW i \in 1 .. n PROVE ReadsAs(L[5 + i].bytes, A[5 + i])
    OBVIOUS
  <2>. DEFINE h == r.headers[i]
  <2>1. h[1] \in Bytes /\ h[2] \in Bytes
    BY <1>1, Zenon DEF Spelt
  <2>. HIDE DEF h
  <2>2. ReadsAs(WriteQpackLiteralWithLiteralName(h[1], h[2]), <<Lower(h[1]), h[2]>>)
    BY <2>1, LiteralReads
  <2>3. OwnLine(h).bytes = WriteQpackLiteralWithLiteralName(h[1], h[2])
    BY DEF OwnLine
  <2>4. L[5 + i] = OwnLine(h) /\ A[5 + i] = <<Lower(h[1]), h[2]>>
    BY <1>4, <1>5, Zenon DEF h
  <2>. QED
    BY <2>2, <2>3, <2>4, Zenon
<1>15. \A i \in 1 .. 5 + n : i \in {1, 2, 3, 4, 5} \/ \E k \in 1 .. n : i = 5 + k
  <2>. HIDE DEF n
  <2>1. \A i \in 1 .. 5 + n : i \in {1, 2, 3, 4, 5} \/ (i - 5 \in 1 .. n /\ i = 5 + (i - 5))
    BY <1>1
  <2>. QED
    BY <2>1, Zenon
<1>16. \A i \in {1, 2, 3, 4, 5} : ReadsAs(L[i].bytes, A[i])
  BY <1>6, <1>10, <1>11, <1>12, <1>13
<1>. HIDE DEF n
<1>17. \A i \in 1 .. 5 + n : ReadsAs(L[i].bytes, A[i])
  BY <1>14, <1>15, <1>16, Zenon
<1>. QED
  BY <1>17 DEF n, L, A

\* The lengths the reserves of a request's lines are counted from.
LEMMA Reserves ==
  ASSUME NEW r \in SpeltRequests, r.url.secure
  PROVE  LET u == ParseUrl(r.url)  L == FieldLines(r)  M == Len(r.method) IN
         /\ L[1].dlina \in Nat /\ L[1].dlina <= M + 7
         /\ L[2].dlina \in Nat /\ L[2].dlina <= Len(u.path)
         /\ L[3].dlina = 0 /\ L[4].dlina = Len(Authority(u)) /\ L[5].dlina = Len(Agent)
         /\ \A i \in 1 .. Len(r.headers) : L[5 + i].dlina = Len(r.headers[i][1]) + Len(r.headers[i][2])
<1>. DEFINE u == ParseUrl(r.url)
            L == FieldLines(r)
            M == Len(r.method)
            n == Len(r.headers)
<1>1. /\ L[1] = MethodLine(r.method)
      /\ L[2] = (IF u.path = <<Slash>> THEN [dlina |-> 0, bytes |-> WriteQpackIndexed(PATH_ROOT)]
                 ELSE RefLine(PATH_ROOT, u.path))
      /\ L[3] = [dlina |-> 0, bytes |-> WriteQpackIndexed(SCHEME_HTTPS)]
      /\ L[4] = RefLine(AUTHORITY, Authority(u)) /\ L[5] = RefLine(USER_AGENT, Agent)
      /\ \A i \in 1 .. n : L[5 + i] = OwnLine(r.headers[i])
  BY LinesAre
<1>2. Len(u.path) \in Nat
  <2>1. u.path \in Bytes
    BY SpeltFits, RequestTexts, Zenon
  <2>. QED
    BY <2>1 DEF Bytes
<1>3. MethodLine(r.method).dlina \in Nat /\ MethodLine(r.method).dlina <= M + 7
  BY MethodReads, Zenon DEF MethodLine
<1>. HIDE DEF L, u, M, n
<1>4. /\ \A idx, s : RefLine(idx, s).dlina = Len(s)
      /\ \A h : OwnLine(h).dlina = Len(h[1]) + Len(h[2])
      /\ \A b : [dlina |-> 0, bytes |-> b].dlina = 0
  BY DEF RefLine, OwnLine
<1>5. L[1].dlina \in Nat /\ L[1].dlina <= M + 7
  BY <1>1, <1>3, Zenon
<1>6. L[2].dlina \in Nat /\ L[2].dlina <= Len(u.path)
  <2>1. CASE u.path = <<Slash>>
    <3>1. L[2].dlina = 0
      BY <1>1, <1>4, <2>1, Zenon
    <3>. QED
      BY <1>2, <3>1
  <2>2. CASE u.path # <<Slash>>
    <3>1. L[2].dlina = Len(u.path)
      <4>1. RefLine(PATH_ROOT, u.path).dlina = Len(u.path)
        BY <1>4
      <4>. QED
        BY <1>1, <2>2, <4>1, Zenon
    <3>. QED
      BY <1>2, <3>1
  <2>. QED
    BY <2>1, <2>2
<1>7. L[3].dlina = 0 /\ L[4].dlina = Len(Authority(u)) /\ L[5].dlina = Len(Agent)
  <2>1. /\ RefLine(AUTHORITY, Authority(u)).dlina = Len(Authority(u))
        /\ RefLine(USER_AGENT, Agent).dlina = Len(Agent)
        /\ [dlina |-> 0, bytes |-> WriteQpackIndexed(SCHEME_HTTPS)].dlina = 0
    BY <1>4
  <2>. QED
    BY <1>1, <2>1, Zenon
<1>8. \A i \in 1 .. n : L[5 + i].dlina = Len(r.headers[i][1]) + Len(r.headers[i][2])
  BY <1>1, <1>4, Zenon
<1>. QED
  BY <1>5, <1>6, <1>7, <1>8 DEF L, u, M, n

\* The room the client makes is room for every line of the request: twelve bytes a line and
\* the two before them come from the fixed part, what a line's texts need from the lengths
\* that are added to it, and what a header's line needs from the five bytes a byte of the
\* headers text gets: its separators alone bring twenty.
LEMMA RoomForAll ==
  ASSUME NEW r \in SpeltRequests, r.url.secure
  PROVE  \E R : Room(R, FieldLines(r), HeaderRoom(r))
<1>. DEFINE u == ParseUrl(r.url)
            L == FieldLines(r)
            M == Len(r.method)
            P == Len(u.path)
            A == Len(Authority(u))
            G == Len(Agent)
            n == Len(r.headers)
            raw == RawHeaders(r.headers)
            W == Len(raw)
            s == HeaderLines(r.headers)
            K == 69 + M + P + A + G
            cap == HeaderRoom(r)
<1>1. /\ n \in Nat /\ r.headers \in Seq(Bytes \X Bytes) /\ M \in Nat /\ G \in Nat
      /\ \A i \in 1 .. n : Spelt(r.headers[i])
  BY RequestParts DEF Bytes
<1>2. P \in Nat /\ A \in Nat /\ W \in Nat
  <2>1. u.path \in Bytes /\ Authority(u) \in Bytes /\ raw \in Bytes
    BY SpeltFits, RequestTexts, Zenon
  <2>. HIDE DEF u, raw
  <2>. QED
    BY <2>1 DEF Bytes
<1>3. cap = BaseRoom + P + A + 5 * W /\ BaseRoom \in Nat
  BY WireAssumption, Zenon DEF HeaderRoom
<1>4. 69 + M + G <= BaseRoom
  <2>1. WellSpelt(r)
    BY DEF SpeltRequests
  <2>2. 2 + 5 * QpackZapas(0) + Len(MethodName) + M + G <= BaseRoom
    BY <2>1, Zenon DEF WellSpelt
  <2>3. QpackZapas(0) = 12 /\ Len(MethodName) = 7
    BY DEF QpackZapas, MethodName
  <2>. HIDE DEF M, G
  <2>4. 2 + 5 * 12 + 7 + M + G <= BaseRoom
    BY <2>2, <2>3, Zenon
  <2>. QED
    BY <1>1, <1>3, <2>4
<1>5. /\ s \in Seq(Bytes) /\ Len(s) = n /\ raw = FlattenSeq(s)
      /\ \A i \in 1 .. n : s[i] = HeaderLine(r.headers[i])
  <2>1. s \in Seq(Bytes) /\ Len(s) = n /\ raw = FlattenSeq(s)
    BY <1>1, HeaderLinesType
  <2>. QED
    BY <2>1, Zenon DEF HeaderLines
<1>6. /\ L[1].dlina \in Nat /\ L[1].dlina <= M + 7
      /\ L[2].dlina \in Nat /\ L[2].dlina <= P
      /\ L[3].dlina = 0 /\ L[4].dlina = A /\ L[5].dlina = G
      /\ \A i \in 1 .. n : L[5 + i].dlina = Len(r.headers[i][1]) + Len(r.headers[i][2])
  BY Reserves
<1>7. Len(L) = 5 + n
  BY LinesAre
<1>. HIDE DEF u, L, M, P, A, G, n, raw, W, s, cap
<1>8. PICK F : Parts(F, Byte, s)
  BY <1>5, FlattenParts DEF Bytes
<1>. DEFINE f(k) == Len(F[k])
<1>9. f(0) = 0
  <2>1. F[0] = <<>>
    BY <1>8, Zenon DEF Parts
  <2>. QED
    BY <2>1
<1>10. ASSUME NEW k \in 1 .. n
       PROVE  /\ f(k - 1) \in Nat /\ f(k) \in Nat /\ f(k) <= W
              /\ 5 * f(k - 1) + QpackZapas(L[5 + k].dlina) <= 5 * f(k)
  <2>. DEFINE a == Len(r.headers[k][1])
              t == Len(r.headers[k][2])
              e == Len(s[k])
  <2>1. k \in 1 .. Len(s)
    BY <1>5, Zenon
  <2>2. f(k) = f(k - 1) + e /\ f(k - 1) \in Nat /\ e \in Nat
    <3>1. <<>> \in Bytes
      BY DEF Bytes
    <3>. QED
      BY <1>5, <1>8, <2>1, <3>1, PartLiesAt
  <2>3. f(k) <= W
    <3>1. PartLies(F, s, k)
      BY <1>5, <1>8, <2>1, PartsLie DEF Bytes
    <3>. QED
      BY <1>5, <3>1, Zenon DEF PartLies, W
  <2>4. a \in Nat /\ t \in Nat /\ e = a + t + 4
    <3>1. a \in Nat \ {0} /\ t \in Nat /\ Len(HeaderLine(r.headers[k])) = a + t + 4
      BY <1>1, HeaderLineIs
    <3>2. s[k] = HeaderLine(r.headers[k])
      BY <1>5, Zenon
    <3>. HIDE DEF a, t
    <3>. QED
      BY <3>1, <3>2
  <2>5. QpackZapas(L[5 + k].dlina) = a + t + 12
    BY <1>6, Zenon DEF QpackZapas
  <2>. HIDE DEF a, t, e
  <2>6. f(k) \in Nat
    <3>1. \A x, y \in Nat : x + y \in Nat
      OBVIOUS
    <3>. QED
      BY <2>2, <3>1, Zenon
  <2>7. \A x, p, q, y, z \in Nat : y = p + q + 4 /\ z = x + y => 5 * x + (p + q + 12) <= 5 * z
    OBVIOUS
  <2>8. 5 * f(k - 1) + (a + t + 12) <= 5 * f(k)
    BY <2>2, <2>4, <2>6, <2>7, Zenon
  <2>. QED
    BY <2>2, <2>3, <2>5, <2>6, <2>8, Zenon
<1>. DEFINE R == [i \in 0 .. 5 + n |-> IF i = 0 THEN 2 ELSE IF i = 1 THEN 21 + M ELSE IF i = 2 THEN 33 + M + P
                                       ELSE IF i = 3 THEN 45 + M + P ELSE IF i = 4 THEN 57 + M + P + A
                                       ELSE K + 5 * f(i - 5)]
<1>11. /\ R[0] = 2 /\ R[1] = 21 + M /\ R[2] = 33 + M + P /\ R[3] = 45 + M + P /\ R[4] = 57 + M + P + A
  BY <1>1
<1>12. \A k \in 0 .. n : R[5 + k] = K + 5 * f(k)
  <2>. SUFFICES ASSUME NEW k \in 0 .. n PROVE R[5 + k] = K + 5 * f(k)
    OBVIOUS
  <2>1. /\ 5 + k \in 0 .. 5 + n /\ (5 + k) - 5 = k /\ 5 + k # 0 /\ 5 + k # 1 /\ 5 + k # 2 /\ 5 + k # 3
        /\ 5 + k # 4
    BY <1>1
  <2>. HIDE DEF K
  <2>2. R[5 + k] = K + 5 * f((5 + k) - 5)
    BY <2>1, Zenon
  <2>. QED
    BY <2>1, <2>2, Zenon
<1>. HIDE DEF R, f
<1>13. R[5] = K
  <2>1. R[5 + 0] = K + 5 * f(0)
    BY <1>1, <1>12
  <2>2. 5 + 0 = 5 /\ K + 5 * 0 = K
    BY <1>1, <1>2
  <2>. HIDE DEF K
  <2>. QED
    BY <1>9, <2>1, <2>2, Zenon
<1>14. K \in Nat /\ K + 5 * W <= cap
  BY <1>1, <1>2, <1>3, <1>4
<1>. DEFINE Holds(i) == /\ R[i] \in Nat /\ R[i - 1] \in Nat
                        /\ R[i - 1] + QpackZapas(L[i].dlina) <= R[i] /\ R[i] <= cap
<1>15. Holds(1) /\ Holds(2) /\ Holds(3) /\ Holds(4) /\ Holds(5)
  <2>1. \A d : QpackZapas(d) = d + 12
    BY DEF QpackZapas
  <2>2. cap \in Nat
    BY <1>1, <1>2, <1>3
  <2>. DEFINE d1 == L[1].dlina
              d2 == L[2].dlina
  <2>3. d1 \in Nat /\ d2 \in Nat /\ d1 <= M + 7 /\ d2 <= P
    BY <1>6
  <2>. HIDE DEF d1, d2
  <2>4. Holds(1)
    <3>1. /\ 21 + M \in Nat /\ 2 \in Nat /\ 2 + (d1 + 12) <= 21 + M /\ 21 + M <= cap /\ 1 - 1 = 0
      BY <1>1, <1>2, <1>14, <2>2, <2>3
    <3>. QED
      BY <1>11, <2>1, <3>1, Zenon DEF d1
  <2>5. Holds(2)
    <3>1. /\ 33 + M + P \in Nat /\ 21 + M \in Nat /\ (21 + M) + (d2 + 12) <= 33 + M + P
          /\ 33 + M + P <= cap /\ 2 - 1 = 1
      BY <1>1, <1>2, <1>14, <2>2, <2>3
    <3>. QED
      BY <1>11, <2>1, <3>1, Zenon DEF d2
  <2>6. Holds(3)
    <3>1. /\ 45 + M + P \in Nat /\ 33 + M + P \in Nat /\ (33 + M + P) + (0 + 12) <= 45 + M + P
          /\ 45 + M + P <= cap /\ 3 - 1 = 2
      BY <1>1, <1>2, <1>14, <2>2
    <3>. QED
      BY <1>6, <1>11, <2>1, <3>1, Zenon
  <2>7. Holds(4)
    <3>1. /\ 57 + M + P + A \in Nat /\ 45 + M + P \in Nat
          /\ (45 + M + P) + (A + 12) <= 57 + M + P + A
          /\ 57 + M + P + A <= cap /\ 4 - 1 = 3
      BY <1>1, <1>2, <1>14, <2>2
    <3>. QED
      BY <1>6, <1>11, <2>1, <3>1, ZenonT(40)
  <2>8. Holds(5)
    <3>1. /\ K \in Nat /\ 57 + M + P + A \in Nat /\ (57 + M + P + A) + (G + 12) <= K
          /\ K <= cap /\ 5 - 1 = 4
      BY <1>1, <1>2, <1>14, <2>2
    <3>. HIDE DEF K
    <3>. QED
      BY <1>6, <1>11, <1>13, <2>1, <3>1, Zenon
  <2>. QED
    BY <2>4, <2>5, <2>6, <2>7, <2>8
<1>16. ASSUME NEW k \in 1 .. n PROVE Holds(5 + k)
  <2>1. /\ k \in 0 .. n /\ k - 1 \in 0 .. n /\ 5 + (k - 1) = (5 + k) - 1
    BY <1>1
  <2>2. R[5 + k] = K + 5 * f(k) /\ R[(5 + k) - 1] = K + 5 * f(k - 1)
    <3>1. R[5 + k] = K + 5 * f(k) /\ R[5 + (k - 1)] = K + 5 * f(k - 1)
      BY <1>12, <2>1
    <3>. QED
      BY <2>1, <3>1, Zenon
  <2>3. /\ f(k - 1) \in Nat /\ f(k) \in Nat /\ f(k) <= W
        /\ 5 * f(k - 1) + QpackZapas(L[5 + k].dlina) <= 5 * f(k)
    BY <1>10
  <2>. DEFINE z == QpackZapas(L[5 + k].dlina)
  <2>4. z \in Nat
    <3>1. z = L[5 + k].dlina + 12
      BY DEF QpackZapas
    <3>2. L[5 + k].dlina = Len(r.headers[k][1]) + Len(r.headers[k][2])
      BY <1>6
    <3>3. Len(r.headers[k][1]) \in Nat /\ Len(r.headers[k][2]) \in Nat
      BY <1>1, HeaderLineIs
    <3>4. \A x, y \in Nat : (x + y) + 12 \in Nat
      OBVIOUS
    <3>. QED
      BY <3>1, <3>2, <3>3, <3>4, Zenon
  <2>. HIDE DEF K, z
  <2>5. \A a, b, c, x, w, top \in Nat : 5 * a + x <= 5 * b /\ b <= w /\ c + 5 * w <= top =>
          /\ c + 5 * b \in Nat /\ c + 5 * a \in Nat /\ (c + 5 * a) + x <= c + 5 * b /\ c + 5 * b <= top
    OBVIOUS
  <2>6. cap \in Nat
    BY <1>1, <1>2, <1>3
  <2>7. /\ K + 5 * f(k) \in Nat /\ K + 5 * f(k - 1) \in Nat /\ (K + 5 * f(k - 1)) + z <= K + 5 * f(k)
        /\ K + 5 * f(k) <= cap
    <3>. DEFINE a == f(k - 1)
                b == f(k)
    <3>1. a \in Nat /\ b \in Nat /\ b <= W /\ 5 * a + z <= 5 * b
      BY <2>3 DEF z
    <3>. HIDE DEF a, b
    <3>2. K + 5 * b \in Nat /\ K + 5 * a \in Nat /\ (K + 5 * a) + z <= K + 5 * b /\ K + 5 * b <= cap
      BY <1>2, <1>14, <2>4, <2>5, <2>6, <3>1
    <3>. QED
      BY <3>2 DEF a, b
  <2>. QED
    BY <2>2, <2>7, Zenon DEF z
<1>. HIDE DEF Holds
<1>17. \A i \in 1 .. Len(L) : Holds(i)
  <2>1. \A i \in 1 .. 5 + n : i \in {1, 2, 3, 4, 5} \/ (i - 5 \in 1 .. n /\ i = 5 + (i - 5))
    BY <1>1
  <2>2. \A i \in {1, 2, 3, 4, 5} : Holds(i)
    BY <1>15
  <2>. QED
    BY <1>7, <1>16, <2>1, <2>2, Zenon
<1>18. Room(R, L, cap)
  BY <1>11, <1>17, Zenon DEF Room, Holds
<1>. QED
  BY <1>18 DEF L, cap

\* A block of the first lines of a request is read as the first of the lines asked for.
LEMMA FirstLinesRead ==
  ASSUME NEW r \in SpeltRequests, r.url.secure, NEW k \in 0 .. Len(FieldLines(r))
  PROVE  /\ Served(<<0, 0>> \o FlattenSeq(BytesOf(FieldLines(r), k))) = SubSeq(Asked(r), 1, k)
         /\ Len(FieldLines(r)) = Len(Asked(r)) /\ Len(Asked(r)) \in Nat
         /\ SubSeq(Asked(r), 1, Len(Asked(r))) = Asked(r) /\ Len(SubSeq(Asked(r), 1, k)) = k
<1>. DEFINE L == FieldLines(r)
            A == Asked(r)
            n == Len(r.headers)
<1>1. n \in Nat /\ Fits(r)
  BY RequestParts
<1>2. L \in Seq(ReservedLine)
  BY <1>1, FieldLinesReserved
<1>3. Len(L) = 5 + n
  BY LinesAre
<1>4. Len(A) = 5 + n
  BY AskedAre, Zenon
<1>5. PICK S : A \in Seq(S)
  BY AskedAre, Zenon
<1>6. \A i \in 1 .. 5 + n : ReadsAs(L[i].bytes, A[i])
  BY RequestReads
<1>. HIDE DEF L, A, n
<1>7. 5 + n \in Nat /\ k \in Nat /\ k <= 5 + n
  BY <1>1, <1>3 DEF L
<1>. DEFINE s == BytesOf(L, k)
            fields == SubSeq(A, 1, k)
<1>8. \A i \in 1 .. 5 + n : L[i].bytes \in Bytes
  BY <1>2, <1>3 DEF ReservedLine
<1>9. s \in Seq(Bytes) /\ Len(s) = k /\ \A i \in 1 .. k : s[i] = L[i].bytes
  BY <1>7, <1>8 DEF BytesOf
<1>10. fields \in Seq(S) /\ Len(fields) = k /\ SubSeq(A, 1, Len(A)) = A
  BY <1>4, <1>5, <1>7, FirstOnes, ListGrows
<1>11. \A i \in 1 .. k : fields[i] = A[i]
  BY <1>4, <1>5, <1>7
<1>. HIDE DEF s, fields
<1>12. \A i \in 1 .. k : i \in 1 .. 5 + n
  BY <1>7
<1>13. \A i \in 1 .. Len(s) : ReadsAs(s[i], fields[i])
  BY <1>6, <1>9, <1>11, <1>12, Zenon
<1>14. Served(<<0, 0>> \o FlattenSeq(s)) = fields
  BY <1>9, <1>10, <1>13, FieldsRoundTrip
<1>15. Len(L) = Len(A) /\ Len(A) \in Nat
  BY <1>3, <1>4, <1>7
<1>. QED
  BY <1>10, <1>14, <1>15 DEF s, fields, L, A

\* The server reads from the header block exactly what the caller asked for.
LEMMA AskedServed ==
  ASSUME NEW r \in SpeltRequests, r.url.secure
  PROVE  Served(QpackEncodeRequestHeaders(HeaderRoom(r), FieldLines(r))) = Asked(r)
<1>. DEFINE L == FieldLines(r)
            A == Asked(r)
            cap == HeaderRoom(r)
<1>1. L \in Seq(ReservedLine) /\ Len(L) \in Nat
  BY SpeltFits, FieldLinesReserved
<1>2. PICK R : Room(R, L, cap)
  BY RoomForAll
<1>3. cap \in Nat /\ ~(cap < 2)
  <2>1. cap \in Nat
    BY SpeltFits, RequestTexts, Zenon
  <2>2. Len(L) = 5 + Len(r.headers) /\ Len(r.headers) \in Nat
    BY LinesAre, RequestParts
  <2>3. 1 \in 1 .. Len(L)
    BY <2>2
  <2>4. R[0] = 2 /\ R[1 - 1] + QpackZapas(L[1].dlina) <= R[1] /\ R[1] <= cap /\ R[1] \in Nat
    BY <1>2, <2>3, Zenon DEF Room
  <2>5. L[1].dlina \in Nat
    BY Reserves
  <2>. HIDE DEF L, cap
  <2>6. QpackZapas(L[1].dlina) \in Nat /\ 1 - 1 = 0
    BY <2>5 DEF QpackZapas
  <2>7. 2 + QpackZapas(L[1].dlina) <= R[1]
    BY <2>4, <2>6, Zenon
  <2>. QED
    BY <2>1, <2>4, <2>6, <2>7
<1>4. QpackEncodeRequestHeaders(cap, L) = <<0, 0>> \o FlattenSeq(BytesOf(L, Len(L)))
  <2>. HIDE DEF cap, L
  <2>. QED
    BY <1>1, <1>2, <1>3, EncoderWritesAll
<1>5. /\ Served(<<0, 0>> \o FlattenSeq(BytesOf(L, Len(L)))) = SubSeq(A, 1, Len(L))
      /\ Len(L) = Len(A) /\ SubSeq(A, 1, Len(A)) = A
  <2>1. Len(L) \in 0 .. Len(L)
    <3>. HIDE DEF L
    <3>. QED
      BY <1>1
  <2>. QED
    BY <2>1, FirstLinesRead
<1>. QED
  BY <1>4, <1>5, Zenon

\* With less room it reads the first of them.
LEMMA AskedBegun ==
  ASSUME NEW r \in SpeltRequests, r.url.secure, NEW cap \in Nat, ~(cap < 2)
  PROVE  LET block == QpackEncodeRequestHeaders(cap, FieldLines(r)) IN
         Len(block) <= cap /\ IsPrefix(Served(block), Asked(r))
<1>. DEFINE L == FieldLines(r)
            A == Asked(r)
            block == QpackEncodeRequestHeaders(cap, L)
<1>1. L \in Seq(ReservedLine) /\ Len(L) \in Nat
  BY SpeltFits, FieldLinesReserved
<1>2. PICK k \in 0 .. Len(L) : block = <<0, 0>> \o FlattenSeq(BytesOf(L, k))
  <2>. HIDE DEF L
  <2>. QED
    BY <1>1, EncoderWrites
<1>3. /\ Served(<<0, 0>> \o FlattenSeq(BytesOf(L, k))) = SubSeq(A, 1, k)
      /\ Len(L) = Len(A) /\ Len(SubSeq(A, 1, k)) = k
  BY FirstLinesRead
<1>4. Served(block) = SubSeq(A, 1, k)
  BY <1>2, <1>3, Zenon
<1>5. Len(block) <= cap
  BY <1>1, EncoderType
<1>. HIDE DEF L, A, block
<1>6. \E S : A \in Seq(S)
  BY AskedAre, Zenon DEF A
<1>7. SubSeq(SubSeq(A, 1, k), 1, k) = SubSeq(A, 1, k) /\ k <= Len(A)
  <2>1. k \in Nat /\ k <= Len(A)
    BY <1>1, <1>3
  <2>2. PICK S : A \in Seq(S)
    BY <1>6
  <2>. DEFINE b == SubSeq(A, 1, k)
  <2>3. b \in Seq(S) /\ Len(b) = k
    BY <2>1, <2>2, FirstOnes
  <2>. HIDE DEF b
  <2>4. SubSeq(b, 1, Len(b)) = b
    BY <2>3, ListGrows
  <2>5. SubSeq(b, 1, k) = b
    BY <2>3, <2>4, Zenon
  <2>. QED
    BY <2>1, <2>5 DEF b
<1>8. IsPrefix(Served(block), A)
  BY <1>3, <1>4, <1>7, Zenon DEF IsPrefix
<1>. QED
  BY <1>5, <1>8 DEF L, A, block

-----------------------------------------------------------------------------
(* The request as the server takes it. *)

\* What the server reads of a request that was sent: one frame of headers and, if there
\* is a body, one of data.
LEMMA SentRead ==
  ASSUME NEW r, Fits(r)
  PROVE  LET h == [type |-> HEADERS, payload |-> QpackEncodeRequestHeaders(HeaderRoom(r), FieldLines(r))]
             d == [type |-> DATA, payload |-> r.body]
         IN Frames(FlattenSeq(SendBuf(r))) = IF r.body = <<>> THEN <<h>> ELSE <<h, d>>
<1>. DEFINE block == QpackEncodeRequestHeaders(HeaderRoom(r), FieldLines(r))
            head == WriteHttp3Frame(HEADERS, block)
            tail == WriteHttp3Frame(DATA, r.body)
            data == IF r.body = <<>> THEN <<>> ELSE tail
            h == [type |-> HEADERS, payload |-> block]
            d == [type |-> DATA, payload |-> r.body]
<1>1. FlattenSeq(SendBuf(r)) = head \o data
  BY SentIs
<1>2. /\ block \in Bytes /\ Len(block) < VarintEnd /\ r.body \in Bytes /\ Len(r.body) < VarintEnd
      /\ HEADERS \in Nat /\ HEADERS < VarintEnd /\ DATA \in Nat /\ DATA < VarintEnd
  BY SentFits
<1>. HIDE DEF block
<1>3. Frames(head) = <<h>> /\ Frames(head \o tail) = <<h, d>>
  BY <1>2, FramesOfTwo
<1>4. head \o <<>> = head
  <2>1. head \in Bytes
    BY <1>2, FrameType
  <2>. HIDE DEF head
  <2>. QED
    BY <2>1 DEF Bytes
<1>. HIDE DEF head, tail, h, d
<1>5. Frames(FlattenSeq(SendBuf(r))) = IF r.body = <<>> THEN <<h>> ELSE <<h, d>>
  <2>1. CASE r.body = <<>>
    <3>1. data = <<>>
      BY <2>1, Zenon
    <3>. QED
      BY <1>1, <1>3, <1>4, <2>1, <3>1, Zenon
  <2>2. CASE r.body # <<>>
    <3>1. data = tail
      BY <2>2, Zenon
    <3>. QED
      BY <1>1, <1>3, <2>2, <3>1, Zenon
  <2>. QED
    BY <2>1, <2>2
<1>. QED
  BY <1>5, Zenon DEF h, d, block

\* The buffers of a request, once they are handed over, stay those of the request, and it is
\* one of a caller with an https URL.
RequestInv ==
  /\ request = Unset => sent = <<>>
  /\ sent # <<>> => /\ request \in WireRequests /\ request.url.secure
                    /\ sent = SendBuf(AsyncRequestContext(request))

\* It holds when the stream is opened.
LEMMA RequestInvInit == WireInit => RequestInv
BY DEF WireInit, RequestInv

\* Every step keeps it: only Http3OtpravitZapros writes the request, and writes it once.
LEMMA RequestInvStep == RequestInv /\ [WireNext]_wireVars => RequestInv'
<1>. SUFFICES ASSUME RequestInv, [WireNext]_wireVars PROVE RequestInv'
  OBVIOUS
<1>1. CASE \E r \in WireRequests : Http3OtpravitZapros(r)
  <2>. PICK r \in WireRequests : Http3OtpravitZapros(r)
    BY <1>1
  <2>. QED
    BY WireAssumption DEF Http3OtpravitZapros, RequestInv
<1>2. CASE Answer
  BY <1>2 DEF Answer, RequestInv
<1>3. CASE \E n \in Chunk, fin \in BOOLEAN : Receive(n, fin)
  BY <1>3 DEF Receive, RequestInv
<1>4. CASE PeerSendShutdown
  BY <1>4 DEF PeerSendShutdown, RequestInv
<1>5. CASE StreamShutdown
  BY <1>5 DEF StreamShutdown, RequestInv
<1>6. CASE ConnectionShutdown
  BY <1>6 DEF ConnectionShutdown, RequestInv
<1>7. CASE \E r \in WireRequests : NothingSent(r)
  BY <1>7 DEF NothingSent, RequestInv
<1>8. CASE UNCHANGED wireVars
  BY <1>8 DEF wireVars, RequestInv
<1>. QED
  BY <1>1, <1>2, <1>3, <1>4, <1>5, <1>6, <1>7, <1>8 DEF WireNext

\* RequestDelivered in every state, for any requests: of a well spelt one the server reads
\* from what was sent the lines the caller asked for, all of them, and the body.
THEOREM RequestsDelivered == WireSpec => []RequestDelivered
<1>1. RequestInv => RequestDelivered
  <2>. SUFFICES ASSUME RequestInv, sent # <<>>, WellSpelt(request) PROVE RequestDelivered
    BY DEF RequestDelivered
  <2>. DEFINE block == QpackEncodeRequestHeaders(HeaderRoom(request), FieldLines(request))
              h == [type |-> HEADERS, payload |-> block]
              d == [type |-> DATA, payload |-> request.body]
              frames == Frames(FlattenSeq(sent))
  <2>1. /\ request \in SpeltRequests /\ request.url.secure /\ sent = SendBuf(request)
        /\ Fits(request)
    BY SpeltFits DEF RequestInv, SpeltRequests
  <2>2. frames = IF request.body = <<>> THEN <<h>> ELSE <<h, d>>
    BY <2>1, SentRead, Zenon
  <2>3. Served(block) = Asked(request)
    BY <2>1, AskedServed
  <2>4. h.type = HEADERS /\ h.payload = block
    OBVIOUS
  <2>. HIDE DEF h, d, block, frames
  <2>5. CASE request.body = <<>>
    <3>1. frames = <<h>>
      BY <2>2, <2>5, Zenon
    <3>2. Len(frames) = 1 /\ frames[1] = h
      BY <3>1
    <3>. QED
      BY <2>3, <2>4, <2>5, <3>2, Zenon DEF RequestDelivered, frames
  <2>6. CASE request.body # <<>>
    <3>1. frames = <<h, d>>
      BY <2>2, <2>6, Zenon
    <3>2. Len(frames) = 2 /\ frames[1] = h /\ frames[2] = d
      BY <3>1
    <3>. QED
      BY <2>3, <2>4, <2>6, <3>2, Zenon DEF RequestDelivered, frames, d
  <2>. QED
    BY <2>5, <2>6
<1>. QED
  BY <1>1, RequestInvInit, RequestInvStep, PTL DEF WireSpec

\* EncoderKeepsRoom in every state: with whatever room the encoder stays inside it, and of
\* a well spelt request it writes the first lines, each of them whole.
THEOREM RoomKept == WireSpec => []EncoderKeepsRoom
<1>1. RequestInv => EncoderKeepsRoom
  <2>. SUFFICES ASSUME RequestInv, sent # <<>>,
                       NEW cap \in 2 .. HeaderRoom(AsyncRequestContext(request))
                PROVE  LET block == QpackEncodeRequestHeaders(cap, FieldLines(AsyncRequestContext(request))) IN
                       Len(block) <= cap /\ (WellSpelt(request) => IsPrefix(Served(block), Asked(request)))
    BY Zenon DEF EncoderKeepsRoom
  <2>. DEFINE q == AsyncRequestContext(request)
              block == QpackEncodeRequestHeaders(cap, FieldLines(q))
  <2>1. request \in WireRequests /\ request.url.secure /\ Fits(q)
    BY RequestFits DEF RequestInv
  <2>2. HeaderRoom(q) \in Nat
    BY <2>1, RequestTexts, Zenon
  <2>3. cap \in Nat /\ ~(cap < 2)
    BY <2>2
  <2>4. Len(block) <= cap
    BY <2>1, <2>3, EncoderFits
  <2>5. ASSUME WellSpelt(request) PROVE IsPrefix(Served(block), Asked(request))
    <3>1. request \in SpeltRequests /\ q = request
      BY <2>1, <2>5, SpeltFits DEF SpeltRequests
    <3>. HIDE DEF q
    <3>2. IsPrefix(Served(QpackEncodeRequestHeaders(cap, FieldLines(request))), Asked(request))
      BY <2>1, <2>3, <3>1, AskedBegun
    <3>. QED
      BY <3>1, <3>2, Zenon
  <2>. QED
    BY <2>4, <2>5
<1>. QED
  BY <1>1, RequestInvInit, RequestInvStep, PTL DEF WireSpec
=============================================================================
