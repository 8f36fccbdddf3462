--------------------------- MODULE SequenceLemmas ---------------------------
(***************************************************************************)
(* Facts about the operators of the community modules that the proofs of   *)
(* this project need: the least element of a set of numbers, flattening    *)
(* and prefixes.  FlattenSeq is a recursive function, whose facts hold by  *)
(* induction; each is proved from the least number for which it would      *)
(* fail.                                                                   *)
(***************************************************************************)
EXTENDS SequencesExt, Integers, SequenceTheorems, WellFoundedInduction, TLAPS

(* A set of natural numbers that is not empty has a least element.         *)
LEMMA LeastNumber ==
  ASSUME NEW S \in SUBSET Nat, S # {}
  PROVE  \E x \in S : \A y \in S : x <= y
<1>1. PICK x \in S : \A y \in S : ~(<<y, x>> \in OpToRel(<, Nat))
  BY NatLessThanWellFounded, WFMin
<1>2. \A y \in S : x <= y
  <2> SUFFICES ASSUME NEW y \in S PROVE x <= y
    OBVIOUS
  <2>1. ~(y < x)
    BY <1>1 DEF OpToRel
  <2> QED
    BY <2>1
<1> QED
  BY <1>2

(* Min picks that element.                                                 *)
LEMMA MinIsLeast ==
  ASSUME NEW S \in SUBSET Nat, S # {}
  PROVE  Min(S) \in S /\ \A y \in S : Min(S) <= y
BY LeastNumber DEF Min

(* How FlattenSeq goes through a sequence of sequences.                    *)
Flattens(f, seqs) ==
  f = [i \in 1 .. Len(seqs) |-> IF i = 1 THEN seqs[i] ELSE f[i - 1] \o seqs[i]]

(* One step of the definition.                                             *)
LEMMA FlattensAt ==
  ASSUME NEW f, NEW seqs, Flattens(f, seqs), NEW i \in 1 .. Len(seqs)
  PROVE  f[i] = IF i = 1 THEN seqs[i] ELSE f[i - 1] \o seqs[i]
BY DEF Flattens

(* Every sequence of sequences has partial concatenations.                 *)
LEMMA FlattensExists ==
  ASSUME NEW X, NEW seqs \in Seq(Seq(X))
  PROVE  \E f : Flattens(f, seqs)
<1> DEFINE Upto(f, n) == f = [i \in 1 .. n |-> IF i = 1 THEN seqs[i] ELSE f[i - 1] \o seqs[i]]
           Bad == {n \in Nat : ~ \E f : Upto(f, n)}
<1>1. Bad = {}
  <2> SUFFICES ASSUME Bad # {} PROVE FALSE
    OBVIOUS
  <2>1. PICK n \in Bad : \A m \in Bad : n <= m
    BY LeastNumber
  <2>2. Upto([i \in 1 .. 0 |-> 0], 0)
    OBVIOUS
  <2>3. n # 0
    BY <2>2
  <2>4. n - 1 \in Nat /\ n - 1 \notin Bad
    <3>1. n \in Nat
      OBVIOUS
    <3> HIDE DEF Bad
    <3>2. n - 1 \in Nat /\ ~(n <= n - 1)
      BY <3>1, <2>3
    <3> QED
      BY <2>1, <3>2
  <2>5. PICK f : Upto(f, n - 1)
    BY <2>4
  <2> DEFINE g == [i \in 1 .. n |-> IF i < n THEN f[i]
                                    ELSE IF i = 1 THEN seqs[i] ELSE f[i - 1] \o seqs[i]]
  <2>6. ASSUME NEW i \in 1 .. n
        PROVE  g[i] = IF i = 1 THEN seqs[i] ELSE g[i - 1] \o seqs[i]
    <3>1. i # 1 => g[i - 1] = f[i - 1]
      BY <2>3
    <3>2. CASE i < n
      <4>1. f[i] = IF i = 1 THEN seqs[i] ELSE f[i - 1] \o seqs[i]
        BY <2>5, <3>2, i \in 1 .. n - 1
      <4> QED
        BY <4>1, <3>1, <3>2
    <3>3. CASE i = n
      BY <3>1, <3>3
    <3> QED
      BY <3>2, <3>3
  <2>7. Upto(g, n)
    <3> DEFINE h == [i \in 1 .. n |-> IF i = 1 THEN seqs[i] ELSE g[i - 1] \o seqs[i]]
    <3>1. \A i \in 1 .. n : g[i] = h[i]
      BY <2>6
    <3>2. g = h
      BY <3>1
    <3> QED
      BY <3>2
  <2> QED
    BY <2>7
<1>2. Len(seqs) \in Nat
  OBVIOUS
<1>3. \E f : Upto(f, Len(seqs))
  BY <1>1, <1>2
<1> QED
  BY <1>3 DEF Flattens

(* FlattenSeq is the last of them.                                         *)
LEMMA FlattenSeqIs ==
  ASSUME NEW X, NEW seqs \in Seq(Seq(X)), Len(seqs) # 0
  PROVE  \E f : Flattens(f, seqs) /\ FlattenSeq(seqs) = f[Len(seqs)]
<1> DEFINE f == CHOOSE f : Flattens(f, seqs)
<1>1. Flattens(f, seqs)
  BY FlattensExists
<1>3. FlattenSeq(seqs) = f[Len(seqs)]
  BY DEF FlattenSeq, Flattens
<1> QED
  BY <1>1, <1>3

Continues(more, seqs) ==
  Len(seqs) <= Len(more) /\ \A i \in 1 .. Len(seqs) : more[i] = seqs[i]

(* They depend only on the sequences before them, and are sequences.       *)
LEMMA FlattensUnique ==
  ASSUME NEW X, NEW seqs \in Seq(Seq(X)), NEW more \in Seq(Seq(X)), Continues(more, seqs),
         NEW f, NEW g, Flattens(f, seqs), Flattens(g, more)
  PROVE  \A i \in 1 .. Len(seqs) : f[i] \in Seq(X) /\ g[i] = f[i]
<1> DEFINE Bad == {i \in Nat : i \in 1 .. Len(seqs) /\ ~(f[i] \in Seq(X) /\ g[i] = f[i])}
<1> SUFFICES ASSUME Bad # {} PROVE FALSE
  <2>1. ASSUME NEW i \in 1 .. Len(seqs), Bad = {}
        PROVE  f[i] \in Seq(X) /\ g[i] = f[i]
    <3>1. i \in Nat
      OBVIOUS
    <3>2. i \notin Bad
      <4> HIDE DEF Bad
      <4> QED
        BY <2>1
    <3> QED
      BY <3>1, <3>2
  <2> QED
    BY <2>1
<1>1. PICK n \in Bad : \A m \in Bad : n <= m
  BY LeastNumber
<1>2. /\ n \in 1 .. Len(seqs) /\ n \in 1 .. Len(more) /\ more[n] = seqs[n]
      /\ seqs[n] \in Seq(X)
  BY DEF Continues
<1>3. /\ f[n] = IF n = 1 THEN seqs[n] ELSE f[n - 1] \o seqs[n]
      /\ g[n] = IF n = 1 THEN more[n] ELSE g[n - 1] \o more[n]
  BY <1>2, FlattensAt
<1>4. CASE n = 1
  BY <1>2, <1>3, <1>4
<1>5. CASE n # 1
  <2>1. f[n - 1] \in Seq(X) /\ g[n - 1] = f[n - 1]
    BY <1>1, <1>2, <1>5
  <2>2. f[n - 1] \o seqs[n] \in Seq(X)
    BY <2>1, <1>2, ConcatProperties
  <2> QED
    BY <1>2, <1>3, <2>1, <2>2, <1>5
<1> QED
  BY <1>4, <1>5

(* Nothing flattens to nothing.                                            *)
LEMMA FlattenEmpty == FlattenSeq(<<>>) = <<>>
BY DEF FlattenSeq

(* One more sequence is appended to what the ones before it flatten to.    *)
LEMMA FlattenStep ==
  ASSUME NEW X, NEW seqs \in Seq(Seq(X)), NEW more \in Seq(Seq(X)),
         NEW m \in Nat, m = Len(more), m = Len(seqs) + 1,
         \A i \in 1 .. Len(seqs) : more[i] = seqs[i]
  PROVE  /\ FlattenSeq(seqs) \in Seq(X)
         /\ FlattenSeq(more) = FlattenSeq(seqs) \o more[m]
         /\ FlattenSeq(more) \in Seq(X)
<1>1. /\ m \in 1 .. Len(more) /\ Len(seqs) \in Nat /\ Len(seqs) <= Len(more)
      /\ m - 1 = Len(seqs) /\ Len(more) # 0 /\ more[m] \in Seq(X)
  <2>1. Len(seqs) \in Nat
    OBVIOUS
  <2>2. m \in 1 .. Len(more) /\ Len(seqs) <= Len(more) /\ m - 1 = Len(seqs)
    BY <2>1
  <2>3. Len(more) # 0
    BY <2>2
  <2>4. more[m] \in Seq(X)
    BY <2>2, ElementOfSeq
  <2> QED
    BY <2>1, <2>2, <2>3, <2>4
<1>2. PICK g : Flattens(g, more) /\ FlattenSeq(more) = g[Len(more)]
  BY <1>1, FlattenSeqIs
<1>3. g[m] = IF m = 1 THEN more[m] ELSE g[m - 1] \o more[m]
  <2>1. m \in 1 .. Len(more)
    BY <1>1
  <2>2. Flattens(g, more)
    BY <1>2
  <2> QED
    BY ONLY <2>1, <2>2, FlattensAt
<1>4. CASE Len(seqs) = 0
  <2>1. m = 1 /\ g[m] = more[m]
    BY <1>3, <1>4
  <2>2. FlattenSeq(seqs) = <<>>
    <3>1. seqs = <<>>
      BY <1>4, EmptySeq
    <3> QED
      BY <3>1, FlattenEmpty
  <2>3. <<>> \o more[m] = more[m] /\ <<>> \in Seq(X)
    BY <1>1, ConcatEmptySeq
  <2> QED
    BY <1>1, <1>2, <2>1, <2>2, <2>3
<1>5. CASE Len(seqs) # 0
  <2>1. m # 1 /\ m - 1 \in 1 .. Len(seqs)
    BY <1>5, <1>1
  <2>2. PICK f : Flattens(f, seqs) /\ FlattenSeq(seqs) = f[Len(seqs)]
    BY <1>5, FlattenSeqIs
  <2>3. \A i \in 1 .. Len(seqs) : f[i] \in Seq(X) /\ g[i] = f[i]
    <3>1. Flattens(f, seqs)
      BY <2>2
    <3>2. Flattens(g, more)
      BY <1>2
    <3>3. Continues(more, seqs)
      BY <1>1 DEF Continues
    <3> QED
      BY <3>1, <3>2, <3>3, FlattensUnique
  <2>4. g[m] = f[m - 1] \o more[m] /\ f[m - 1] \in Seq(X)
    BY <1>3, <2>1, <2>3
  <2>5. f[m - 1] \o more[m] \in Seq(X)
    BY <2>4, <1>1, ConcatProperties
  <2> QED
    BY <1>1, <1>2, <2>2, <2>4, <2>5
<1> QED
  BY <1>4, <1>5

(* A further sequence is flattened behind the ones before it.              *)
LEMMA FlattenAppend ==
  ASSUME NEW X, NEW seqs \in Seq(Seq(X)), NEW x \in Seq(X)
  PROVE  /\ FlattenSeq(seqs) \in Seq(X)
         /\ FlattenSeq(Append(seqs, x)) = FlattenSeq(seqs) \o x
         /\ FlattenSeq(Append(seqs, x)) \in Seq(X)
<1>1. /\ Append(seqs, x) \in Seq(Seq(X))
      /\ Len(Append(seqs, x)) = Len(seqs) + 1 /\ Len(seqs) \in Nat
      /\ \A i \in 1 .. Len(seqs) : Append(seqs, x)[i] = seqs[i]
      /\ Append(seqs, x)[Len(seqs) + 1] = x
  BY AppendProperties
<1>2. /\ FlattenSeq(Append(seqs, x)) = FlattenSeq(seqs) \o Append(seqs, x)[Len(seqs) + 1]
      /\ FlattenSeq(seqs) \in Seq(X) /\ FlattenSeq(Append(seqs, x)) \in Seq(X)
  <2>1. Len(seqs) + 1 \in Nat
    BY <1>1
  <2> QED
    BY <1>1, <2>1, FlattenStep
<1> QED
  BY <1>1, <1>2

(* The same for the sequences f[1], ..., f[m + 1].                         *)
LEMMA FlattenFront ==
  ASSUME NEW X, NEW m \in Nat, NEW f \in [1 .. m + 1 -> Seq(X)],
         NEW front, front = [n \in 1 .. m |-> f[n]]
  PROVE  /\ FlattenSeq(front) \in Seq(X)
         /\ FlattenSeq(f) = FlattenSeq(front) \o f[m + 1]
         /\ FlattenSeq(f) \in Seq(X)
<1>1. m + 1 \in Nat /\ \A n \in 1 .. m : n \in 1 .. m + 1
  OBVIOUS
<1>2. f \in Seq(Seq(X)) /\ Len(f) = m + 1
  BY <1>1
<1>3. front \in Seq(Seq(X)) /\ Len(front) = m
  <2>1. front \in [1 .. m -> Seq(X)]
    BY <1>1
  <2> QED
    BY <2>1
<1>4. \A n \in 1 .. Len(front) : f[n] = front[n]
  BY <1>3
<1> QED
  BY <1>1, <1>2, <1>3, <1>4, FlattenStep

(* Concatenation is associative, in a form that names both halves.         *)
LEMMA Associates ==
  ASSUME NEW S, NEW a \in Seq(S), NEW b \in Seq(S), NEW c \in Seq(S),
         NEW l, l = a \o b, NEW r, r = b \o c
  PROVE  l \o c = a \o r
<1>1. /\ l \in Seq(S) /\ Len(l) = Len(a) + Len(b)
      /\ \A i \in 1 .. Len(a) + Len(b) : l[i] = IF i <= Len(a) THEN a[i] ELSE b[i - Len(a)]
  BY ConcatProperties
<1>2. /\ r \in Seq(S) /\ Len(r) = Len(b) + Len(c)
      /\ \A i \in 1 .. Len(b) + Len(c) : r[i] = IF i <= Len(b) THEN b[i] ELSE c[i - Len(b)]
  BY ConcatProperties
<1> SUFFICES ASSUME NEW x, x = l \o c, NEW y, y = a \o r PROVE x = y
  OBVIOUS
<1>3. /\ x \in Seq(S) /\ Len(x) = Len(l) + Len(c)
      /\ \A i \in 1 .. Len(l) + Len(c) : x[i] = IF i <= Len(l) THEN l[i] ELSE c[i - Len(l)]
  BY <1>1, ConcatProperties
<1>4. /\ y \in Seq(S) /\ Len(y) = Len(a) + Len(r)
      /\ \A i \in 1 .. Len(a) + Len(r) : y[i] = IF i <= Len(a) THEN a[i] ELSE r[i - Len(a)]
  BY <1>2, ConcatProperties
<1>5. Len(a) \in Nat /\ Len(b) \in Nat /\ Len(c) \in Nat
  OBVIOUS
<1>6. Len(x) = Len(y)
  BY ONLY <1>1, <1>2, <1>3, <1>4, <1>5
<1>7. ASSUME NEW i \in 1 .. Len(x) PROVE x[i] = y[i]
  <2>1. CASE i <= Len(a)
    <3>1. i \in 1 .. Len(l) + Len(c) /\ i \in 1 .. Len(a) + Len(r) /\ i \in 1 .. Len(a) + Len(b)
          /\ i <= Len(l)
      BY ONLY <1>7, <2>1, <1>1, <1>2, <1>3, <1>5
    <3> QED
      BY ONLY <3>1, <2>1, <1>1, <1>3, <1>4
  <2>2. CASE ~(i <= Len(a)) /\ i <= Len(a) + Len(b)
    <3>1. i \in 1 .. Len(l) + Len(c) /\ i \in 1 .. Len(a) + Len(r) /\ i \in 1 .. Len(a) + Len(b)
          /\ i <= Len(l)
          /\ i - Len(a) \in 1 .. Len(b) + Len(c) /\ i - Len(a) <= Len(b)
      BY ONLY <1>7, <2>2, <1>1, <1>2, <1>3, <1>5
    <3> QED
      BY ONLY <3>1, <2>2, <1>1, <1>2, <1>3, <1>4
  <2>3. CASE ~(i <= Len(a) + Len(b))
    <3>1. i \in 1 .. Len(l) + Len(c) /\ i \in 1 .. Len(a) + Len(r)
          /\ ~(i <= Len(l)) /\ ~(i <= Len(a))
          /\ i - Len(a) \in 1 .. Len(b) + Len(c) /\ ~(i - Len(a) <= Len(b))
          /\ i - Len(l) = i - Len(a) - Len(b)
      BY ONLY <1>7, <2>3, <1>1, <1>2, <1>3, <1>5
    <3> QED
      BY ONLY <3>1, <1>2, <1>3, <1>4
  <2>4. i \in Int
    BY ONLY <1>7, <1>1, <1>3, <1>5
  <2> QED
    BY ONLY <2>1, <2>2, <2>3, <2>4
<1> QED
  BY ONLY <1>3, <1>4, <1>6, <1>7, SeqEqual
=============================================================================
