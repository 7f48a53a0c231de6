--------------------------- MODULE SequenceLemmas ---------------------------
(***************************************************************************)
(* Two things the libraries' theorems leave open.  What is computed along  *)
(* a sequence, one element at a time: induction up to a number, for a set, *)
(* and that a recursive function exists, for a step that is a function,    *)
(* so that the provers can use both.  What happens to a waiting line: a    *)
(* sequence in which everybody stands at most once, joined at its end,     *)
(* left at its head or anywhere.  The semaphore and the lock of            *)
(* python_slots.py and the gate of download_async in engine.py are lines.  *)
(***************************************************************************)
EXTENDS SequencesExt, Integers, SequenceTheorems, FunctionTheorems, FiniteSetTheorems,
        WellFoundedInduction, TLAPS

\* A set of naturals that is not empty has a least member.
LEMMA HasLeast ==
  ASSUME NEW T, T \subseteq Nat, T # {}
  PROVE  \E x \in T : \A y \in T : x <= y
  <1>. DEFINE R == OpToRel(<, Nat)
  <1>1. IsWellFoundedOn(R, Nat)
    BY NatLessThanWellFounded
  <1>. HIDE DEF R
  <1>2. \E x \in T : \A y \in T : ~ (<<y, x>> \in R)
    BY <1>1, WFMin
  <1>3. \A x, y \in T : <<y, x>> \notin R => x <= y
    BY DEF R, OpToRel
  <1>. QED
    BY <1>2, <1>3

\* What holds of 0, and of each number up to n if of the one before, holds up to n.
LEMMA UpTo ==
  ASSUME NEW n \in Int, NEW T, 0 \in T \/ n < 0, \A i \in 1 .. n : i - 1 \in T => i \in T
  PROVE  \A i \in 0 .. n : i \in T
  <1>. SUFFICES ASSUME (0 .. n) \ T # {} PROVE FALSE
    OBVIOUS
  <1>1. (0 .. n) \ T \subseteq Nat
    OBVIOUS
  <1>2. PICK x \in (0 .. n) \ T : \A y \in (0 .. n) \ T : x <= y
    BY <1>1, HasLeast
  <1>3. x \in 1 .. n /\ x - 1 \in 0 .. n /\ ~(x <= x - 1)
    BY <1>2
  <1>. QED
    BY <1>2, <1>3

\* A function is defined along 0 .. n by its first value and a step.
Along(f, n, base, step) == f[0] = base /\ \A i \in 1 .. n : f[i] = step[<<i, f[i - 1]>>]

LEMMA Recursion ==
  ASSUME NEW n \in Nat, NEW D, NEW base \in D, NEW step \in [(1 .. n) \X D -> D]
  PROVE  \E f \in [0 .. n -> D] : Along(f, n, base, step)
  <1>. USE DEF Along
  <1>. DEFINE T == {m \in 0 .. n : \E f \in [0 .. m -> D] : Along(f, m, base, step)}
  <1>1. 0 \in T
    <2>. DEFINE f == [i \in 0 .. 0 |-> base]
    <2>1. f \in [0 .. 0 -> D] /\ Along(f, 0, base, step) /\ 0 \in 0 .. n
      OBVIOUS
    <2>. QED
      BY <2>1
  <1>2. ASSUME NEW m \in 1 .. n, m - 1 \in T PROVE m \in T
    <2>1. PICK f \in [0 .. m - 1 -> D] : Along(f, m - 1, base, step)
      BY <1>2
    <2>. DEFINE g == [i \in 0 .. m |-> IF i = m THEN step[<<m, f[m - 1]>>] ELSE f[i]]
    <2>2. m - 1 \in 0 .. m - 1 /\ f[m - 1] \in D /\ step[<<m, f[m - 1]>>] \in D
      OBVIOUS
    <2>3. g \in [0 .. m -> D] /\ g[0] = f[0]
      BY <2>2
    <2>4. \A i \in 1 .. m : i \in 0 .. m /\ i - 1 \in 0 .. m - 1 /\ i - 1 \in 0 .. m /\ i - 1 # m
                            /\ (i # m => i \in 1 .. m - 1 /\ i \in 0 .. m - 1)
      OBVIOUS
    <2>5. /\ \A i \in 1 .. m : g[i - 1] = f[i - 1] /\ (i # m => g[i] = f[i])
          /\ g[m] = step[<<m, f[m - 1]>>]
      BY <2>4
    <2>. HIDE DEF g
    <2>6. \A i \in 1 .. m : g[i] = step[<<i, g[i - 1]>>]
      BY <2>1, <2>4, <2>5
    <2>7. Along(g, m, base, step)
      BY <2>1, <2>3, <2>6
    <2>. QED
      BY <2>3, <2>7
  <1>3. n \in T
    <2>. HIDE DEF T
    <2>1. \A i \in 0 .. n : i \in T
      BY <1>1, <1>2, UpTo
    <2>. QED
      BY <2>1
  <1>. QED
    BY <1>3

LEMMA SetOfAppended ==
  ASSUME NEW S, NEW s \in Seq(S), NEW x \in S
  PROVE  /\ Append(s, x) \in Seq(S) /\ ToSet(Append(s, x)) = ToSet(s) \cup {x}
         /\ ToSet(s) \in SUBSET S /\ Len(s) \in Nat
  <1>1. /\ Len(s) \in Nat /\ Append(s, x) \in Seq(S) /\ Len(Append(s, x)) = Len(s) + 1
        /\ DOMAIN s = 1 .. Len(s) /\ DOMAIN Append(s, x) = 1 .. Len(Append(s, x))
        /\ \A i \in 1 .. Len(s) : Append(s, x)[i] = s[i]
        /\ Append(s, x)[Len(s) + 1] = x
    BY AppendProperties, LenProperties
  <1>2. \A i : i \in 1 .. Len(s) + 1 <=> i \in 1 .. Len(s) \/ i = Len(s) + 1
    BY <1>1
  <1>3. \A i \in 1 .. Len(s) : s[i] \in S
    BY <1>1, ElementOfSeq
  <1>. QED
    BY <1>1, <1>2, <1>3 DEF ToSet

LEMMA SetOfJoined ==
  ASSUME NEW S, NEW s \in Seq(S), NEW t \in Seq(S)
  PROVE  s \o t \in Seq(S) /\ ToSet(s \o t) = ToSet(s) \cup ToSet(t)
  <1>1. /\ Len(s) \in Nat /\ Len(t) \in Nat /\ s \o t \in Seq(S)
        /\ DOMAIN s = 1 .. Len(s) /\ DOMAIN t = 1 .. Len(t)
        /\ DOMAIN (s \o t) = 1 .. Len(s) + Len(t)
        /\ \A i \in 1 .. Len(s) + Len(t) :
              (s \o t)[i] = IF i <= Len(s) THEN s[i] ELSE t[i - Len(s)]
    BY ConcatProperties, LenProperties
  <1>2. \A i \in 1 .. Len(s) : i \in 1 .. Len(s) + Len(t) /\ i <= Len(s)
    BY <1>1
  <1>3. \A i \in 1 .. Len(t) : /\ i + Len(s) \in 1 .. Len(s) + Len(t) /\ ~(i + Len(s) <= Len(s))
                               /\ (i + Len(s)) - Len(s) = i
    BY <1>1
  <1>4. \A i \in 1 .. Len(s) + Len(t) : i \in 1 .. Len(s) \/ i - Len(s) \in 1 .. Len(t)
    BY <1>1
  <1>5. ToSet(s) \subseteq ToSet(s \o t)
    BY <1>1, <1>2 DEF ToSet
  <1>6. ToSet(t) \subseteq ToSet(s \o t)
    <2>1. \A i \in 1 .. Len(t) : (s \o t)[i + Len(s)] = t[i]
      BY <1>1, <1>3
    <2>. QED
      BY <1>1, <1>3, <2>1 DEF ToSet
  <1>7. \A i \in 1 .. Len(s) + Len(t) : (s \o t)[i] \in ToSet(s) \cup ToSet(t)
    <2>1. ASSUME NEW i \in 1 .. Len(s) + Len(t) PROVE (s \o t)[i] \in ToSet(s) \cup ToSet(t)
      <3>1. CASE i <= Len(s)
        BY <1>1, <3>1 DEF ToSet
      <3>2. CASE ~(i <= Len(s))
        <4>1. i - Len(s) \in 1 .. Len(t)
          BY <1>1, <3>2
        <4>. QED
          BY <1>1, <3>2, <4>1 DEF ToSet
      <3>. QED
        BY <3>1, <3>2
    <2>. QED
      BY <2>1
  <1>8. ToSet(s \o t) \subseteq ToSet(s) \cup ToSet(t)
    BY <1>1, <1>7 DEF ToSet
  <1>. QED
    BY <1>1, <1>5, <1>6, <1>8

-----------------------------------------------------------------------------
(* Lines. *)

LEMMA LineIs ==
  ASSUME NEW Who, NEW s \in Seq(Who)
  PROVE  /\ Len(s) \in Nat /\ DOMAIN s = 1 .. Len(s)
         /\ ToSet(s) = {s[i] : i \in 1 .. Len(s)}
         /\ ToSet(s) \in SUBSET Who
         /\ IsInjective(s) <=> \A i, j \in 1 .. Len(s) : s[i] = s[j] => i = j
         /\ \A t : Contains(s, t) <=> t \in ToSet(s)
         /\ s = <<>> <=> Len(s) = 0
         /\ s = <<>> <=> ToSet(s) = {}
         /\ s # <<>> => Head(s) = s[1] /\ Head(s) \in ToSet(s)
  <1>1. Len(s) \in Nat /\ DOMAIN s = 1 .. Len(s)
    BY LenProperties
  <1>2. ToSet(s) = {s[i] : i \in 1 .. Len(s)} /\ ToSet(s) \in SUBSET Who
    BY <1>1, ElementOfSeq DEF ToSet
  <1>3. IsInjective(s) <=> \A i, j \in 1 .. Len(s) : s[i] = s[j] => i = j
    BY <1>1 DEF IsInjective
  <1>4. \A t : Contains(s, t) <=> t \in ToSet(s)
    BY <1>2 DEF Contains
  <1>5. s = <<>> <=> Len(s) = 0
    BY EmptySeq
  <1>6. s # <<>> => Head(s) = s[1] /\ s[1] \in ToSet(s)
    <2>1. s # <<>> => 1 \in 1 .. Len(s)
      BY <1>1, <1>5
    <2>. QED
      BY <2>1, <1>2
  <1>7. s = <<>> => ToSet(s) = {}
    BY <1>1, <1>2, <1>5
  <1>. QED
    BY <1>1, <1>2, <1>3, <1>4, <1>5, <1>6, <1>7

LEMMA LineGrows ==
  ASSUME NEW Who, NEW s \in Seq(Who), NEW t \in Who, IsInjective(s), t \notin ToSet(s)
  PROVE  LET a == Append(s, t)
         IN  /\ a \in Seq(Who) /\ a # <<>> /\ Len(a) = Len(s) + 1
             /\ IsInjective(a) /\ ToSet(a) = ToSet(s) \cup {t}
             /\ Head(a) = IF s = <<>> THEN t ELSE Head(s)
  <1>. DEFINE a == Append(s, t)
  <1>1. /\ a \in Seq(Who) /\ a # <<>> /\ Len(a) = Len(s) + 1
        /\ \A i \in 1 .. Len(s) : a[i] = s[i]
        /\ a[Len(s) + 1] = t
        /\ Head(a) = IF s = <<>> THEN t ELSE Head(s)
    BY AppendProperties, HeadTailAppend
  <1>. HIDE DEF a
  <1>2. \A i \in 1 .. Len(a) : i \in 1 .. Len(s) \/ i = Len(s) + 1
    BY <1>1, LineIs
  <1>3. IsInjective(a)
    BY <1>1, <1>2, LineIs
  <1>4. ToSet(a) = ToSet(s) \cup {t}
    <2>1. \A x \in ToSet(a) : x \in ToSet(s) \cup {t}
      BY <1>1, <1>2, LineIs
    <2>2. \A x \in ToSet(s) : x \in ToSet(a)
      <3>1. \A i \in 1 .. Len(s) : i \in 1 .. Len(a)
        BY <1>1, LineIs
      <3>. QED
        BY <3>1, <1>1, LineIs
    <2>3. t \in ToSet(a)
      <3>1. Len(s) + 1 \in 1 .. Len(a)
        BY <1>1, LineIs
      <3>. QED
        BY <3>1, <1>1, LineIs
    <2>. QED
      BY <2>1, <2>2, <2>3
  <1>. QED
    BY <1>1, <1>3, <1>4 DEF a

\* r is s without the task at p.
Skips(r, s, p) ==
    /\ Len(r) = Len(s) - 1
    /\ \A i \in 1 .. Len(r) : r[i] = IF i < p THEN s[i] ELSE s[i + 1]

LEMMA LineWithout ==
  ASSUME NEW Who, NEW s \in Seq(Who), IsInjective(s), NEW p \in 1 .. Len(s),
         NEW r \in Seq(Who), Skips(r, s, p)
  PROVE  /\ IsInjective(r) /\ ToSet(r) = ToSet(s) \ {s[p]}
         /\ p # 1 => r # <<>> /\ Head(r) = Head(s)
  <1>. USE DEF Skips
  <1>1. Len(s) \in Nat /\ Len(r) \in Nat
    BY LineIs
  <1>2. IsInjective(r)
    <2>1. \A i, j \in 1 .. Len(s) : s[i] = s[j] => i = j
      BY LineIs
    <2>2. ASSUME NEW i \in 1 .. Len(r), NEW j \in 1 .. Len(r), r[i] = r[j]
          PROVE  i = j
      <3>1. {i, i + 1, j, j + 1} \subseteq 1 .. Len(s)
        BY <1>1
      <3>2. /\ r[i] = IF i < p THEN s[i] ELSE s[i + 1]
            /\ r[j] = IF j < p THEN s[j] ELSE s[j + 1]
        OBVIOUS
      <3>3. CASE i < p /\ j < p
        BY <2>1, <2>2, <3>1, <3>2, <3>3
      <3>4. CASE i < p /\ ~(j < p)
        <4>1. i = j + 1
          BY <2>1, <2>2, <3>1, <3>2, <3>4
        <4>. QED
          BY <4>1, <3>4
      <3>5. CASE ~(i < p) /\ j < p
        <4>1. i + 1 = j
          BY <2>1, <2>2, <3>1, <3>2, <3>5
        <4>. QED
          BY <4>1, <3>5
      <3>6. CASE ~(i < p) /\ ~(j < p)
        <4>1. i + 1 = j + 1
          BY <2>1, <2>2, <3>1, <3>2, <3>6
        <4>. QED
          BY <4>1
      <3>. QED
        BY <3>3, <3>4, <3>5, <3>6
    <2>. QED
      BY <2>2, LineIs
  <1>3. ASSUME NEW x \in ToSet(r)
        PROVE  x \in ToSet(s) \ {s[p]}
    <2>1. PICK i \in 1 .. Len(r) : r[i] = x
      BY LineIs
    <2>4. \A m \in 1 .. Len(s) : s[m] \in ToSet(s)
      BY LineIs
    <2>5. \A m \in 1 .. Len(s) : s[m] = s[p] => m = p
      BY LineIs
    <2>2. CASE i < p
      <3>1. i \in 1 .. Len(s) /\ i # p /\ x = s[i]
        BY <1>1, <2>1, <2>2
      <3>. QED
        BY <2>4, <2>5, <3>1
    <2>3. CASE ~(i < p)
      <3>1. i + 1 \in 1 .. Len(s) /\ i + 1 # p /\ x = s[i + 1]
        BY <1>1, <2>1, <2>3
      <3>. QED
        BY <2>4, <2>5, <3>1
    <2>. QED
      BY <2>2, <2>3
  <1>4. ASSUME NEW x \in ToSet(s), x # s[p]
        PROVE  x \in ToSet(r)
    <2>1. PICK i \in 1 .. Len(s) : s[i] = x
      BY LineIs
    <2>2. CASE i < p
      <3>1. i \in 1 .. Len(r) /\ r[i] = x
        BY <1>1, <2>1, <2>2
      <3>. QED
        BY <3>1, LineIs
    <2>3. CASE ~(i < p)
      <3>1. i # p
        BY <1>4, <2>1
      <3>2. i - 1 \in 1 .. Len(r) /\ ~(i - 1 < p) /\ (i - 1) + 1 = i
        BY <1>1, <2>3, <3>1
      <3>3. r[i - 1] = x
        BY <2>1, <3>2
      <3>. QED
        BY <3>2, <3>3, LineIs
    <2>. QED
      BY <2>2, <2>3
  <1>5. p # 1 => r # <<>> /\ Head(r) = Head(s)
    <2>. SUFFICES ASSUME p # 1 PROVE r # <<>> /\ Head(r) = Head(s)
      OBVIOUS
    <2>1. 1 \in 1 .. Len(r) /\ 1 < p /\ Len(s) # 0 /\ Len(r) # 0
      BY <1>1
    <2>. QED
      BY <2>1, LineIs
  <1>. QED
    BY <1>2, <1>3, <1>4, <1>5

LEMMA LineAdvances ==
  ASSUME NEW Who, NEW s \in Seq(Who), IsInjective(s), s # <<>>
  PROVE  /\ Tail(s) \in Seq(Who) /\ Len(Tail(s)) = Len(s) - 1
         /\ IsInjective(Tail(s)) /\ ToSet(Tail(s)) = ToSet(s) \ {Head(s)}
  <1>1. Tail(s) \in Seq(Who) /\ Len(Tail(s)) = Len(s) - 1
    BY HeadTailProperties
  <1>2. \A i \in 1 .. Len(Tail(s)) : Tail(s)[i] = s[i + 1]
    BY HeadTailProperties
  <1>3. 1 \in 1 .. Len(s) /\ s[1] = Head(s) /\ Len(s) \in Nat
    BY LineIs
  <1>4. PICK p \in 1 .. Len(s) : p = 1
    BY <1>3
  <1>. DEFINE r == Tail(s)
  <1>5. r \in Seq(Who) /\ Skips(r, s, p)
    BY <1>1, <1>2, <1>3, <1>4 DEF Skips
  <1>. HIDE DEF r
  <1>6. IsInjective(r) /\ ToSet(r) = ToSet(s) \ {s[p]}
    BY <1>5, LineWithout
  <1>. QED
    BY <1>1, <1>3, <1>4, <1>6 DEF r

LEMMA LineLoses ==
  ASSUME NEW Who, NEW s \in Seq(Who), IsInjective(s), NEW t \in Who
  PROVE  LET r == RemoveFirst(s, t)
         IN  IF t \in ToSet(s)
             THEN /\ r \in Seq(Who) /\ Len(r) = Len(s) - 1
                  /\ IsInjective(r) /\ ToSet(r) = ToSet(s) \ {t}
                  /\ Head(s) # t => r # <<>> /\ Head(r) = Head(s)
             ELSE r = s
  <1>. DEFINE I == {i \in 1 .. Len(s) : s[i] = t}
              r == RemoveFirst(s, t)
  <1>1. CASE t \notin ToSet(s)
    <2>1. ~\E i \in 1 .. Len(s) : s[i] = t
      BY <1>1, LineIs
    <2>. QED
      BY <1>1, <2>1 DEF RemoveFirst
  <1>2. CASE t \in ToSet(s)
    <2>1. PICK p \in 1 .. Len(s) : s[p] = t
      BY <1>2, LineIs
    <2>2. I = {p}
      BY <2>1, LineIs
    <2>3. Min(I) = p
      BY <2>1, <2>2 DEF Min
    <2>4. r = SubSeq(s, 1, p - 1) \o SubSeq(s, p + 1, Len(s))
      <3>1. SelectInSeq(s, LAMBDA v : v = t) = p
        BY <2>2, <2>3 DEF SelectInSeq
      <3>. QED
        BY <2>1, <3>1 DEF RemoveFirst, RemoveAt
    <2>5. Len(s) \in Nat
      BY LineIs
    <2>. DEFINE a == SubSeq(s, 1, p - 1)
                b == SubSeq(s, p + 1, Len(s))
    <2>6. /\ a \in Seq(Who) /\ Len(a) = p - 1
          /\ \A i \in 1 .. p - 1 : a[i] = s[i]
      BY <2>5, SubSeqProperties, ElementOfSeq
    <2>7. /\ b \in Seq(Who) /\ Len(b) = Len(s) - p
          /\ \A i \in 1 .. Len(s) - p : b[i] = s[p + i]
      BY <2>5, SubSeqProperties, ElementOfSeq
    <2>13. r = a \o b
      BY <2>4
    <2>. HIDE DEF a, b, r
    <2>8. /\ r \in Seq(Who) /\ Len(r) = Len(a) + Len(b)
          /\ \A i \in 1 .. Len(a) + Len(b) : r[i] = IF i <= Len(a) THEN a[i] ELSE b[i - Len(a)]
      BY <2>6, <2>7, <2>13, ConcatProperties
    <2>9. Len(r) = Len(s) - 1
      BY <2>5, <2>6, <2>7, <2>8
    <2>10. ASSUME NEW i \in 1 .. Len(r)
           PROVE  r[i] = IF i < p THEN s[i] ELSE s[i + 1]
      <3>1. CASE i < p
        <4>1. i \in 1 .. Len(a) + Len(b) /\ i <= Len(a) /\ i \in 1 .. p - 1
          BY <2>5, <2>6, <2>7, <2>9, <3>1
        <4>. QED
          BY <2>6, <2>8, <3>1, <4>1
      <3>2. CASE ~(i < p)
        <4>1. i - (p - 1) \in 1 .. Len(s) - p /\ p + (i - (p - 1)) = i + 1
          BY <2>5, <2>9, <3>2
        <4>2. r[i] = b[i - (p - 1)]
          BY <2>5, <2>6, <2>7, <2>8, <2>9, <3>2
        <4>. QED
          BY <2>7, <3>2, <4>1, <4>2
      <3>. QED
        BY <3>1, <3>2
    <2>11. IsInjective(r) /\ ToSet(r) = ToSet(s) \ {t}
           /\ (p # 1 => r # <<>> /\ Head(r) = Head(s))
      <3>1. Skips(r, s, p)
        BY <2>9, <2>10 DEF Skips
      <3>2. r \in Seq(Who) /\ p \in 1 .. Len(s) /\ s[p] = t
        BY <2>1, <2>8
      <3>. QED
        BY <3>1, <3>2, LineWithout
    <2>12. Head(s) # t => p # 1
      <3>1. s # <<>>
        BY <2>1, <2>5, LineIs
      <3>. QED
        BY <2>1, <3>1, LineIs
    <2>. QED
      BY <1>2, <2>8, <2>9, <2>11, <2>12 DEF r
  <1>. QED
    BY <1>1, <1>2

\* Two lines that have nobody in common are as long as their tasks are many.
LEMMA LinesCount ==
  ASSUME NEW Who, NEW a \in Seq(Who), NEW b \in Seq(Who), IsInjective(a), IsInjective(b),
         ToSet(a) \cap ToSet(b) = {}
  PROVE  /\ Len(a \o b) = Cardinality(ToSet(a) \cup ToSet(b))
         /\ ToSet(a \o b) = ToSet(a) \cup ToSet(b)
  <1>. DEFINE w == a \o b
              S == ToSet(a) \cup ToSet(b)
  <1>1. /\ w \in Seq(Who) /\ Len(w) = Len(a) + Len(b)
        /\ \A i \in 1 .. Len(a) + Len(b) : w[i] = IF i <= Len(a) THEN a[i] ELSE b[i - Len(a)]
        /\ Len(a) \in Nat /\ Len(b) \in Nat
    BY ConcatProperties, LineIs
  <1>. HIDE DEF w
  <1>2. ASSUME NEW i \in 1 .. Len(w)
        PROVE  \/ i \in 1 .. Len(a) /\ w[i] = a[i] /\ w[i] \in ToSet(a)
               \/ i - Len(a) \in 1 .. Len(b) /\ w[i] = b[i - Len(a)] /\ w[i] \in ToSet(b)
    <2>1. CASE i <= Len(a)
      BY <1>1, <2>1, LineIs
    <2>2. CASE ~(i <= Len(a))
      <3>1. i - Len(a) \in 1 .. Len(b) /\ w[i] = b[i - Len(a)]
        BY <1>1, <2>2
      <3>. QED
        BY <3>1, LineIs
    <2>. QED
      BY <2>1, <2>2
  <1>3. ASSUME NEW x \in S
        PROVE  \E i \in 1 .. Len(w) : w[i] = x
    <2>1. CASE x \in ToSet(a)
      <3>1. PICK i \in 1 .. Len(a) : a[i] = x
        BY <2>1, LineIs
      <3>2. i \in 1 .. Len(w) /\ i <= Len(a)
        BY <1>1
      <3>. QED
        BY <1>1, <3>1, <3>2
    <2>2. CASE x \in ToSet(b)
      <3>1. PICK i \in 1 .. Len(b) : b[i] = x
        BY <2>2, LineIs
      <3>2. i + Len(a) \in 1 .. Len(w) /\ ~(i + Len(a) <= Len(a)) /\ (i + Len(a)) - Len(a) = i
        BY <1>1
      <3>. QED
        BY <1>1, <3>1, <3>2
    <2>. QED
      BY <2>1, <2>2
  <1>4. ToSet(w) = S
    <2>1. ToSet(w) = {w[i] : i \in 1 .. Len(w)}
      BY <1>1, LineIs
    <2>. QED
      BY <1>2, <1>3, <2>1
  <1>5. w \in Bijection(1 .. Len(w), S)
    <2>1. w \in [1 .. Len(w) -> S]
      BY <1>1, <1>2, LenProperties
    <2>2. ASSUME NEW i \in 1 .. Len(w), NEW j \in 1 .. Len(w), w[i] = w[j]
          PROVE  i = j
      <3>1. CASE w[i] \in ToSet(a)
        <4>1. /\ i \in 1 .. Len(a) /\ w[i] = a[i]
              /\ j \in 1 .. Len(a) /\ w[j] = a[j]
          BY <1>2, <2>2, <3>1
        <4>2. \A m, n \in 1 .. Len(a) : a[m] = a[n] => m = n
          BY LineIs
        <4>. QED
          BY <2>2, <4>1, <4>2
      <3>2. CASE w[i] \notin ToSet(a)
        <4>1. /\ i - Len(a) \in 1 .. Len(b) /\ w[i] = b[i - Len(a)]
              /\ j - Len(a) \in 1 .. Len(b) /\ w[j] = b[j - Len(a)]
          BY <1>2, <2>2, <3>2
        <4>2. i - Len(a) = j - Len(a)
          <5>1. \A m, n \in 1 .. Len(b) : b[m] = b[n] => m = n
            BY LineIs
          <5>2. b[i - Len(a)] = b[j - Len(a)]
            BY <2>2, <4>1
          <5>. QED
            BY <4>1, <5>1, <5>2
        <4>. QED
          BY <1>1, <4>2
      <3>. QED
        BY <3>1, <3>2
    <2>. QED
      BY <1>3, <2>1, <2>2, Fun_IsBij
  <1>6. ExistsBijection(1 .. Len(w), S)
    BY <1>5 DEF ExistsBijection
  <1>7. Cardinality(S) = Len(w)
    BY <1>1, <1>6, FS_CountingElements
  <1>. QED
    BY <1>4, <1>7 DEF w
=============================================================================
