----------------------------- MODULE Lists_proofs -----------------------------
(***************************************************************************)
(* Lemmas the proofs of the other modules cite: what the operations on a   *)
(* list do to its elements, and induction on the natural numbers stated    *)
(* with sets.  (NatInduction of the library takes the induction hypothesis *)
(* as an operator, which a proof step cannot instantiate here.)            *)
(***************************************************************************)
EXTENDS Lists, FiniteSets, SequencesExt, FiniteSetTheorems, TLAPS

-----------------------------------------------------------------------------
(* Lists.                                                                  *)

LEMMA ElementsType ==
    ASSUME NEW S, NEW s \in Seq(S)
    PROVE  Elements(s) \subseteq S
BY DEF Elements

LEMMA AppendElements ==
    ASSUME NEW S, NEW s \in Seq(S), NEW x \in S
    PROVE  /\ Append(s, x) \in Seq(S)
           /\ Elements(Append(s, x)) = Elements(s) \union {x}
BY DEF Elements

LEMMA ConsElements ==
    ASSUME NEW S, NEW s \in Seq(S), NEW x \in S
    PROVE  /\ <<x>> \o s \in Seq(S)
           /\ Elements(<<x>> \o s) = Elements(s) \union {x}
<1> DEFINE r == <<x>> \o s
<1>1. r \in Seq(S) /\ Len(r) = Len(s) + 1
  OBVIOUS
<1>2. r[1] = x /\ \A i \in 1..Len(s) : r[i + 1] = s[i]
  OBVIOUS
<1>3. \A i \in 1..Len(r) : i # 1 => i - 1 \in 1..Len(s) /\ r[i] = s[i - 1]
  BY <1>1, <1>2
<1> HIDE DEF r
<1>4. Elements(r) \subseteq Elements(s) \union {x}
  BY <1>1, <1>2, <1>3 DEF Elements
<1>5. Elements(s) \union {x} \subseteq Elements(r)
  BY <1>1, <1>2 DEF Elements
<1>6. QED
  BY <1>1, <1>4, <1>5 DEF r

LEMMA TailElements ==
    ASSUME NEW S, NEW s \in Seq(S), s # <<>>
    PROVE  /\ Head(s) \in S /\ Tail(s) \in Seq(S) /\ Len(Tail(s)) = Len(s) - 1
           /\ Elements(s) = Elements(Tail(s)) \union {Head(s)}
           /\ \A i \in 1..Len(Tail(s)) : Tail(s)[i] = s[i + 1]
<1>1. Len(s) \in Nat \ {0} /\ Head(s) = s[1] /\ Head(s) \in S
  OBVIOUS
<1>2. Tail(s) \in Seq(S) /\ Len(Tail(s)) = Len(s) - 1
      /\ \A i \in 1..Len(Tail(s)) : Tail(s)[i] = s[i + 1]
  OBVIOUS
<1>3. \A i \in 1..Len(s) : i # 1 => i - 1 \in 1..Len(Tail(s)) /\ s[i] = Tail(s)[i - 1]
  BY <1>1, <1>2
<1>4. Elements(s) \subseteq Elements(Tail(s)) \union {Head(s)}
  BY <1>1, <1>3, ZenonT(40) DEF Elements
<1>5. Elements(Tail(s)) \union {Head(s)} \subseteq Elements(s)
  BY <1>1, <1>2 DEF Elements
<1>6. QED
  BY <1>1, <1>2, <1>4, <1>5

LEMMA DistinctAppend ==
    ASSUME NEW S, NEW s \in Seq(S), NEW x \in S, Distinct(s), x \notin Elements(s)
    PROVE  Distinct(Append(s, x))
BY DEF Elements, Distinct

LEMMA DistinctCons ==
    ASSUME NEW S, NEW s \in Seq(S), NEW x \in S, Distinct(s), x \notin Elements(s)
    PROVE  Distinct(<<x>> \o s)
<1> DEFINE r == <<x>> \o s
<1>1. Len(r) = Len(s) + 1 /\ r[1] = x /\ \A i \in 1..Len(s) : r[i + 1] = s[i]
  OBVIOUS
<1>2. \A i \in 1..Len(r) : i # 1 => i - 1 \in 1..Len(s) /\ r[i] = s[i - 1]
  BY <1>1
<1> HIDE DEF r
<1>3. \A i \in 1..Len(r) : i # 1 => r[i] # x
  BY <1>2 DEF Elements
<1>4. \A i, j \in 1..Len(r) : i # 1 /\ j # 1 /\ r[i] = r[j] => i = j
  BY <1>2, SMTT(40) DEF Distinct
<1>5. Distinct(r)
  BY <1>1, <1>3, <1>4 DEF Distinct
<1>6. QED
  BY <1>5 DEF r

LEMMA DistinctTail ==
    ASSUME NEW S, NEW s \in Seq(S), s # <<>>, Distinct(s)
    PROVE  Distinct(Tail(s)) /\ Head(s) \notin Elements(Tail(s))
<1>1. /\ Len(s) \in Nat \ {0} /\ Head(s) = s[1] /\ Len(Tail(s)) = Len(s) - 1
      /\ \A i \in 1..Len(Tail(s)) : Tail(s)[i] = s[i + 1]
  OBVIOUS
<1>2. \A i \in 1..Len(Tail(s)) : i + 1 \in 1..Len(s)
  BY <1>1
<1>3. QED
  BY <1>1, <1>2 DEF Elements, Distinct

\* A function on 1..n is a sequence.
LEMMA FunctionIsSeq ==
    ASSUME NEW S, NEW n \in Nat, NEW f \in [1..n -> S]
    PROVE  f \in Seq(S) /\ Len(f) = n
OBVIOUS

LEMMA SeqIsFunction ==
    ASSUME NEW S, NEW s \in Seq(S)
    PROVE  Len(s) \in Nat /\ s \in [1..Len(s) -> S]
OBVIOUS

\* Two sequences of m and n elements, one after the other.
LEMMA ConcatIs ==
    ASSUME NEW S, NEW u \in Seq(S), NEW v \in Seq(S), NEW m \in Nat, m = Len(u),
           NEW n \in Nat, n = Len(v)
    PROVE  /\ u \o v \in Seq(S) /\ Len(u \o v) = m + n
           /\ \A i \in 1..m : (u \o v)[i] = u[i]
           /\ \A i \in 1..n : (u \o v)[m + i] = v[i]
<1>1. u \o v \in Seq(S) /\ Len(u \o v) = m + n
  OBVIOUS
<1>2. \A i \in 1..m : (u \o v)[i] = u[i]
  OBVIOUS
<1>3. ASSUME NEW i \in 1..n PROVE (u \o v)[m + i] = v[i]
  <2>1. m + i \in 1..(m + n) /\ m + i > m /\ (m + i) - m = i
    OBVIOUS
  <2>2. QED
    BY <2>1
<1>4. QED
  BY <1>1, <1>2, <1>3

LEMMA ConsIs ==
    ASSUME NEW S, NEW x \in S, NEW s \in Seq(S), NEW n \in Nat, n = Len(s)
    PROVE  /\ <<x>> \o s \in Seq(S) /\ Len(<<x>> \o s) = 1 + n
           /\ (<<x>> \o s)[1] = x
           /\ \A i \in 1..n : (<<x>> \o s)[1 + i] = s[i]
<1>1. <<x>> \in Seq(S) /\ Len(<<x>>) = 1 /\ <<x>>[1] = x
  OBVIOUS
<1>2. PICK u \in Seq(S) : u = <<x>> /\ Len(u) = 1 /\ u[1] = x
  BY <1>1
<1>3. /\ u \o s \in Seq(S) /\ Len(u \o s) = 1 + n
      /\ \A i \in 1..1 : (u \o s)[i] = u[i]
      /\ \A i \in 1..n : (u \o s)[1 + i] = s[i]
  BY <1>2, ConcatIs
<1>4. 1 \in 1..1
  OBVIOUS
<1>5. QED
  BY <1>2, <1>3, <1>4


\* The n elements of a sequence after its first k.
LEMMA PartIs ==
    ASSUME NEW S, NEW s \in Seq(S), NEW k \in Nat, NEW n \in Nat, k + n <= Len(s)
    PROVE  /\ SubSeq(s, k + 1, k + n) \in Seq(S)
           /\ Len(SubSeq(s, k + 1, k + n)) = n
           /\ \A i \in 1..n : SubSeq(s, k + 1, k + n)[i] = s[k + i]
OBVIOUS

\* Parts of two sequences are equal element by element.
LEMMA PartsAreEqual ==
    ASSUME NEW S, NEW s \in Seq(S), NEW k \in Nat, NEW n \in Nat, k + n <= Len(s),
           NEW T, NEW t \in Seq(T), NEW j \in Nat, j + n <= Len(t),
           \A i \in 1..n : s[k + i] = t[j + i]
    PROVE  SubSeq(s, k + 1, k + n) = SubSeq(t, j + 1, j + n)
<1> DEFINE u == SubSeq(s, k + 1, k + n)
           v == SubSeq(t, j + 1, j + n)
<1>1. u \in Seq(S) /\ Len(u) = n /\ \A i \in 1..n : u[i] = s[k + i]
  BY PartIs
<1>2. v \in Seq(T) /\ Len(v) = n /\ \A i \in 1..n : v[i] = t[j + i]
  BY PartIs
<1> HIDE DEF u, v
<1>3. u = [i \in 1..n |-> u[i]] /\ v = [i \in 1..n |-> v[i]]
  BY <1>1, <1>2
<1>4. \A i \in 1..n : u[i] = v[i]
  BY <1>1, <1>2
<1>5. u = v
  BY <1>3, <1>4
<1>6. QED
  BY <1>5 DEF u, v

\* Sequences are equal that have the same length and elements.
LEMMA SeqsAreEqual ==
    ASSUME NEW S, NEW s \in Seq(S), NEW T, NEW t \in Seq(T), Len(s) = Len(t),
           \A i \in 1..Len(s) : s[i] = t[i]
    PROVE  s = t
<1>1. s = [i \in 1..Len(s) |-> s[i]] /\ t = [i \in 1..Len(t) |-> t[i]]
  OBVIOUS
<1>2. QED
  BY <1>1

\* The elements after the i-th, until the j-th.
Cut(s, i, j) == SubSeq(s, i + 1, j)

LEMMA CutIs ==
    ASSUME NEW S, NEW s \in Seq(S), NEW i \in Nat, NEW j \in Nat, i <= j, j <= Len(s)
    PROVE  /\ Cut(s, i, j) \in Seq(S) /\ Len(Cut(s, i, j)) = j - i
           /\ \A x \in 1..(j - i) : Cut(s, i, j)[x] = s[i + x]
<1>1. PICK n \in Nat : n = j - i /\ i + n = j
  OBVIOUS
<1>2. i + n <= Len(s)
  BY <1>1
<1>3. /\ SubSeq(s, i + 1, i + n) \in Seq(S) /\ Len(SubSeq(s, i + 1, i + n)) = n
      /\ \A x \in 1..n : SubSeq(s, i + 1, i + n)[x] = s[i + x]
  BY <1>2, PartIs
<1>4. Cut(s, i, j) = SubSeq(s, i + 1, i + n)
  BY <1>1 DEF Cut
<1>5. QED
  BY <1>1, <1>3, <1>4

LEMMA CutsJoin ==
    ASSUME NEW S, NEW s \in Seq(S), NEW i \in Nat, NEW j \in Nat, NEW k \in Nat,
           i <= j, j <= k, k <= Len(s)
    PROVE  Cut(s, i, j) \o Cut(s, j, k) = Cut(s, i, k)
<1>1. PICK m \in Nat : m = j - i /\ j = i + m
  OBVIOUS
<1>2. PICK n \in Nat : n = k - j /\ k = j + n
  OBVIOUS
<1>3. PICK q \in Nat : q = k - i /\ q = m + n /\ j <= Len(s) /\ i <= k
  BY <1>1, <1>2
<1>4. PICK a \in Seq(S) : /\ a = Cut(s, i, j) /\ Len(a) = m
                          /\ \A x \in 1..m : a[x] = s[i + x]
  <2>1. /\ Cut(s, i, j) \in Seq(S) /\ Len(Cut(s, i, j)) = j - i
        /\ \A x \in 1..(j - i) : Cut(s, i, j)[x] = s[i + x]
    BY <1>3, CutIs
  <2>2. QED
    BY <1>1, <2>1
<1>5. PICK b \in Seq(S) : /\ b = Cut(s, j, k) /\ Len(b) = n
                          /\ \A x \in 1..n : b[x] = s[j + x]
  <2>1. /\ Cut(s, j, k) \in Seq(S) /\ Len(Cut(s, j, k)) = k - j
        /\ \A x \in 1..(k - j) : Cut(s, j, k)[x] = s[j + x]
    BY <1>3, CutIs
  <2>2. QED
    BY <1>2, <2>1
<1>6. PICK c \in Seq(S) : /\ c = Cut(s, i, k) /\ Len(c) = q
                          /\ \A x \in 1..q : c[x] = s[i + x]
  <2>1. /\ Cut(s, i, k) \in Seq(S) /\ Len(Cut(s, i, k)) = k - i
        /\ \A x \in 1..(k - i) : Cut(s, i, k)[x] = s[i + x]
    BY <1>3, CutIs, ZenonT(40)
  <2>2. QED
    BY <1>3, <2>1
<1>7. PICK d \in Seq(S) : /\ d = a \o b /\ Len(d) = m + n
                          /\ \A x \in 1..m : d[x] = a[x]
                          /\ \A x \in 1..n : d[m + x] = b[x]
  <2>1. Len(a) = m /\ Len(b) = n
    BY <1>4, <1>5
  <2>2. /\ a \o b \in Seq(S) /\ Len(a \o b) = Len(a) + Len(b)
        /\ \A x \in 1..Len(a) : (a \o b)[x] = a[x]
        /\ \A x \in 1..Len(b) : (a \o b)[Len(a) + x] = b[x]
    BY ConcatIs
  <2>3. QED
    BY <2>1, <2>2
<1>8. ASSUME NEW x \in 1..q PROVE d[x] = c[x]
  <2>1. CASE x <= m
    <3>1. x \in 1..m
      BY <2>1
    <3>2. QED
      BY <1>4, <1>6, <1>7, <3>1
  <2>2. CASE x > m
    <3>1. PICK y \in 1..n : x = m + y /\ i + x = j + y
      <4>1. x - m \in 1..n /\ x = m + (x - m) /\ i + x = j + (x - m)
        BY <1>1, <1>3, <2>2
      <4>2. QED
        BY <4>1
    <3>2. d[m + y] = b[y] /\ b[y] = s[j + y]
      BY <1>5, <1>7
    <3>3. c[x] = s[i + x]
      BY <1>6
    <3>4. QED
      BY <3>1, <3>2, <3>3
  <2>3. QED
    BY <2>1, <2>2
<1>9. d = c
  <2>1. Len(d) = Len(c) /\ Len(d) = q
    BY <1>3, <1>6, <1>7
  <2>2. QED
    BY <1>8, <2>1, SeqsAreEqual
<1>10. QED
  BY <1>4, <1>5, <1>6, <1>7, <1>9

LEMMA CutOne ==
    ASSUME NEW S, NEW s \in Seq(S), NEW i \in Nat, i < Len(s)
    PROVE  s[i + 1] \in S /\ Cut(s, i, i + 1) = <<s[i + 1]>>
<1>1. i + 1 \in 1..Len(s)
  OBVIOUS
<1>2. s[i + 1] \in S
  BY <1>1
<1>3. PICK c \in Seq(S) : c = Cut(s, i, i + 1) /\ Len(c) = 1 /\ c[1] = s[i + 1]
  <2>1. i <= i + 1 /\ i + 1 <= Len(s) /\ i + 1 \in Nat /\ (i + 1) - i = 1 /\ 1 \in 1..1
    OBVIOUS
  <2>2. /\ Cut(s, i, i + 1) \in Seq(S) /\ Len(Cut(s, i, i + 1)) = (i + 1) - i
        /\ \A x \in 1..((i + 1) - i) : Cut(s, i, i + 1)[x] = s[i + x]
    BY <2>1, CutIs
  <2>3. QED
    BY <2>1, <2>2
<1>4. PICK d \in Seq(S) : d = <<s[i + 1]>> /\ Len(d) = 1 /\ d[1] = s[i + 1]
  <2>1. <<s[i + 1]>> \in Seq(S) /\ Len(<<s[i + 1]>>) = 1 /\ <<s[i + 1]>>[1] = s[i + 1]
    BY <1>2
  <2>2. QED
    BY <2>1
<1>5. \A x \in 1..1 : c[x] = d[x]
  BY <1>3, <1>4
<1>6. c = d
  BY <1>3, <1>4, <1>5, SeqsAreEqual
<1>7. QED
  BY <1>2, <1>3, <1>4, <1>6

LEMMA CutWhole ==
    ASSUME NEW S, NEW s \in Seq(S)
    PROVE  Cut(s, 0, Len(s)) = s
<1>1. SubSeq(s, 1, Len(s)) = s
  OBVIOUS
<1>2. 0 + 1 = 1
  OBVIOUS
<1>3. QED
  BY <1>1, <1>2 DEF Cut

LEMMA CutNone ==
    ASSUME NEW S, NEW s \in Seq(S), NEW i \in Nat
    PROVE  Cut(s, i, i) = <<>>
BY DEF Cut

LEMMA TwoOnes ==
    ASSUME NEW a, NEW b
    PROVE  <<a>> \o <<b>> = <<a, b>>
<1>1. PICK S : S = {a, b}
  OBVIOUS
<1>2. PICK u \in Seq(S), v \in Seq(S), w \in Seq(S) :
          /\ u = <<a>> /\ v = <<b>> /\ w = <<a, b>>
          /\ Len(u) = 1 /\ Len(v) = 1 /\ Len(w) = 2
          /\ u[1] = a /\ v[1] = b /\ w[1] = a /\ w[2] = b
  <2>1. <<a>> \in Seq(S) /\ <<b>> \in Seq(S) /\ <<a, b>> \in Seq(S)
    BY <1>1
  <2>2. /\ Len(<<a>>) = 1 /\ Len(<<b>>) = 1 /\ Len(<<a, b>>) = 2
        /\ <<a>>[1] = a /\ <<b>>[1] = b /\ <<a, b>>[1] = a /\ <<a, b>>[2] = b
    OBVIOUS
  <2>3. QED
    BY <2>1, <2>2
<1>3. /\ u \o v \in Seq(S) /\ Len(u \o v) = 2
      /\ (u \o v)[1] = a /\ (u \o v)[2] = b
  BY <1>2
<1>4. \A i \in 1..2 : (u \o v)[i] = w[i]
  BY <1>2, <1>3
<1>5. u \o v = w
  BY <1>2, <1>3, <1>4, SeqsAreEqual
<1>6. QED
  BY <1>2, <1>5

-----------------------------------------------------------------------------
(* Induction, from the fact that strict inclusion is well founded on       *)
(* finite sets.                                                            *)

\* A set of natural numbers that is not empty has a least element.
LEMMA LeastNatural ==
    ASSUME NEW S \in SUBSET Nat, S # {}
    PROVE  \E n \in S : \A m \in S : n <= m
<1> DEFINE Below(n) == 0..n - 1
           T == {Below(n) : n \in S}
           R == StrictSubsetOrdering(Nat)
<1>1. T \subseteq FiniteSubsetsOf(Nat) /\ T # {}
  <2>1. \A n \in S : Below(n) \in SUBSET Nat /\ IsFiniteSet(Below(n))
    BY FS_Interval
  <2>2. QED
    BY <2>1 DEF FiniteSubsetsOf
<1>2. \E x \in T : \A y \in T : ~(<<y, x>> \in R)
  BY <1>1, FS_StrictSubsetOrderingWellFounded, WFMin
<1>3. PICK n \in S : \A m \in S : ~(<<Below(m), Below(n)>> \in R)
  BY <1>2
<1>4. ASSUME NEW m \in S, m < n PROVE FALSE
  <2>1. Below(m) \subseteq Below(n) /\ m \in Below(n) /\ m \notin Below(m)
    BY <1>4
  <2>2. Below(m) \in SUBSET Nat /\ Below(n) \in SUBSET Nat
    OBVIOUS
  <2>3. QED
    BY <1>3, <2>1, <2>2 DEF StrictSubsetOrdering
<1>5. QED
  BY <1>4

\* A set of natural numbers that holds 0 and the successor of each of its elements
\* holds them all.
LEMMA InductionOnNat ==
    ASSUME NEW S \in SUBSET Nat, 0 \in S, \A n \in S : n + 1 \in S
    PROVE  S = Nat
<1>1. ASSUME Nat \ S # {} PROVE FALSE
  <2>1. PICK n \in Nat \ S : \A m \in Nat \ S : n <= m
    BY <1>1, LeastNatural
  <2>2. n # 0 /\ n - 1 \in Nat
    BY <2>1
  <2>3. n - 1 \in S
    BY <2>1, <2>2
  <2>4. QED
    BY <2>1, <2>3
<1>2. QED
  BY <1>1
LEMMA StrongInduction ==
    ASSUME NEW S \in SUBSET Nat, \A n \in Nat : (\A m \in 0..(n - 1) : m \in S) => n \in S
    PROVE  S = Nat
<1>1. ASSUME Nat \ S # {} PROVE FALSE
  <2>1. PICK n \in Nat \ S : \A m \in Nat \ S : n <= m
    BY <1>1, LeastNatural
  <2>2. \A m \in 0..(n - 1) : m \in Nat /\ ~(n <= m)
    OBVIOUS
  <2>3. QED
    BY <2>1, <2>2
<1>2. QED
  BY <1>1

\* Induction from n down to 0.
LEMMA InductionDown ==
    ASSUME NEW n \in Nat, NEW S, \A i \in 0..n : (\A j \in (i + 1)..n : j \in S) => i \in S
    PROVE  \A i \in 0..n : i \in S
<1> DEFINE T == {d \in Nat : d <= n => n - d \in S}
<1>1. ASSUME NEW d \in Nat, \A e \in 0..(d - 1) : e \in T PROVE d \in T
  <2>1. ASSUME d <= n PROVE n - d \in S
    <3>1. ASSUME NEW j \in (n - d + 1)..n PROVE j \in S
      <4>1. n - j \in 0..(d - 1) /\ n - j <= n /\ n - (n - j) = j
        BY <2>1
      <4>2. QED
        BY <1>1, <4>1
    <3>2. n - d \in 0..n
      BY <2>1
    <3>3. QED
      BY <3>1, <3>2
  <2>2. QED
    BY <2>1
<1>2. T = Nat
  <2>1. T \in SUBSET Nat
    OBVIOUS
  <2> HIDE DEF T
  <2>2. QED
    BY <1>1, <2>1, StrongInduction
<1>3. ASSUME NEW i \in 0..n PROVE i \in S
  <2>1. n - i \in Nat /\ n - i <= n /\ n - (n - i) = i
    OBVIOUS
  <2>2. n - i \in T
    BY <1>2, <2>1
  <2>3. QED
    BY <2>1, <2>2
<1>4. QED
  BY <1>3

-----------------------------------------------------------------------------
(* Functions whose value at i is made from their value at a place before   *)
(* or after i, if there is one.                                            *)


GoesUp(f, n, A, prev, step, first) ==
    /\ f \in [0..n -> A]
    /\ \A i \in 0..n : f[i] = IF prev[i] < i THEN step[i][f[prev[i]]] ELSE first[i]

GoesDown(f, n, A, next, step, last) ==
    /\ f \in [0..n -> A]
    /\ \A i \in 0..n : f[i] = IF next[i] \in (i + 1)..n THEN step[i][f[next[i]]] ELSE last[i]

LEMMA RecursionUp ==
    ASSUME NEW n \in Nat, NEW A, NEW prev \in [0..n -> Nat], NEW step \in [0..n -> [A -> A]],
           NEW first \in [0..n -> A]
    PROVE  \E f : GoesUp(f, n, A, prev, step, first)
<1> DEFINE At(f, i) == IF prev[i] < i THEN step[i][f[prev[i]]] ELSE first[i]
           Until(f, k) == f \in [0..n -> A] /\ \A i \in 0..n : i < k => f[i] = At(f, i)
           T == {k \in Nat : \E f : Until(f, k)}
<1>1. \A f \in [0..n -> A] : \A i \in 0..n : At(f, i) \in A
  OBVIOUS
<1>2. 0 \in T
  <2>1. Until(first, 0)
    OBVIOUS
  <2> HIDE DEF Until
  <2>2. QED
    BY <2>1
<1>3. ASSUME NEW k \in T PROVE k + 1 \in T
  <2>1. k \in Nat
    OBVIOUS
  <2>2. PICK f : Until(f, k)
    <3> HIDE DEF Until
    <3>1. QED
      OBVIOUS
  <2>3. \E g : Until(g, k + 1)
    <3>1. CASE k \notin 0..n
      <4>1. \A i \in 0..n : i < k
        BY <2>1, <3>1
      <4>2. Until(f, k + 1)
        BY <2>2, <4>1
      <4> HIDE DEF Until
      <4>3. QED
        BY <4>2
    <3>2. CASE k \in 0..n
      <4>1. PICK g : g = [f EXCEPT ![k] = At(f, k)]
        OBVIOUS
      <4>2. g \in [0..n -> A] /\ g[k] = At(f, k) /\ \A i \in 0..n : i # k => g[i] = f[i]
        BY <1>1, <2>2, <3>2, <4>1
      <4>3. \A i \in 0..n : prev[i] < i => prev[i] \in 0..n
        OBVIOUS
      <4>4. ASSUME NEW i \in 0..n, i <= k PROVE At(g, i) = At(f, i)
        <5>1. prev[i] < i => prev[i] # k
          BY <2>1, <4>4
        <5>2. QED
          BY <4>2, <4>3, <5>1
      <4>5. ASSUME NEW i \in 0..n, i < k + 1 PROVE g[i] = At(g, i)
        <5>1. i <= k /\ (i = k \/ i < k)
          BY <2>1, <4>5
        <5>2. i < k => f[i] = At(f, i)
          BY <2>2
        <5> HIDE DEF At
        <5>3. QED
          BY <4>2, <4>4, <5>1, <5>2
      <4>6. Until(g, k + 1)
        BY <4>2, <4>5
      <4> HIDE DEF Until
      <4>7. QED
        BY <4>6
    <3>3. QED
      BY <3>1, <3>2
  <2> HIDE DEF Until
  <2>4. QED
    BY <2>1, <2>3
<1>4. T = Nat
  <2>1. T \in SUBSET Nat
    OBVIOUS
  <2> HIDE DEF T
  <2>2. QED
    BY <1>2, <1>3, <2>1, InductionOnNat
<1>5. PICK f : Until(f, n + 1)
  <2> HIDE DEF Until
  <2>1. n + 1 \in T
    <3> HIDE DEF T
    <3>1. QED
      BY <1>4
  <2>2. QED
    BY <2>1
<1>6. \A i \in 0..n : i < n + 1
  OBVIOUS
<1>7. GoesUp(f, n, A, prev, step, first)
  BY <1>5, <1>6 DEF GoesUp
<1>8. QED
  BY <1>7

LEMMA RecursionDown ==
    ASSUME NEW n \in Nat, NEW A, NEW next \in [0..n -> Nat], NEW step \in [0..n -> [A -> A]],
           NEW last \in [0..n -> A]
    PROVE  \E f : GoesDown(f, n, A, next, step, last)
<1>1. PICK prev : prev = [i \in 0..n |-> IF next[n - i] \in (n - i + 1)..n THEN n - next[n - i]
                                                                          ELSE i]
  OBVIOUS
<1>2. PICK up : up = [i \in 0..n |-> step[n - i]]
  OBVIOUS
<1>3. PICK first : first = [i \in 0..n |-> last[n - i]]
  OBVIOUS
<1>4. \A i \in 0..n : n - i \in 0..n /\ n - (n - i) = i
  OBVIOUS
<1>5. prev \in [0..n -> Nat] /\ up \in [0..n -> [A -> A]] /\ first \in [0..n -> A]
  <2>1. prev \in [0..n -> Nat]
    BY <1>1, <1>4
  <2>2. QED
    BY <1>2, <1>3, <1>4, <2>1
<1>6. PICK g : GoesUp(g, n, A, prev, up, first)
  BY <1>5, RecursionUp
<1>7. PICK f : f = [i \in 0..n |-> g[n - i]]
  OBVIOUS
<1>8. f \in [0..n -> A]
  BY <1>4, <1>6, <1>7 DEF GoesUp
<1>9. ASSUME NEW i \in 0..n
      PROVE  f[i] = IF next[i] \in (i + 1)..n THEN step[i][f[next[i]]] ELSE last[i]
  <2>1. PICK j \in 0..n : j = n - i /\ n - j = i
    BY <1>4
  <2>2. f[i] = IF prev[j] < j THEN up[j][g[prev[j]]] ELSE first[j]
    BY <1>6, <1>7, <2>1 DEF GoesUp
  <2>3. up[j] = step[i] /\ first[j] = last[i]
    BY <1>2, <1>3, <2>1
  <2>4. CASE next[i] \in (i + 1)..n
    <3>1. prev[j] = n - next[i] /\ prev[j] < j /\ next[i] \in 0..n
      BY <1>1, <2>1, <2>4
    <3>2. g[prev[j]] = f[next[i]]
      BY <1>7, <3>1
    <3>3. QED
      BY <2>2, <2>3, <2>4, <3>1, <3>2
  <2>5. CASE next[i] \notin (i + 1)..n
    <3>1. prev[j] = j
      BY <1>1, <2>1, <2>5
    <3>2. QED
      BY <2>2, <2>3, <2>5, <3>1
  <2>6. QED
    BY <2>4, <2>5
<1>10. GoesDown(f, n, A, next, step, last)
  BY <1>8, <1>9 DEF GoesDown
<1>11. QED
  BY <1>10

-----------------------------------------------------------------------------
(* A sequence of sequences, one after the other (FlattenSeq).              *)

IsFlatten(f, seqs) ==
    f = [i \in 1..Len(seqs) |-> IF i = 1 THEN seqs[i] ELSE f[i - 1] \o seqs[i]]

LEMMA FlattenExists ==
    ASSUME NEW S, NEW seqs \in Seq(Seq(S)), seqs # <<>>
    PROVE  \E f : IsFlatten(f, seqs)
<1>1. PICK n \in Nat : n = Len(seqs) /\ n > 0
  OBVIOUS
<1>2. \A i \in 1..n : seqs[i] \in Seq(S)
  BY <1>1
<1>3. PICK prev : prev = [i \in 0..n |-> IF i <= 1 THEN i ELSE i - 1]
  OBVIOUS
<1>4. PICK step : step = [i \in 0..n |-> [x \in Seq(S) |-> IF i = 0 THEN x ELSE x \o seqs[i]]]
  OBVIOUS
<1>5. PICK first : first = [i \in 0..n |-> IF i = 0 THEN <<>> ELSE seqs[i]]
  OBVIOUS
<1>6. prev \in [0..n -> Nat]
  BY <1>3
<1>7. step \in [0..n -> [Seq(S) -> Seq(S)]]
  BY <1>2, <1>4
<1>8. first \in [0..n -> Seq(S)]
  BY <1>2, <1>5
<1>9. PICK f : GoesUp(f, n, Seq(S), prev, step, first)
  BY <1>6, <1>7, <1>8, RecursionUp
<1>10. PICK g : g = [i \in 1..n |-> f[i]]
  OBVIOUS
<1>11. ASSUME NEW i \in 1..n PROVE g[i] = IF i = 1 THEN seqs[i] ELSE g[i - 1] \o seqs[i]
  <2>1. i \in 0..n /\ i # 0 /\ g[i] = f[i]
    BY <1>10
  <2>2. CASE i = 1
    BY <1>3, <1>5, <1>9, <2>1, <2>2 DEF GoesUp
  <2>3. CASE i # 1
    <3>1. prev[i] = i - 1 /\ i - 1 < i /\ i - 1 \in 1..n /\ i - 1 \in 0..n
      BY <1>3, <2>1, <2>3
    <3>2. f[i] = step[i][f[i - 1]] /\ f[i - 1] \in Seq(S)
      BY <1>9, <2>1, <3>1 DEF GoesUp
    <3>3. step[i][f[i - 1]] = f[i - 1] \o seqs[i]
      BY <1>4, <2>1, <3>2
    <3>4. QED
      BY <1>10, <2>1, <2>3, <3>1, <3>2, <3>3
  <2>4. QED
    BY <2>2, <2>3
<1>12. IsFlatten(g, seqs)
  BY <1>1, <1>10, <1>11 DEF IsFlatten
<1>13. QED
  BY <1>12

LEMMA FlattenSteps ==
    ASSUME NEW S, NEW seqs \in Seq(Seq(S)), seqs # <<>>
    PROVE  \E f : IsFlatten(f, seqs) /\ FlattenSeq(seqs) = f[Len(seqs)]
<1>1. PICK n \in Nat : n = Len(seqs) /\ n > 0
  OBVIOUS
<1>2. PICK g : g = CHOOSE f : IsFlatten(f, seqs)
  OBVIOUS
<1>3. IsFlatten(g, seqs)
  BY <1>2, FlattenExists
<1>4. FlattenSeq(seqs) = g[Len(seqs)]
  BY <1>1, <1>2 DEF FlattenSeq, IsFlatten
<1>5. QED
  BY <1>3, <1>4

LEMMA FlattenEmpty == FlattenSeq(<<>>) = <<>>
BY DEF FlattenSeq

\* What f is at each place, by induction on the place.
LEMMA FlattenPrefix ==
    ASSUME NEW S, NEW seqs \in Seq(Seq(S)), NEW f, IsFlatten(f, seqs)
    PROVE  \A i \in 1..Len(seqs) :
              /\ f[i] \in Seq(S) /\ seqs[i] \in Seq(S)
              /\ f[i] = IF i = 1 THEN seqs[i] ELSE f[i - 1] \o seqs[i]
<1>1. PICK n \in Nat : n = Len(seqs)
  OBVIOUS
<1>2. \A i \in 1..n : f[i] = (IF i = 1 THEN seqs[i] ELSE f[i - 1] \o seqs[i]) /\ seqs[i] \in Seq(S)
  BY <1>1, SeqIsFunction DEF IsFlatten
<1> DEFINE T == {k \in Nat : k + 1 <= n => f[k + 1] \in Seq(S)}
<1>3. 0 \in T
  BY <1>2
<1>4. ASSUME NEW k \in T PROVE k + 1 \in T
  <2>1. PICK i \in Nat : i = k + 1 /\ i # 0
    OBVIOUS
  <2>2. ASSUME i + 1 <= n PROVE f[i + 1] \in Seq(S)
    <3>1. i + 1 \in 1..n /\ i + 1 # 1 /\ (i + 1) - 1 = i /\ i <= n
      BY <2>1, <2>2
    <3>2. f[i] \in Seq(S)
      BY <2>1, <3>1
    <3>3. f[i + 1] = f[i] \o seqs[i + 1] /\ seqs[i + 1] \in Seq(S)
      BY <1>2, <3>1
    <3>4. QED
      BY <3>2, <3>3
  <2>3. QED
    BY <2>1, <2>2
<1>5. T = Nat
  <2>1. T \in SUBSET Nat
    OBVIOUS
  <2> HIDE DEF T
  <2>2. QED
    BY <1>3, <1>4, <2>1, InductionOnNat
<1>6. ASSUME NEW i \in 1..n PROVE f[i] \in Seq(S)
  <2>1. i - 1 \in Nat /\ (i - 1) + 1 = i /\ i <= n
    BY <1>1
  <2>2. i - 1 \in T
    BY <1>5, <2>1
  <2>3. QED
    BY <2>1, <2>2
<1>7. QED
  BY <1>1, <1>2, <1>6

LEMMA FlattenType ==
    ASSUME NEW S, NEW seqs \in Seq(Seq(S))
    PROVE  FlattenSeq(seqs) \in Seq(S)
<1>1. CASE seqs = <<>>
  <2>1. <<>> \in Seq(S) /\ FlattenSeq(<<>>) = <<>>
    BY FlattenEmpty
  <2>2. QED
    BY <1>1, <2>1
<1>2. CASE seqs # <<>>
  <2>1. PICK f : IsFlatten(f, seqs) /\ FlattenSeq(seqs) = f[Len(seqs)]
    BY <1>2, FlattenSteps
  <2>2. Len(seqs) \in 1..Len(seqs)
    BY <1>2
  <2>3. QED
    BY <2>1, <2>2, FlattenPrefix
<1>3. QED
  BY <1>1, <1>2

LEMMA FlattenOne ==
    ASSUME NEW S, NEW x \in Seq(S)
    PROVE  FlattenSeq(<<x>>) = x
<1>1. PICK seqs \in Seq(Seq(S)) : seqs = <<x>> /\ Len(seqs) = 1 /\ seqs[1] = x
  <2>1. <<x>> \in Seq(Seq(S)) /\ Len(<<x>>) = 1 /\ <<x>>[1] = x
    OBVIOUS
  <2>2. QED
    BY <2>1
<1>2. PICK f : IsFlatten(f, seqs) /\ FlattenSeq(seqs) = f[Len(seqs)]
  BY <1>1, FlattenSteps
<1>3. f[1] = x
  <2>1. 1 \in 1..Len(seqs)
    BY <1>1
  <2>2. f[1] = seqs[1]
    BY <1>2, <2>1, FlattenPrefix
  <2>3. QED
    BY <1>1, <2>2
<1>4. QED
  BY <1>1, <1>2, <1>3

LEMMA ConcatAssoc ==
    ASSUME NEW S, NEW a \in Seq(S), NEW b \in Seq(S), NEW c \in Seq(S)
    PROVE  (a \o b) \o c = a \o (b \o c)
OBVIOUS

LEMMA FlattenCons ==
    ASSUME NEW S, NEW x \in Seq(S), NEW seqs \in Seq(Seq(S))
    PROVE  FlattenSeq(<<x>> \o seqs) = x \o FlattenSeq(seqs)
<1>1. CASE seqs = <<>>
  <2>1. <<x>> \o seqs = <<x>>
    BY <1>1
  <2>2. QED
    BY <1>1, <2>1, FlattenOne, FlattenEmpty
<1>2. CASE seqs # <<>>
  <2>1. PICK n \in Nat : n = Len(seqs) /\ n > 0
    BY <1>2
  <2>2. PICK more \in Seq(Seq(S)) : /\ more = <<x>> \o seqs /\ Len(more) = n + 1 /\ more[1] = x
                                   /\ \A i \in 1..n : more[i + 1] = seqs[i]
    <3>1. <<x>> \in Seq(Seq(S)) /\ Len(<<x>>) = 1 /\ <<x>>[1] = x
      OBVIOUS
    <3>2. PICK u \in Seq(Seq(S)) : u = <<x>> /\ Len(u) = 1 /\ u[1] = x
      BY <3>1
    <3>3. /\ u \o seqs \in Seq(Seq(S)) /\ Len(u \o seqs) = 1 + n
          /\ \A i \in 1..1 : (u \o seqs)[i] = u[i]
          /\ \A i \in 1..n : (u \o seqs)[1 + i] = seqs[i]
      BY <2>1, <3>2, ConcatIs
    <3>4. 1 + n = n + 1 /\ 1 \in 1..1 /\ \A i \in 1..n : 1 + i = i + 1
      BY <2>1
    <3>5. QED
      BY <3>2, <3>3, <3>4, ZenonT(40)
  <2>3. PICK f : IsFlatten(f, seqs) /\ FlattenSeq(seqs) = f[Len(seqs)]
    BY <1>2, FlattenSteps
  <2>4. PICK g : IsFlatten(g, more) /\ FlattenSeq(more) = g[Len(more)]
    <3>1. more # <<>>
      BY <2>2
    <3>2. QED
      BY <3>1, FlattenSteps
  <2>5. \A i \in 1..n : /\ f[i] \in Seq(S) /\ seqs[i] \in Seq(S)
                        /\ f[i] = IF i = 1 THEN seqs[i] ELSE f[i - 1] \o seqs[i]
    BY <2>1, <2>3, FlattenPrefix
  <2>6. \A i \in 1..(n + 1) : g[i] = IF i = 1 THEN more[i] ELSE g[i - 1] \o more[i]
    <3>1. \A i \in 1..Len(more) : g[i] = IF i = 1 THEN more[i] ELSE g[i - 1] \o more[i]
      BY <2>4, FlattenPrefix
    <3>2. QED
      BY <2>2, <3>1
  <2> DEFINE T == {k \in Nat : k + 1 <= n => g[k + 2] = x \o f[k + 1]}
  <2>7. 0 \in T
    <3>1. 1 \in 1..n /\ 2 \in 1..(n + 1) /\ 1 \in 1..(n + 1) /\ 2 - 1 = 1 /\ 1 + 1 = 2
      BY <2>1
    <3>2. g[1] = more[1] /\ f[1] = seqs[1]
      BY <2>5, <2>6, <3>1
    <3>3. g[2] = g[1] \o more[2]
      <4>1. g[2] = IF 2 = 1 THEN more[2] ELSE g[2 - 1] \o more[2]
        BY <2>6, <3>1, Zenon
      <4>2. QED
        BY <3>1, <4>1
    <3>4. more[1 + 1] = seqs[1]
      BY <2>2, <3>1
    <3>5. g[2] = x \o f[1]
      BY <2>2, <3>1, <3>2, <3>3, <3>4
    <3>6. 0 + 2 = 2 /\ 0 + 1 = 1 /\ 0 \in Nat
      OBVIOUS
    <3>7. QED
      BY <3>5, <3>6
  <2>8. ASSUME NEW k \in T PROVE k + 1 \in T
    <3>1. PICK i \in Nat : i = k + 1 /\ i # 0
      OBVIOUS
    <3>2. ASSUME i + 1 <= n PROVE g[i + 2] = x \o f[i + 1]
      <4>1. /\ i + 1 \in 1..n /\ i + 1 # 1 /\ (i + 1) - 1 = i /\ i \in 1..n
            /\ i + 2 \in 1..(n + 1) /\ i + 2 # 1 /\ (i + 2) - 1 = i + 1 /\ (i + 1) + 1 = i + 2
        BY <3>1, <3>2
      <4>2. g[i + 1] = x \o f[i]
        BY <3>1, <4>1
      <4>3. g[i + 2] = g[i + 1] \o more[i + 2] /\ more[i + 2] = seqs[i + 1]
        BY <2>2, <2>6, <4>1
      <4>4. /\ f[i + 1] = f[i] \o seqs[i + 1]
            /\ f[i] \in Seq(S) /\ seqs[i + 1] \in Seq(S)
        BY <2>5, <4>1
      <4>5. PICK a \in Seq(S), b \in Seq(S) : a = f[i] /\ b = seqs[i + 1]
        BY <4>4
      <4>6. (x \o a) \o b = x \o (a \o b)
        BY ConcatAssoc, SMTT(40)
      <4>7. QED
        BY <4>2, <4>3, <4>4, <4>5, <4>6
    <3>3. i + 2 = (k + 1) + 2 /\ i + 1 = (k + 1) + 1
      BY <3>1
    <3>4. QED
      BY <3>1, <3>2, <3>3
  <2>9. T = Nat
    <3>1. T \in SUBSET Nat
      OBVIOUS
    <3> HIDE DEF T
    <3>2. QED
      BY <2>7, <2>8, <3>1, InductionOnNat
  <2>10. g[n + 1] = x \o f[n]
    <3>1. n - 1 \in Nat /\ (n - 1) + 1 = n /\ (n - 1) + 2 = n + 1
      BY <2>1
    <3>2. n - 1 \in T
      BY <2>9, <3>1
    <3>3. QED
      BY <3>1, <3>2
  <2>11. QED
    BY <2>1, <2>2, <2>3, <2>4, <2>10
<1>3. QED
  BY <1>1, <1>2
=============================================================================
