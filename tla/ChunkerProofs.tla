---------------------------- MODULE ChunkerProofs ----------------------------
(***************************************************************************)
(* Proofs about the chunker: the chunk buffer never overflows, a file of   *)
(* one block is cut where its content says so and its chunks are the file, *)
(* so are those of a file of whole blocks cut at a fixed size, and the     *)
(* chunks of a trace are its lines.                                        *)
(*                                                                         *)
(* The rolled hash is shown to be the polynomial of its window by          *)
(* congruence modulo FpSize, which divides the modulus of the tables; what *)
(* a recursive function computes (the table of powers, the polynomial, the *)
(* flattened chunks) by induction over a set of naturals.                  *)
(***************************************************************************)
EXTENDS Chunker, FiniteSetTheorems, WellFoundedInduction, TLAPS

-----------------------------------------------------------------------------
(* Induction on the naturals, over a set in place of an operator, from the well-foundedness of *)
(* their order; and recursion by a function.                                                   *)
LEMMA LeastNat ==
  ASSUME NEW T, T \subseteq Nat, T # {}
  PROVE  \E x \in T : \A y \in T : x <= y
<1> DEFINE R == OpToRel(<, Nat)
<1>1. IsWellFoundedOn(R, Nat)
  BY NatLessThanWellFounded
<1>2. \E x \in T : \A y \in T : ~ (<<y, x>> \in R)
  <2> HIDE DEF R
  <2> QED BY <1>1, WFMin
<1>3. \A x, y \in Nat : <<y, x>> \in R <=> y < x
  BY DEF OpToRel
<1> HIDE DEF R
<1>4. PICK x \in T : \A y \in T : ~ (<<y, x>> \in R)
  BY <1>2
<1>5. \A y \in T : x <= y
  <2> SUFFICES ASSUME NEW y \in T PROVE x <= y
    OBVIOUS
  <2>1. x \in Nat /\ y \in Nat
    OBVIOUS
  <2>2. ~ (y < x)
    BY <1>3, <1>4, <2>1
  <2>3. QED BY <2>1, <2>2
<1>6. QED
  BY <1>5

LEMMA SetInduction ==
  ASSUME NEW S, 0 \in S, \A n \in Nat : n \in S => n + 1 \in S
  PROVE  Nat \subseteq S
<1> SUFFICES ASSUME Nat \ S # {} PROVE FALSE
  OBVIOUS
<1>1. PICK x \in Nat \ S : \A y \in Nat \ S : x <= y
  BY LeastNat
<1>2. x # 0
  BY <1>1
<1>3. x - 1 \in Nat /\ x - 1 \in S
  BY <1>1, <1>2
<1>4. QED
  BY <1>3, <1>1

Steps(g, a, F, n) == g[0] = a /\ \A i \in 1 .. n : g[i] = F[<<g[i - 1], i>>]

LEMMA Recursion ==
  ASSUME NEW S, NEW a \in S, NEW F \in [S \X Nat -> S]
  PROVE  \A n \in Nat : \E g \in [0 .. n -> S] : Steps(g, a, F, n)
<1> DEFINE I == {n \in Nat : \E g \in [0 .. n -> S] : Steps(g, a, F, n)}
<1>1. 0 \in I
  <2> DEFINE g == [i \in 0 .. 0 |-> a]
  <2>1. g \in [0 .. 0 -> S] /\ Steps(g, a, F, 0)
    BY DEF Steps
  <2> HIDE DEF g
  <2>2. QED BY <2>1
<1>2. ASSUME NEW n \in Nat, n \in I PROVE n + 1 \in I
  <2>1. PICK g \in [0 .. n -> S] : Steps(g, a, F, n)
    BY <1>2
  <2>2. PICK v \in S : v = F[<<g[n], n + 1>>]
    OBVIOUS
  <2> DEFINE h == [i \in 0 .. n + 1 |-> IF i = n + 1 THEN v ELSE g[i]]
  <2>3. h \in [0 .. n + 1 -> S]
    OBVIOUS
  <2>4. h[0] = a
    BY <2>1 DEF Steps
  <2>5. ASSUME NEW i \in 1 .. n + 1 PROVE h[i] = F[<<h[i - 1], i>>]
    <3>1. i - 1 \in 0 .. n /\ h[i - 1] = g[i - 1]
      OBVIOUS
    <3>2. i \in 1 .. n => h[i] = g[i]
      OBVIOUS
    <3>3. i = n + 1 => h[i] = v
      OBVIOUS
    <3>4. i \in 1 .. n \/ i = n + 1
      OBVIOUS
    <3> HIDE DEF h
    <3>5. CASE i \in 1 .. n
      BY <3>1, <3>2, <3>5, <2>1 DEF Steps
    <3>6. CASE i = n + 1
      BY <3>1, <3>3, <3>6, <2>2
    <3>7. QED BY <3>4, <3>5, <3>6
  <2> HIDE DEF h
  <2>6. Steps(h, a, F, n + 1)
    BY <2>4, <2>5 DEF Steps
  <2>7. n + 1 \in Nat
    OBVIOUS
  <2>8. QED
    BY <2>3, <2>6, <2>7
<1>3. Nat \subseteq I
  <2> HIDE DEF I
  <2> QED BY <1>1, <1>2, SetInduction
<1>4. QED
  BY <1>3

-----------------------------------------------------------------------------
(* One sequence behind the other *)
Flats(g, seqs) ==
    g = [i \in 1 .. Len(seqs) |-> IF i = 1 THEN seqs[i] ELSE g[i - 1] \o seqs[i]]

LEMMA FlatsExist ==
  ASSUME NEW S, NEW seqs \in Seq(Seq(S)), Len(seqs) # 0
  PROVE  \E g : Flats(g, seqs)
<1>1. PICK N \in Nat : N = Len(seqs) /\ N >= 1
  OBVIOUS
<1> DEFINE F == [x \in Seq(S) \X Nat |->
                   IF x[2] \in 1 .. N THEN x[1] \o seqs[x[2]] ELSE x[1]]
<1>2. \A s \in Seq(S), i \in Nat :
         F[<<s, i>>] = IF i \in 1 .. N THEN s \o seqs[i] ELSE s
  OBVIOUS
<1>3. F \in [Seq(S) \X Nat -> Seq(S)]
  <2> SUFFICES ASSUME NEW s \in Seq(S), NEW i \in Nat
               PROVE  (IF i \in 1 .. N THEN s \o seqs[i] ELSE s) \in Seq(S)
    OBVIOUS
  <2>1. i \in 1 .. N => seqs[i] \in Seq(S)
    BY <1>1
  <2>2. QED BY <2>1
<1>4. << >> \in Seq(S)
  OBVIOUS
<1> HIDE DEF F
<1>5. PICK g \in [0 .. N -> Seq(S)] : Steps(g, << >>, F, N)
  BY <1>3, <1>4, Recursion
<1>6. ASSUME NEW i \in 1 .. N PROVE g[i] = g[i - 1] \o seqs[i]
  <2>1. g[i] = F[<<g[i - 1], i>>]
    BY <1>5 DEF Steps
  <2>2. i \in Nat /\ i - 1 \in 0 .. N
    OBVIOUS
  <2>3. g[i - 1] \in Seq(S)
    BY <2>2
  <2>4. F[<<g[i - 1], i>>] = g[i - 1] \o seqs[i]
    BY <1>2, <2>2, <2>3
  <2>5. QED BY <2>1, <2>4
<1>7. g[1] = seqs[1]
  <2>1. seqs[1] \in Seq(S) /\ g[0] = << >>
    BY <1>1, <1>5 DEF Steps
  <2>2. g[1] = << >> \o seqs[1]
    <3>1. 1 \in 1 .. N /\ 1 - 1 = 0
      BY <1>1
    <3>2. g[1] = g[1 - 1] \o seqs[1]
      BY <1>6, <3>1
    <3>3. QED BY <2>1, <3>1, <3>2
  <2>3. QED BY <2>1, <2>2
<1> DEFINE h == [i \in 1 .. N |-> g[i]]
<1>8. \A i \in 1 .. N : h[i] = g[i]
  OBVIOUS
<1>9. h = [i \in 1 .. N |-> h[i]]
  OBVIOUS
<1> HIDE DEF h
<1>10. ASSUME NEW i \in 1 .. N
       PROVE  h[i] = IF i = 1 THEN seqs[i] ELSE h[i - 1] \o seqs[i]
  <2>1. i # 1 => i - 1 \in 1 .. N
    OBVIOUS
  <2>2. QED BY <2>1, <1>6, <1>7, <1>8
<1>11. Flats(h, seqs)
  BY <1>1, <1>9, <1>10 DEF Flats
<1>12. QED
  BY <1>11

LEMMA FlattenIs ==
  ASSUME NEW S, NEW seqs \in Seq(Seq(S)), Len(seqs) # 0
  PROVE  \E g : Flats(g, seqs) /\ FlattenSeq(seqs) = g[Len(seqs)]
<1> DEFINE G == CHOOSE g : Flats(g, seqs)
<1>1. Flats(G, seqs)
  BY FlatsExist
<1>2. FlattenSeq(seqs) = G[Len(seqs)]
  BY DEF FlattenSeq, Flats
<1>3. QED
  BY <1>1, <1>2

LEMMA FlattenOne ==
  ASSUME NEW g, NEW seqs, Flats(g, seqs), NEW i \in 1 .. Len(seqs)
  PROVE  g[i] = IF i = 1 THEN seqs[i] ELSE g[i - 1] \o seqs[i]
BY DEF Flats

LEMMA NoLength ==
  ASSUME NEW S, NEW s \in Seq(S), Len(s) = 0
  PROVE  s = << >>
OBVIOUS

\* a chunk more is its bytes more
LEMMA FlattenAppend ==
  ASSUME NEW S, NEW seqs \in Seq(Seq(S)), NEW c \in Seq(S)
  PROVE  FlattenSeq(Append(seqs, c)) = FlattenSeq(seqs) \o c
<1>1. PICK N \in Nat : N = Len(seqs)
  OBVIOUS
<1>2. PICK more \in Seq(Seq(S)) : more = Append(seqs, c)
  <2>1. Append(seqs, c) \in Seq(Seq(S))
    OBVIOUS
  <2>2. QED BY <2>1
<1>3. Len(more) = N + 1 /\ more[N + 1] = c /\ \A i \in 1 .. N : more[i] = seqs[i]
  BY <1>1, <1>2
<1>4. PICK h : Flats(h, more) /\ FlattenSeq(more) = h[N + 1]
  BY <1>3, FlattenIs
<1>5. CASE N = 0
  <2>1. FlattenSeq(more) = c
    BY <1>3, <1>4, <1>5, FlattenOne
  <2>2. FlattenSeq(seqs) = << >>
    <3>1. seqs = << >>
      BY <1>1, <1>5, NoLength
    <3>2. QED BY <3>1 DEF FlattenSeq
  <2>3. QED BY <2>1, <2>2, <1>2
<1>6. CASE N # 0
  <2>1. PICK g : Flats(g, seqs) /\ FlattenSeq(seqs) = g[N]
    BY <1>1, <1>6, FlattenIs
  <2> DEFINE T == {i \in Nat : i \in 1 .. N => g[i] = h[i]}
  <2>2. 0 \in T
    OBVIOUS
  <2>3. ASSUME NEW i \in Nat, i \in T PROVE i + 1 \in T
    <3> SUFFICES ASSUME i + 1 \in 1 .. N PROVE g[i + 1] = h[i + 1]
      OBVIOUS
    <3>1. /\ i + 1 \in 1 .. Len(seqs) /\ i + 1 \in 1 .. Len(more)
          /\ more[i + 1] = seqs[i + 1]
      BY <1>1, <1>3
    <3>2. PICK j \in 1 .. N : j = i + 1 /\ j - 1 = i /\ (j # 1 => i \in 1 .. N)
      OBVIOUS
    <3>3. g[j] = IF j = 1 THEN seqs[j] ELSE g[j - 1] \o seqs[j]
      BY <2>1, <3>1, <3>2, FlattenOne
    <3>4. h[j] = IF j = 1 THEN more[j] ELSE h[j - 1] \o more[j]
      BY <1>4, <3>1, <3>2, FlattenOne
    <3>5. QED BY <2>3, <3>1, <3>2, <3>3, <3>4
  <2>4. Nat \subseteq T
    <3> HIDE DEF T
    <3> QED BY <2>2, <2>3, SetInduction
  <2>5. N \in T /\ N \in 1 .. N
    BY <2>4, <1>6
  <2>6. h[N] = g[N]
    BY <2>5
  <2>7. N + 1 \in 1 .. Len(more) /\ N + 1 # 1 /\ N + 1 - 1 = N
    BY <1>3, <1>6
  <2>8. h[N + 1] = h[N] \o c
    <3>1. PICK k \in 1 .. Len(more) : k = N + 1 /\ k # 1 /\ k - 1 = N
      BY <2>7
    <3>2. h[k] = h[k - 1] \o more[k]
      BY <1>4, <3>1, FlattenOne
    <3>3. QED BY <1>3, <3>1, <3>2
  <2>9. QED BY <1>2, <1>4, <2>1, <2>6, <2>8
<1>7. QED
  BY <1>5, <1>6
-----------------------------------------------------------------------------
(* The hash: two numbers with the same remainder *)
Cong(x, y) == \E k \in Int : x = y + k * FpSize

LEMMA CongSame == \A x \in Int : Cong(x, x)
<1> SUFFICES ASSUME NEW x \in Int PROVE Cong(x, x)
  OBVIOUS
<1>1. FpSize \in Nat
  BY ChunkerAssumption
<1>2. 0 \in Int /\ x = x + 0 * FpSize
  BY <1>1
<1>3. QED BY <1>2 DEF Cong

LEMMA CongBack ==
  ASSUME NEW x \in Int, NEW y \in Int, Cong(x, y)
  PROVE  Cong(y, x)
<1>1. PICK k \in Int : x = y + k * FpSize
  BY DEF Cong
<1>2. FpSize \in Nat
  BY ChunkerAssumption
<1>3. -k \in Int /\ y = x + (-k) * FpSize
  BY <1>1, <1>2
<1>4. QED BY <1>3 DEF Cong

LEMMA CongOn ==
  ASSUME NEW x \in Int, NEW y \in Int, NEW z \in Int, Cong(x, y), Cong(y, z)
  PROVE  Cong(x, z)
<1>1. PICK k \in Int : x = y + k * FpSize
  BY DEF Cong
<1>2. PICK l \in Int : y = z + l * FpSize
  BY DEF Cong
<1>3. FpSize \in Nat
  BY ChunkerAssumption
<1>4. k + l \in Int /\ x = z + (k + l) * FpSize
  BY <1>1, <1>2, <1>3
<1>5. QED BY <1>4 DEF Cong

LEMMA CongPlus ==
  ASSUME NEW x \in Int, NEW y \in Int, NEW u \in Int, NEW v \in Int, Cong(x, y), Cong(u, v)
  PROVE  Cong(x + u, y + v)
<1>1. PICK k \in Int : x = y + k * FpSize
  BY DEF Cong
<1>2. PICK l \in Int : u = v + l * FpSize
  BY DEF Cong
<1>3. FpSize \in Nat
  BY ChunkerAssumption
<1>4. k + l \in Int /\ x + u = (y + v) + (k + l) * FpSize
  BY <1>1, <1>2, <1>3
<1>5. QED BY <1>4 DEF Cong

LEMMA CongTimes ==
  ASSUME NEW x \in Int, NEW y \in Int, NEW c \in Int, Cong(x, y)
  PROVE  Cong(x * c, y * c)
<1>1. PICK k \in Int : x = y + k * FpSize
  BY DEF Cong
<1>2. FpSize \in Nat
  BY ChunkerAssumption
<1>3. k * c \in Int /\ x * c = y * c + (k * c) * FpSize
  BY <1>1, <1>2
<1>4. QED BY <1>3 DEF Cong

LEMMA Products ==
  ASSUME NEW a \in Nat, NEW b \in Nat, NEW m \in Nat, a < b
  PROVE  a * m + m <= b * m
<1>1. PICK d \in Nat : b = a + 1 + d
  OBVIOUS
<1>2. b * m = a * m + m + d * m /\ d * m \in Nat /\ a * m \in Nat
  BY <1>1
<1>3. QED BY <1>2

LEMMA Remainder ==
  ASSUME NEW m \in Nat \ {0}, NEW x \in Nat
  PROVE  \E d \in Nat, r \in 0 .. m - 1 : r = x % m /\ x = d * m + r
<1>1. PICK d \in Nat : d = x \div m
  OBVIOUS
<1>2. PICK r \in Nat : r = x % m /\ r < m
  OBVIOUS
<1>3. x = d * m + r
  BY <1>1, <1>2
<1>4. r \in 0 .. m - 1
  BY <1>2
<1>5. QED BY <1>2, <1>3, <1>4

LEMMA CongMod ==
  ASSUME NEW x \in Nat
  PROVE  x % FpSize \in 0 .. FpSize - 1 /\ Cong(x % FpSize, x)
<1>1. FpSize \in Nat \ {0}
  BY ChunkerAssumption
<1>2. PICK d \in Nat, r \in 0 .. FpSize - 1 : r = x % FpSize /\ x = d * FpSize + r
  BY <1>1, Remainder
<1>3. PICK p \in Nat : p = d * FpSize
  BY <1>1
<1>4. (-d) * FpSize = -p
  BY <1>1, <1>3
<1>5. -d \in Int /\ r = x + (-d) * FpSize
  BY <1>1, <1>2, <1>3, <1>4
<1>6. Cong(r, x)
  BY <1>5 DEF Cong
<1>7. QED BY <1>2, <1>6

\* the 2^23 of the tables is a multiple of the hash's 2^16
LEMMA Multiple == \E e \in Nat : PolySize = e * FpSize
<1>1. FpSize \in Nat \ {0} /\ PolySize \in Nat /\ PolySize % FpSize = 0
  BY ChunkerAssumption
<1>2. PICK e \in Nat, r \in 0 .. FpSize - 1 : r = PolySize % FpSize /\ PolySize = e * FpSize + r
  BY <1>1, Remainder
<1>3. PolySize = e * FpSize
  BY <1>1, <1>2
<1>4. QED BY <1>3

LEMMA CongPolySize ==
  ASSUME NEW x \in Nat
  PROVE  x % PolySize \in 0 .. PolySize - 1 /\ Cong(x % PolySize, x)
<1>1. FpSize \in Nat \ {0} /\ PolySize \in Nat \ {0}
  BY ChunkerAssumption
<1>2. PICK d \in Nat, r \in 0 .. PolySize - 1 : r = x % PolySize /\ x = d * PolySize + r
  BY <1>1, Remainder
<1>3. PICK e \in Nat : PolySize = e * FpSize
  BY Multiple
<1>4. d * PolySize = (d * e) * FpSize
  BY <1>1, <1>3
<1>5. PICK f \in Nat : f = d * e
  OBVIOUS
<1>6. PICK p \in Nat : p = f * FpSize /\ p = d * PolySize
  BY <1>1, <1>4, <1>5
<1>7. (-f) * FpSize = -p
  BY <1>1, <1>6
<1>8. -f \in Int /\ r = x + (-f) * FpSize
  BY <1>1, <1>2, <1>6, <1>7
<1>9. Cong(r, x)
  BY <1>8 DEF Cong
<1>10. QED BY <1>2, <1>9

LEMMA CongZero == Cong(PolySize, 0)
<1>1. FpSize \in Nat /\ PolySize \in Nat
  BY ChunkerAssumption
<1>2. PICK e \in Nat : PolySize = e * FpSize
  BY Multiple
<1>3. e \in Int /\ PolySize = 0 + e * FpSize
  BY <1>1, <1>2
<1>4. QED BY <1>3 DEF Cong

LEMMA CongEqual ==
  ASSUME NEW x \in 0 .. FpSize - 1, NEW y \in 0 .. FpSize - 1, Cong(x, y)
  PROVE  x = y
<1>1. PICK k \in Int : x = y + k * FpSize
  BY DEF Cong
<1>2. FpSize \in Nat \ {0}
  BY ChunkerAssumption
<1>3. PICK s \in Int : s = k * FpSize
  BY <1>2
<1>4. ~(k > 0)
  <2> SUFFICES ASSUME k > 0 PROVE FALSE
    OBVIOUS
  <2>1. k \in Nat /\ 0 * FpSize + FpSize <= k * FpSize
    BY <1>2, Products
  <2>2. FpSize <= s
    BY <1>2, <1>3, <2>1
  <2>3. QED BY <1>1, <1>2, <1>3, <2>2
<1>5. ~(k < 0)
  <2> SUFFICES ASSUME k < 0 PROVE FALSE
    OBVIOUS
  <2>1. PICK j \in Nat : j = -k /\ 0 < j
    OBVIOUS
  <2>2. 0 * FpSize + FpSize <= j * FpSize
    BY <1>2, <2>1, Products
  <2>3. j * FpSize = -s
    BY <1>2, <1>3, <2>1
  <2>4. FpSize <= -s
    BY <1>2, <2>2, <2>3
  <2>5. QED BY <1>1, <1>2, <1>3, <2>4
<1>6. QED BY <1>1, <1>2, <1>4, <1>5

-----------------------------------------------------------------------------
(* The table of powers *)
LEMMA Powers ==
  /\ PowerLUT \in [0 .. WinSize - 1 -> Nat]
  /\ PowerLUT[0] = 1
  /\ \A i \in 1 .. WinSize - 1 : PowerLUT[i] = (PowerLUT[i - 1] * PolyBase) % PolySize
<1>1. PICK N \in Nat : N = WinSize - 1
  BY ChunkerAssumption
<1>2. PolyBase \in Nat /\ PolySize \in Nat \ {0}
  BY ChunkerAssumption
<1> DEFINE F == [x \in Nat \X Nat |-> (x[1] * PolyBase) % PolySize]
<1>3. F \in [Nat \X Nat -> Nat]
  <2> SUFFICES ASSUME NEW x \in Nat \X Nat PROVE (x[1] * PolyBase) % PolySize \in Nat
    OBVIOUS
  <2>1. x[1] * PolyBase \in Nat
    BY <1>2
  <2>2. QED BY <1>2, <2>1
<1>4. \A x, i \in Nat : F[<<x, i>>] = (x * PolyBase) % PolySize
  OBVIOUS
<1> HIDE DEF F
<1>5. PICK g \in [0 .. N -> Nat] : Steps(g, 1, F, N)
  BY <1>3, Recursion
<1>6. ASSUME NEW i \in 1 .. N PROVE g[i] = (g[i - 1] * PolyBase) % PolySize
  <2>1. i \in Nat /\ g[i - 1] \in Nat
    OBVIOUS
  <2>2. QED BY <1>4, <1>5, <2>1 DEF Steps
<1>7. g = [i \in 0 .. WinSize - 1 |-> IF i = 0 THEN 1 ELSE (g[i - 1] * PolyBase) % PolySize]
  <2>1. g[0] = 1
    BY <1>5 DEF Steps
  <2>2. ASSUME NEW i \in 0 .. N
        PROVE  g[i] = IF i = 0 THEN 1 ELSE (g[i - 1] * PolyBase) % PolySize
    <3>1. i = 0 \/ i \in 1 .. N
      OBVIOUS
    <3>2. QED BY <1>6, <2>1, <3>1
  <2>3. g = [i \in 0 .. N |-> g[i]]
    OBVIOUS
  <2>4. QED BY <1>1, <2>2, <2>3
<1>8. PowerLUT =
        [i \in 0 .. WinSize - 1 |-> IF i = 0 THEN 1 ELSE (PowerLUT[i - 1] * PolyBase) % PolySize]
  BY <1>7 DEF PowerLUT
<1>9. PowerLUT[0] = 1
  BY <1>1, <1>8
<1>10. \A i \in 1 .. N : PowerLUT[i] = (PowerLUT[i - 1] * PolyBase) % PolySize
  BY <1>1, <1>8
<1>11. PowerLUT \in [0 .. N -> Nat]
  <2> DEFINE T == {i \in Nat : i \in 0 .. N => PowerLUT[i] \in Nat}
  <2>1. 0 \in T
    BY <1>9
  <2>2. ASSUME NEW i \in Nat, i \in T PROVE i + 1 \in T
    <3> SUFFICES ASSUME i + 1 \in 1 .. N PROVE PowerLUT[i + 1] \in Nat
      OBVIOUS
    <3>1. PICK j \in 1 .. N : j = i + 1 /\ j - 1 = i /\ i \in 0 .. N
      OBVIOUS
    <3>2. PowerLUT[j] = (PowerLUT[i] * PolyBase) % PolySize
      BY <1>10, <3>1
    <3>3. PowerLUT[i] * PolyBase \in Nat
      BY <2>2, <3>1, <1>2
    <3>4. (PowerLUT[i] * PolyBase) % PolySize \in Nat
      BY <1>2, <3>3
    <3>5. QED BY <3>1, <3>2, <3>4
  <2>3. Nat \subseteq T
    <3> HIDE DEF T
    <3> QED BY <2>1, <2>2, SetInduction
  <2>4. \A i \in 0 .. N : PowerLUT[i] \in Nat
    BY <2>3
  <2>5. PowerLUT = [i \in 0 .. N |-> PowerLUT[i]]
    BY <1>1, <1>8
  <2>6. QED BY <2>4, <2>5
<1>12. QED
  BY <1>1, <1>9, <1>10, <1>11
-----------------------------------------------------------------------------
(* The polynomial of a window *)
Horner(h, w) ==
    h = [i \in 0 .. Len(w) |-> IF i = 0 THEN 0 ELSE (h[i - 1] * PolyBase + w[i]) % FpSize]

LEMMA HornerOne ==
  ASSUME NEW h, NEW w, Horner(h, w), NEW i \in 0 .. Len(w)
  PROVE  h[i] = IF i = 0 THEN 0 ELSE (h[i - 1] * PolyBase + w[i]) % FpSize
BY DEF Horner

LEMMA HornerExists ==
  ASSUME NEW w \in Seq(Nat)
  PROVE  \E h \in [0 .. Len(w) -> 0 .. FpSize - 1] : Horner(h, w)
<1>1. PICK N \in Nat : N = Len(w)
  OBVIOUS
<1>2. PolyBase \in Nat /\ FpSize \in Nat \ {0}
  BY ChunkerAssumption
<1> DEFINE R == 0 .. FpSize - 1
           F == [x \in R \X Nat |->
                   IF x[2] \in 1 .. N THEN (x[1] * PolyBase + w[x[2]]) % FpSize ELSE x[1]]
<1>3. F \in [R \X Nat -> R]
  <2> SUFFICES ASSUME NEW v \in R, NEW i \in Nat, i \in 1 .. N
               PROVE  (v * PolyBase + w[i]) % FpSize \in R
    OBVIOUS
  <2>1. w[i] \in Nat /\ v * PolyBase \in Nat
    BY <1>1, <1>2
  <2>2. v * PolyBase + w[i] \in Nat
    BY <2>1
  <2>3. QED BY <2>2, CongMod
<1>4. \A v \in R, i \in 1 .. N : F[<<v, i>>] = (v * PolyBase + w[i]) % FpSize
  OBVIOUS
<1>5. 0 \in R
  BY <1>2
<1> HIDE DEF F, R
<1>6. PICK g \in [0 .. N -> R] : Steps(g, 0, F, N)
  BY <1>3, <1>5, Recursion
<1>7. ASSUME NEW i \in 1 .. N PROVE g[i] = (g[i - 1] * PolyBase + w[i]) % FpSize
  <2>1. i - 1 \in 0 .. N
    OBVIOUS
  <2>2. g[i - 1] \in R
    BY <2>1
  <2>3. QED BY <1>4, <1>6, <2>2 DEF Steps
<1>8. g[0] = 0
  BY <1>6 DEF Steps
<1>9. ASSUME NEW i \in 0 .. N
      PROVE  g[i] = IF i = 0 THEN 0 ELSE (g[i - 1] * PolyBase + w[i]) % FpSize
  <2>1. i = 0 \/ i \in 1 .. N
    OBVIOUS
  <2>2. QED BY <2>1, <1>7, <1>8
<1>10. g = [i \in 0 .. N |-> g[i]]
  OBVIOUS
<1>11. Horner(g, w)
  BY <1>1, <1>9, <1>10 DEF Horner
<1>12. QED
  BY <1>1, <1>6, <1>11 DEF R

LEMMA HornerSame ==
  ASSUME NEW v \in Seq(Nat), NEW w \in Seq(Nat), NEW g, NEW h, Horner(g, v), Horner(h, w),
         NEW n \in Nat, n <= Len(v), n <= Len(w), \A i \in 1 .. n : v[i] = w[i]
  PROVE  \A i \in 0 .. n : g[i] = h[i]
<1> DEFINE T == {i \in Nat : i \in 0 .. n => g[i] = h[i]}
<1>1. 0 \in T
  <2>1. 0 \in 0 .. Len(v) /\ 0 \in 0 .. Len(w)
    OBVIOUS
  <2>2. g[0] = 0 /\ h[0] = 0
    BY <2>1, HornerOne
  <2>3. QED BY <2>2
<1>2. ASSUME NEW i \in Nat, i \in T PROVE i + 1 \in T
  <2> SUFFICES ASSUME i + 1 \in 1 .. n PROVE g[i + 1] = h[i + 1]
    OBVIOUS
  <2>1. PICK j \in 1 .. n : j = i + 1 /\ j # 0 /\ j - 1 = i /\ i \in 0 .. n
    OBVIOUS
  <2>2. j \in 0 .. Len(v) /\ j \in 0 .. Len(w)
    OBVIOUS
  <2>3. g[j] = (g[i] * PolyBase + v[j]) % FpSize
    BY <2>1, <2>2, HornerOne
  <2>4. h[j] = (h[i] * PolyBase + w[j]) % FpSize
    BY <2>1, <2>2, HornerOne
  <2>5. g[i] = h[i] /\ v[j] = w[j]
    BY <1>2, <2>1
  <2>6. QED BY <2>1, <2>3, <2>4, <2>5
<1>3. Nat \subseteq T
  <2> HIDE DEF T
  <2> QED BY <1>1, <1>2, SetInduction
<1>4. QED
  BY <1>3

LEMMA PolynomialIs ==
  ASSUME NEW w \in Seq(Nat)
  PROVE  \E h \in [0 .. Len(w) -> 0 .. FpSize - 1] : Horner(h, w) /\ Polynomial(w) = h[Len(w)]
<1>1. PICK h \in [0 .. Len(w) -> 0 .. FpSize - 1] : Horner(h, w)
  BY HornerExists
<1> DEFINE G == CHOOSE g : Horner(g, w)
<1>2. Horner(G, w)
  BY <1>1
<1>3. Polynomial(w) = G[Len(w)]
  BY DEF Polynomial, Horner
<1> HIDE DEF G
<1>4. Len(w) \in Nat /\ Len(w) \in 0 .. Len(w)
  OBVIOUS
<1>5. \A i \in 0 .. Len(w) : G[i] = h[i]
  BY <1>1, <1>2, <1>4, HornerSame
<1>6. QED
  BY <1>1, <1>3, <1>4, <1>5

LEMMA PolynomialRange ==
  ASSUME NEW w \in Seq(Nat)
  PROVE  Polynomial(w) \in 0 .. FpSize - 1 /\ Polynomial(w) \in Nat
<1>1. PICK h \in [0 .. Len(w) -> 0 .. FpSize - 1] : Polynomial(w) = h[Len(w)]
  BY PolynomialIs
<1>2. Len(w) \in 0 .. Len(w)
  OBVIOUS
<1>3. QED BY <1>1, <1>2

LEMMA PolynomialEmpty == Polynomial(<< >>) = 0
<1>1. << >> \in Seq(Nat) /\ Len(<< >>) = 0
  OBVIOUS
<1>2. PICK h \in [0 .. Len(<< >>) -> 0 .. FpSize - 1] :
         Horner(h, << >>) /\ Polynomial(<< >>) = h[Len(<< >>)]
  BY <1>1, PolynomialIs
<1>3. 0 \in 0 .. Len(<< >>)
  BY <1>1
<1>4. h[0] = 0
  BY <1>2, <1>3, HornerOne
<1>5. QED BY <1>1, <1>2, <1>4

LEMMA PolynomialAppend ==
  ASSUME NEW w \in Seq(Nat), NEW b \in Nat
  PROVE  Polynomial(Append(w, b)) = (Polynomial(w) * PolyBase + b) % FpSize
<1>1. PICK N \in Nat : N = Len(w)
  OBVIOUS
<1>2. PICK v \in Seq(Nat) : v = Append(w, b)
  <2>1. Append(w, b) \in Seq(Nat)
    OBVIOUS
  <2>2. QED BY <2>1
<1>3. Len(v) = N + 1 /\ v[N + 1] = b /\ \A i \in 1 .. N : v[i] = w[i]
  BY <1>1, <1>2
<1>4. PICK g : Horner(g, w) /\ Polynomial(w) = g[N]
  BY <1>1, PolynomialIs
<1>5. PICK h : Horner(h, v) /\ Polynomial(v) = h[N + 1]
  BY <1>3, PolynomialIs
<1>6. N <= Len(w) /\ N <= Len(v) /\ \A i \in 1 .. N : w[i] = v[i]
  BY <1>1, <1>3
<1>7. \A i \in 0 .. N : g[i] = h[i]
  BY <1>4, <1>5, <1>6, HornerSame
<1>8. PICK j \in 0 .. Len(v) : j = N + 1 /\ j # 0 /\ j - 1 = N
  BY <1>3
<1>9. h[j] = (h[N] * PolyBase + v[j]) % FpSize
  BY <1>5, <1>8, HornerOne
<1>10. g[N] = h[N]
  BY <1>7
<1>11. QED
  BY <1>2, <1>3, <1>4, <1>5, <1>8, <1>9, <1>10

\* the same as a congruence
LEMMA PolynomialMore ==
  ASSUME NEW w \in Seq(Nat), NEW b \in Nat
  PROVE  /\ Polynomial(w) * PolyBase + b \in Nat
         /\ Cong(Polynomial(Append(w, b)), Polynomial(w) * PolyBase + b)
<1>1. PolyBase \in Nat
  BY ChunkerAssumption
<1>2. PICK x \in Nat : x = Polynomial(w)
  BY PolynomialRange
<1>3. x * PolyBase \in Nat
  BY <1>1
<1>4. x * PolyBase + b \in Nat
  BY <1>3
<1>5. QED
  BY <1>2, <1>4, CongMod, PolynomialAppend
LEMMA NextPower ==
  ASSUME NEW i \in 1 .. WinSize - 1
  PROVE  /\ PowerLUT[i] \in Nat /\ PowerLUT[i - 1] \in Nat
         /\ Cong(PowerLUT[i], PowerLUT[i - 1] * PolyBase)
<1>1. i \in 0 .. WinSize - 1 /\ i - 1 \in 0 .. WinSize - 1
  BY ChunkerAssumption
<1>2. PICK x \in Nat : x = PowerLUT[i - 1]
  BY <1>1, Powers
<1>3. PowerLUT[i] = (x * PolyBase) % PolySize
  BY <1>2, Powers
<1>4. x * PolyBase \in Nat
  BY ChunkerAssumption
<1>5. Cong((x * PolyBase) % PolySize, x * PolyBase)
  BY <1>4, CongPolySize
<1>6. PowerLUT[i] \in Nat
  BY <1>1, Powers
<1>7. QED BY <1>2, <1>3, <1>5, <1>6

\* u is the hash x with byte b behind it; x is y with byte a in front, at power q
Behind(u, x, b) == Cong(u, x * PolyBase + b)
Shifted(r, q) == Cong(r, q * PolyBase)
InFront(x, a, q, y) == Cong(x, a * q + y)

LEMMA FrontStep ==
  ASSUME NEW a \in Nat, NEW q \in Nat, NEW r \in Nat, NEW x \in Nat, NEW y \in Nat,
         NEW u \in Nat, NEW v \in Nat, NEW b \in Nat,
         InFront(x, a, q, y), Shifted(r, q), Behind(u, x, b), Behind(v, y, b)
  PROVE  InFront(u, a, r, v)
<1>1. PICK B \in Nat : B = PolyBase
  BY ChunkerAssumption
<1>2. PICK z \in Nat : z = a * q + y
  OBVIOUS
<1>3. PICK p \in Nat : p = q * B
  OBVIOUS
<1>4. /\ x * B \in Int /\ z * B \in Int /\ r * a \in Int /\ p * a \in Int
      /\ y * B + b \in Int /\ x * B + b \in Int /\ z * B + b \in Int
      /\ r * a + v \in Int
  OBVIOUS
<1>5. Cong(x, z)
  BY <1>2 DEF InFront
<1>6. Cong(x * B, z * B)
  <2>1. x \in Int /\ z \in Int /\ B \in Int
    OBVIOUS
  <2>2. QED BY <1>5, <2>1, CongTimes, Zenon
<1>7. Cong(x * B + b, z * B + b)
  BY <1>4, <1>6, CongSame, CongPlus
<1>8. Cong(u, x * B + b)
  BY <1>1 DEF Behind
<1>9. Cong(u, z * B + b)
  BY <1>4, <1>7, <1>8, CongOn
<1>10. Cong(r, p)
  BY <1>1, <1>3 DEF Shifted
<1>11. Cong(r * a, p * a)
  <2>1. r \in Int /\ p \in Int /\ a \in Int
    OBVIOUS
  <2>2. QED BY <1>10, <2>1, CongTimes, Zenon
<1>12. Cong(v, y * B + b)
  BY <1>1 DEF Behind
<1>13. Cong(r * a + v, p * a + (y * B + b))
  BY <1>4, <1>11, <1>12, CongPlus
<1>14. p * a + (y * B + b) = z * B + b
  BY <1>2, <1>3
<1>15. Cong(z * B + b, r * a + v)
  BY <1>4, <1>13, <1>14, CongBack
<1>16. Cong(u, r * a + v)
  BY <1>4, <1>9, <1>15, CongOn
<1>17. r * a = a * r
  OBVIOUS
<1>18. QED BY <1>16, <1>17 DEF InFront

LEMMA PartMore ==
  ASSUME NEW S, NEW w \in Seq(S), NEW i \in Nat, NEW k \in Nat, 1 <= i, i <= k + 1, k + 1 <= Len(w)
  PROVE  /\ SubSeq(w, i, k) \in Seq(S) /\ w[k + 1] \in S
         /\ SubSeq(w, i, k + 1) = Append(SubSeq(w, i, k), w[k + 1])
OBVIOUS

\* what the first byte of a window is in its hash
LEMMA PolynomialFront ==
  ASSUME NEW w \in Seq(Nat), NEW n \in Nat, n < WinSize, n + 1 <= Len(w)
  PROVE  InFront(Polynomial(SubSeq(w, 1, n + 1)), w[1], PowerLUT[n],
                 Polynomial(SubSeq(w, 2, n + 1)))
<1>1. WinSize \in Nat \ {0} /\ w[1] \in Nat
  BY ChunkerAssumption
<1> DEFINE Filling(k) == InFront(Polynomial(SubSeq(w, 1, k + 1)), w[1], PowerLUT[k],
                               Polynomial(SubSeq(w, 2, k + 1)))
           T == {k \in Nat : k <= n => Filling(k)}
<1>2. 0 \in T
  <2>1. SubSeq(w, 1, 1) = Append(<< >>, w[1]) /\ SubSeq(w, 2, 1) = << >> /\ << >> \in Seq(Nat)
    <3>1. << >> \in Seq(Nat) /\ Len(<< >>) = 0
      OBVIOUS
    <3>2. SubSeq(w, 1, 0) = << >>
      <4>1. SubSeq(w, 1, 0) \in Seq(Nat) /\ Len(SubSeq(w, 1, 0)) = 0
        OBVIOUS
      <4>2. QED BY <4>1, NoLength
    <3>3. SubSeq(w, 2, 1) = << >>
      <4>1. SubSeq(w, 2, 1) \in Seq(Nat) /\ Len(SubSeq(w, 2, 1)) = 0
        OBVIOUS
      <4>2. QED BY <4>1, NoLength
    <3>4. SubSeq(w, 1, 0 + 1) = Append(SubSeq(w, 1, 0), w[0 + 1])
      BY PartMore
    <3>5. 0 + 1 = 1
      OBVIOUS
    <3>6. QED BY <3>1, <3>2, <3>3, <3>4, <3>5, Zenon
  <2>2. Cong(Polynomial(Append(<< >>, w[1])), Polynomial(<< >>) * PolyBase + w[1])
    BY <1>1, <2>1, PolynomialMore
  <2>3. PICK a \in Nat : a = w[1]
    BY <1>1
  <2>4. 0 * PolyBase + a = a /\ a * 1 + 0 = a
    BY ChunkerAssumption
  <2>5. Cong(Polynomial(SubSeq(w, 1, 1)), a * 1 + 0)
    BY <2>1, <2>2, <2>3, <2>4, PolynomialEmpty
  <2>6. Filling(0)
    <3>1. InFront(Polynomial(SubSeq(w, 1, 1)), a, 1, 0)
      BY <2>5 DEF InFront
    <3>2. 0 + 1 = 1
      OBVIOUS
    <3>3. PowerLUT[0] = 1
      BY Powers
    <3>4. Polynomial(SubSeq(w, 2, 1)) = 0
      BY <2>1, PolynomialEmpty
    <3>5. QED BY <2>3, <3>1, <3>2, <3>3, <3>4
  <2>7. QED BY <2>6
<1>3. ASSUME NEW k \in Nat, k \in T PROVE k + 1 \in T
  <2> SUFFICES ASSUME k + 1 <= n PROVE Filling(k + 1)
    OBVIOUS
  <2>1. Filling(k)
    BY <1>3
  <2>2. PICK j \in 1 .. WinSize - 1 : j = k + 1 /\ j - 1 = k /\ j + 1 <= Len(w)
    BY <1>1
  <2>3. PICK b \in Nat : b = w[j + 1]
    BY <2>2
  <2>4. /\ SubSeq(w, 1, j) \in Seq(Nat) /\ SubSeq(w, 2, j) \in Seq(Nat)
        /\ SubSeq(w, 1, j + 1) = Append(SubSeq(w, 1, j), b)
        /\ SubSeq(w, 2, j + 1) = Append(SubSeq(w, 2, j), b)
    <3>1. 1 \in Nat /\ 2 \in Nat /\ j \in Nat /\ 1 <= 1 /\ 1 <= 2 /\ 1 <= j + 1 /\ 2 <= j + 1
      BY <2>2
    <3>2. SubSeq(w, 1, j) \in Seq(Nat) /\ SubSeq(w, 1, j + 1) = Append(SubSeq(w, 1, j), b)
      BY <2>2, <2>3, <3>1, PartMore
    <3>3. SubSeq(w, 2, j) \in Seq(Nat) /\ SubSeq(w, 2, j + 1) = Append(SubSeq(w, 2, j), b)
      BY <2>2, <2>3, <3>1, PartMore
    <3>4. QED BY <3>2, <3>3
  <2>5. PICK x \in Nat : x = Polynomial(SubSeq(w, 1, j))
    BY <2>4, PolynomialRange
  <2>6. PICK y \in Nat : y = Polynomial(SubSeq(w, 2, j))
    BY <2>4, PolynomialRange
  <2>7. PICK u \in Nat : u = Polynomial(SubSeq(w, 1, j + 1)) /\ Behind(u, x, b)
    <3>1. Append(SubSeq(w, 1, j), b) \in Seq(Nat)
      BY <2>4
    <3>2. QED BY <3>1, <2>4, <2>5, PolynomialRange, PolynomialMore DEF Behind
  <2>8. PICK v \in Nat : v = Polynomial(SubSeq(w, 2, j + 1)) /\ Behind(v, y, b)
    <3>1. Append(SubSeq(w, 2, j), b) \in Seq(Nat)
      BY <2>4
    <3>2. QED BY <3>1, <2>4, <2>6, PolynomialRange, PolynomialMore DEF Behind
  <2>9. PICK q \in Nat, r \in Nat :
          q = PowerLUT[k] /\ r = PowerLUT[j] /\ Shifted(r, q)
    <3>1. PICK q \in Nat : q = PowerLUT[k]
      BY <2>2, NextPower
    <3>2. QED BY <2>2, <3>1, NextPower DEF Shifted
  <2>10. PICK a \in Nat : a = w[1]
    BY <1>1
  <2>11. InFront(x, a, q, y)
    BY <2>1, <2>2, <2>5, <2>6, <2>9, <2>10
  <2>12. InFront(u, a, r, v)
    BY <2>7, <2>8, <2>9, <2>11, FrontStep
  <2>13. QED
    BY <2>2, <2>7, <2>8, <2>9, <2>10, <2>12
<1>4. Nat \subseteq T
  <2> HIDE DEF T
  <2> QED BY <1>2, <1>3, SetInduction
<1>5. n \in T
  BY <1>4
<1>6. QED
  BY <1>5
LEMMA PartLength ==
  ASSUME NEW S, NEW s \in Seq(S), NEW i \in Nat, NEW j \in Nat, 1 <= i, i <= j, j <= Len(s)
  PROVE  SubSeq(s, i, j) \in Seq(S) /\ Len(SubSeq(s, i, j)) = j - i + 1
OBVIOUS

LEMMA PartAt ==
  ASSUME NEW S, NEW s \in Seq(S), NEW i \in Nat, NEW j \in Nat, 1 <= i, i <= j, j <= Len(s),
         NEW k \in 1 .. j - i + 1
  PROVE  SubSeq(s, i, j)[k] = s[i + k - 1]
OBVIOUS

LEMMA SameSeq ==
  ASSUME NEW S, NEW s \in Seq(S), NEW t \in Seq(S), Len(s) = Len(t),
         \A i \in 1 .. Len(s) : s[i] = t[i]
  PROVE  s = t
OBVIOUS

LEMMA WholePart ==
  ASSUME NEW S, NEW s \in Seq(S)
  PROVE  SubSeq(s, 1, Len(s)) = s
OBVIOUS

LEMMA RemoveRight ==
  ASSUME NEW a \in Nat, NEW q \in Nat, q = PowerLUT[WinSize - 1]
  PROVE  RemoveLUT(a) \in Nat /\ Cong(RemoveLUT(a) + a * q, 0)
<1>1. PolySize \in Nat \ {0}
  BY ChunkerAssumption
<1>2. PICK p \in Nat : p = a * q
  OBVIOUS
<1>3. PICK m \in 0 .. PolySize - 1 : m = p % PolySize /\ Cong(m, p)
  BY CongPolySize
<1>4. PICK d \in Nat : d = PolySize - m
  BY <1>1
<1>5. PICK r \in Nat : r = d % PolySize /\ Cong(r, d)
  BY <1>1, CongPolySize
<1>6. RemoveLUT(a) = r
  BY <1>2, <1>3, <1>4, <1>5 DEF RemoveLUT
<1>7. Cong(p, m)
  BY <1>3, CongBack
<1>8. Cong(r + p, d + m)
  BY <1>5, <1>7, CongPlus
<1>9. Cong(d + m, 0)
  <2>1. d + m = PolySize
    BY <1>1, <1>4
  <2>2. QED BY <2>1, CongZero
<1>10. r + p \in Int /\ d + m \in Int /\ 0 \in Int
  OBVIOUS
<1>11. Cong(r + p, 0)
  BY <1>8, <1>9, <1>10, CongOn
<1>12. QED BY <1>2, <1>6, <1>11

\* what winFp is while a chunk is being made: the polynomial of the window once it is full
HashOf(s) ==
    IF Len(s) = 0 THEN 0
    ELSE IF Len(s) < WinSize THEN (Polynomial(s) * PowerLUT[WinSize - Len(s)]) % FpSize
    ELSE Polynomial(SubSeq(s, Len(s) - WinSize + 1, Len(s)))

LEMMA FilledRight ==
  ASSUME buffer \in Seq(Nat), Len(buffer) < WinSize, winFp = HashOf(buffer), NEW b \in Nat
  PROVE  Filled(b) = HashOf(Append(buffer, b)) /\ Filled(b) \in 0 .. FpSize - 1
<1>1. WinSize \in Nat \ {0} /\ FpSize \in Nat \ {0}
  BY ChunkerAssumption
<1>2. PICK B \in Nat : B = PolyBase
  BY ChunkerAssumption
<1>3. PICK n \in Nat : n = Len(buffer)
  OBVIOUS
<1>4. PICK i \in 0 .. WinSize - 1 : i = WinSize - n - 1
  <2>1. n < WinSize
    BY <1>3
  <2>2. WinSize - n - 1 \in 0 .. WinSize - 1
    BY <1>1, <2>1
  <2>3. QED BY <2>2
<1>5. PICK q \in Nat : q = PowerLUT[i]
  BY Powers
<1>6. PICK P \in Nat : P = Polynomial(buffer)
  BY PolynomialRange
<1>7. PICK t \in Nat : t = P * B
  OBVIOUS
<1>8. PICK x \in Nat : x = winFp /\ Cong(x, t * q)
  <2>1. CASE n = 0
    <3>1. P = 0
      BY <1>3, <1>6, <2>1, NoLength, PolynomialEmpty
    <3>2. winFp = 0
      BY <1>3, <2>1 DEF HashOf
    <3>3. t * q = 0
      <4>1. t = 0
        BY <1>7, <3>1
      <4>2. QED BY <4>1
    <3>4. QED BY <3>2, <3>3, CongSame
  <2>2. CASE n # 0
    <3>1. PICK j \in 1 .. WinSize - 1 : j = i + 1 /\ j - 1 = i /\ j = WinSize - n
      BY <1>1, <1>3, <1>4, <2>2
    <3>2. PICK r \in Nat : r = PowerLUT[j] /\ Cong(r, q * B)
      BY <1>2, <1>5, <3>1, NextPower
    <3>3. PICK p \in Nat : p = P * r
      OBVIOUS
    <3>4. winFp = p % FpSize
      BY <1>3, <1>6, <2>2, <3>1, <3>2, <3>3 DEF HashOf
    <3>5. p % FpSize \in Nat /\ Cong(p % FpSize, p)
      <4>1. PICK m \in 0 .. FpSize - 1 : m = p % FpSize
        BY CongMod
      <4>2. m \in Nat
        BY <1>1
      <4>3. QED BY <4>1, <4>2, CongMod
    <3>6. PICK s \in Nat : s = q * B
      OBVIOUS
    <3>7. Cong(r * P, s * P)
      <4>1. r \in Int /\ s \in Int /\ P \in Int /\ Cong(r, s)
        BY <3>2, <3>6
      <4>2. QED BY <4>1, CongTimes, Zenon
    <3>8. r * P = p /\ s * P = t * q
      BY <1>7, <3>3, <3>6
    <3>9. Cong(p, t * q)
      BY <3>7, <3>8
    <3>10. Cong(p % FpSize, t * q)
      <4>1. p % FpSize \in Int /\ p \in Int /\ t * q \in Int
        BY <3>5
      <4>2. QED BY <3>5, <3>9, <4>1, CongOn, Zenon
    <3>11. QED BY <3>4, <3>5, <3>10
  <2>3. QED BY <2>1, <2>2
<1>9. PICK Q \in Nat : Q = Polynomial(Append(buffer, b)) /\ Cong(Q, t + b) /\ Q \in 0 .. FpSize - 1
  <2>1. Append(buffer, b) \in Seq(Nat)
    OBVIOUS
  <2>2. QED BY <1>2, <1>6, <1>7, <2>1, PolynomialMore, PolynomialRange
<1>10. PICK e \in Nat, f \in Nat, g \in Nat : e = x + b * q /\ f = (t + b) * q /\ g = Q * q
  <2>1. x + b * q \in Nat /\ (t + b) * q \in Nat /\ Q * q \in Nat
    OBVIOUS
  <2>2. QED BY <2>1
<1>11. Cong(e, f)
  <2>1. x \in Int /\ t * q \in Int /\ b * q \in Int
    OBVIOUS
  <2>2. Cong(x + b * q, t * q + b * q)
    BY <1>8, <2>1, CongPlus, CongSame
  <2>3. t * q + b * q = f
    BY <1>10
  <2>4. QED BY <1>10, <2>2, <2>3
<1>12. Cong(f, g)
  <2>1. t + b \in Int /\ Q \in Int /\ q \in Int
    OBVIOUS
  <2>2. Cong(t + b, Q)
    BY <1>9, <2>1, CongBack
  <2>3. Cong((t + b) * q, Q * q)
    BY <2>1, <2>2, CongTimes, Zenon
  <2>4. QED BY <1>10, <2>3
<1>13. Filled(b) = e % FpSize
  BY <1>3, <1>4, <1>5, <1>8, <1>10 DEF Filled
<1>14. e % FpSize \in 0 .. FpSize - 1 /\ Cong(e % FpSize, e)
  BY CongMod
<1>15. Cong(e % FpSize, g)
  <2>1. e % FpSize \in Int /\ e \in Int /\ f \in Int /\ g \in Int
    BY <1>1, <1>14
  <2>2. QED BY <1>11, <1>12, <1>14, <2>1, CongOn, Zenon
<1>16. Len(Append(buffer, b)) = n + 1
  BY <1>3
<1>17. CASE n + 1 < WinSize
  <2>1. HashOf(Append(buffer, b)) = g % FpSize
    <3>1. WinSize - (n + 1) = i /\ n + 1 # 0
      BY <1>1, <1>4
    <3>2. QED BY <1>5, <1>9, <1>10, <1>16, <1>17, <3>1 DEF HashOf
  <2>2. g % FpSize \in 0 .. FpSize - 1 /\ Cong(g % FpSize, g)
    BY CongMod
  <2>3. Cong(e % FpSize, g % FpSize)
    <3>1. e % FpSize \in Int /\ g % FpSize \in Int /\ g \in Int
      BY <1>1, <1>14, <2>2
    <3>2. QED BY <1>15, <2>2, <3>1, CongOn, CongBack, Zenon
  <2>4. e % FpSize = g % FpSize
    BY <1>14, <2>2, <2>3, CongEqual
  <2>5. QED BY <1>13, <1>14, <2>1, <2>4
<1>18. CASE n + 1 = WinSize
  <2>1. i = 0 /\ q = 1
    BY <1>4, <1>5, <1>18, Powers
  <2>2. g = Q
    BY <1>10, <2>1
  <2>3. e % FpSize = Q
    BY <1>9, <1>14, <1>15, <2>2, CongEqual
  <2>4. HashOf(Append(buffer, b)) = Q
    <3>1. PICK v \in Seq(Nat) : v = Append(buffer, b) /\ Len(v) = WinSize
      <4>1. Append(buffer, b) \in Seq(Nat)
        OBVIOUS
      <4>2. QED BY <1>16, <1>18, <4>1
    <3>2. SubSeq(v, 1, Len(v)) = v
      BY WholePart
    <3>3. WinSize # 0 /\ ~(WinSize < WinSize) /\ WinSize - WinSize + 1 = 1
      BY <1>1
    <3>4. HashOf(v) = Polynomial(v)
      BY <3>1, <3>2, <3>3 DEF HashOf
    <3>5. QED BY <1>9, <3>1, <3>4
  <2>5. QED BY <1>13, <1>14, <2>3, <2>4
<1>19. QED
  BY <1>1, <1>3, <1>17, <1>18

LEMMA RolledRight ==
  ASSUME buffer \in Seq(Nat), Len(buffer) >= WinSize, winFp = HashOf(buffer), NEW b \in Nat
  PROVE  Rolled(b) = HashOf(Append(buffer, b)) /\ Rolled(b) \in 0 .. FpSize - 1
<1>1. WinSize \in Nat \ {0} /\ FpSize \in Nat \ {0}
  BY ChunkerAssumption
<1>2. PICK B \in Nat : B = PolyBase
  BY ChunkerAssumption
<1>3. PICK n \in Nat : n = Len(buffer) /\ n >= WinSize
  OBVIOUS
<1>4. PICK k \in Nat : k = n - WinSize
  <2>1. n - WinSize \in Nat
    BY <1>1, <1>3
  <2>2. QED BY <2>1
<1>5. PICK w \in Seq(Nat) : w = SubSeq(buffer, k + 1, n) /\ Len(w) = WinSize
  <2>1. SubSeq(buffer, k + 1, n) \in Seq(Nat) /\ Len(SubSeq(buffer, k + 1, n)) = WinSize
    BY <1>1, <1>3, <1>4
  <2>2. QED BY <2>1
<1>6. ASSUME NEW i \in 1 .. WinSize PROVE w[i] = buffer[k + i]
  <2>1. PICK m \in Nat : m = k + 1
    OBVIOUS
  <2>2. 1 <= m /\ m <= n /\ i \in 1 .. n - m + 1 /\ m + i - 1 = k + i
    BY <1>1, <1>3, <1>4, <2>1
  <2>3. SubSeq(buffer, m, n)[i] = buffer[m + i - 1]
    BY <1>3, <2>2, PartAt
  <2>4. QED BY <1>5, <2>1, <2>2, <2>3
<1>7. PICK rear \in Seq(Nat) :
        /\ rear = SubSeq(w, 2, WinSize) /\ Len(rear) = WinSize - 1
        /\ \A i \in 1 .. WinSize - 1 : rear[i] = w[i + 1]
  <2>1. /\ SubSeq(w, 2, WinSize) \in Seq(Nat) /\ Len(SubSeq(w, 2, WinSize)) = WinSize - 1
        /\ \A i \in 1 .. WinSize - 1 : SubSeq(w, 2, WinSize)[i] = w[i + 1]
    BY <1>1, <1>5
  <2>2. QED BY <2>1
<1>8. PICK x \in Nat : x = winFp /\ x = Polynomial(w)
  <2>1. n # 0 /\ ~(n < WinSize) /\ n - WinSize + 1 = k + 1
    BY <1>1, <1>3, <1>4
  <2>2. winFp = Polynomial(w)
    BY <1>3, <1>5, <2>1 DEF HashOf
  <2>3. QED BY <2>2, PolynomialRange
<1>9. PICK y \in Nat : y = Polynomial(rear)
  BY PolynomialRange
<1>10. PICK a \in Nat : a = w[1] /\ a = buffer[n + 1 - WinSize]
  <2>1. k + 1 = n + 1 - WinSize /\ 1 \in 1 .. WinSize /\ 1 \in 1 .. Len(w)
    BY <1>1, <1>3, <1>4, <1>5
  <2>2. w[1] = buffer[k + 1]
    BY <1>6, <2>1
  <2>3. w[1] \in Nat
    BY <2>1
  <2>4. QED BY <2>1, <2>2, <2>3
<1>11. PICK q \in Nat : q = PowerLUT[WinSize - 1]
  BY <1>1, Powers
<1>12. Cong(x, a * q + y)
  <2>1. PICK m \in Nat : m = WinSize - 1 /\ m < WinSize /\ m + 1 = WinSize /\ m + 1 <= Len(w)
    BY <1>1, <1>5
  <2>2. InFront(Polynomial(SubSeq(w, 1, m + 1)), w[1], PowerLUT[m], Polynomial(SubSeq(w, 2, m + 1)))
    BY <2>1, PolynomialFront
  <2>3. SubSeq(w, 1, WinSize) = w
    BY <1>5, WholePart
  <2>4. QED BY <1>7, <1>8, <1>9, <1>10, <1>11, <2>1, <2>2, <2>3 DEF InFront
<1>13. PICK r \in Nat : r = RemoveLUT(a) /\ Cong(r + a * q, 0)
  BY <1>11, RemoveRight
<1>14. Cong(x + r, y)
  <2>1. PICK p \in Nat : p = a * q
    OBVIOUS
  <2>2. p + y \in Int /\ x + r \in Int /\ (p + y) + r \in Int /\ r + p \in Int /\ 0 \in Int
    OBVIOUS
  <2>3. Cong(x + r, (p + y) + r)
    <3>1. x \in Int /\ p + y \in Int /\ r \in Int
      OBVIOUS
    <3>2. Cong(x, p + y) /\ Cong(r, r)
      BY <1>12, <2>1, CongSame
    <3>3. QED BY <3>1, <3>2, CongPlus, Zenon
  <2>4. Cong((r + p) + y, 0 + y)
    BY <1>13, <2>1, <2>2, CongPlus, CongSame
  <2>5. (r + p) + y = (p + y) + r /\ 0 + y = y
    OBVIOUS
  <2>6. QED BY <2>2, <2>3, <2>4, <2>5, CongOn
<1>15. PICK z \in Nat : z = x + r
  OBVIOUS
<1>16. Cong(z * B + b, y * B + b)
  <2>1. z \in Int /\ y \in Int /\ B \in Int /\ Cong(z, y)
    BY <1>14, <1>15
  <2>2. Cong(z * B, y * B)
    BY <2>1, CongTimes, Zenon
  <2>3. z * B \in Int /\ y * B \in Int
    OBVIOUS
  <2>4. b \in Int /\ Cong(b, b)
    BY CongSame
  <2>5. QED BY <2>2, <2>3, <2>4, CongPlus, Zenon
<1>17. PICK u \in Nat : u = Polynomial(Append(rear, b)) /\ Cong(u, y * B + b) /\ u \in 0 .. FpSize - 1
  <2>1. Append(rear, b) \in Seq(Nat)
    OBVIOUS
  <2>2. QED BY <1>2, <1>9, <2>1, PolynomialMore, PolynomialRange
<1>18. PICK e \in Nat : e = z * B + b
  <2>1. PICK p \in Nat : p = z * B
    OBVIOUS
  <2>2. p + b \in Nat
    OBVIOUS
  <2>3. QED BY <2>1, <2>2
<1>19. e % FpSize \in 0 .. FpSize - 1 /\ Cong(e % FpSize, e)
  BY CongMod
<1>20. Rolled(b) = e % FpSize
  BY <1>2, <1>3, <1>8, <1>10, <1>13, <1>15, <1>18 DEF Rolled
<1>21. Cong(e % FpSize, u)
  <2>1. e % FpSize \in Int /\ e \in Int /\ y * B + b \in Int /\ u \in Int
    BY <1>1, <1>19
  <2>2. Cong(e, y * B + b)
    BY <1>16, <1>18
  <2>3. QED BY <1>17, <1>19, <2>1, <2>2, CongOn, CongBack, Zenon
<1>22. e % FpSize = u
  BY <1>17, <1>19, <1>21, CongEqual
<1>23. HashOf(Append(buffer, b)) = u
  <2>1. PICK v \in Seq(Nat) : v = Append(buffer, b) /\ Len(v) = n + 1
    <3>1. Append(buffer, b) \in Seq(Nat) /\ Len(Append(buffer, b)) = n + 1
      BY <1>3
    <3>2. QED BY <3>1
  <2>2. Len(v) # 0 /\ ~(Len(v) < WinSize) /\ Len(v) - WinSize + 1 = k + 2
    BY <1>1, <1>3, <1>4, <2>1
  <2>3. SubSeq(v, k + 2, n + 1) = Append(rear, b)
    <3>1. PICK s \in Seq(Nat) :
            /\ s = SubSeq(v, k + 2, n + 1) /\ Len(s) = WinSize
            /\ \A i \in 1 .. WinSize : s[i] = v[k + 1 + i]
      <4>1. /\ SubSeq(v, k + 2, n + 1) \in Seq(Nat) /\ Len(SubSeq(v, k + 2, n + 1)) = WinSize
        <5>1. PICK m \in Nat, l \in Nat : m = k + 2 /\ l = n + 1
          OBVIOUS
        <5>2. 1 <= m /\ m <= l /\ l <= Len(v) /\ l - m + 1 = WinSize
          BY <1>1, <1>3, <1>4, <2>1, <5>1
        <5>3. SubSeq(v, m, l) \in Seq(Nat) /\ Len(SubSeq(v, m, l)) = l - m + 1
          BY <5>2, PartLength
        <5>4. QED BY <5>1, <5>2, <5>3
      <4>2. ASSUME NEW i \in 1 .. WinSize
            PROVE  SubSeq(v, k + 2, n + 1)[i] = v[k + 1 + i]
        <5>1. PICK m \in Nat, l \in Nat : m = k + 2 /\ l = n + 1
          OBVIOUS
        <5>2. 1 <= m /\ m <= l /\ l <= Len(v) /\ i \in 1 .. l - m + 1 /\ m + i - 1 = k + 1 + i
          BY <1>1, <1>3, <1>4, <2>1, <5>1
        <5>3. SubSeq(v, m, l)[i] = v[m + i - 1]
          BY <5>2, PartAt
        <5>4. QED BY <5>1, <5>2, <5>3
      <4>3. QED BY <4>1, <4>2
    <3>2. PICK t \in Seq(Nat) :
            /\ t = Append(rear, b) /\ Len(t) = WinSize
            /\ t[WinSize] = b /\ \A i \in 1 .. WinSize - 1 : t[i] = rear[i]
      <4>1. /\ Append(rear, b) \in Seq(Nat) /\ Len(Append(rear, b)) = WinSize
            /\ Append(rear, b)[WinSize] = b
            /\ \A i \in 1 .. WinSize - 1 : Append(rear, b)[i] = rear[i]
        BY <1>1, <1>7
      <4>2. QED BY <4>1
    <3>3. ASSUME NEW i \in 1 .. WinSize PROVE s[i] = t[i]
      <4>1. CASE i = WinSize
        <5>1. k + 1 + i = n + 1 /\ v[n + 1] = b
          BY <1>3, <1>4, <2>1, <4>1
        <5>2. QED BY <3>1, <3>2, <4>1, <5>1
      <4>2. CASE i # WinSize
        <5>1. i \in 1 .. WinSize - 1 /\ i + 1 \in 1 .. WinSize /\ k + (i + 1) = k + 1 + i
          BY <1>1, <4>2
        <5>2. v[k + 1 + i] = buffer[k + 1 + i]
          <6>1. k + 1 + i \in 1 .. Len(buffer)
            BY <1>1, <1>3, <1>4, <5>1
          <6>2. QED BY <2>1, <6>1
        <5>3. t[i] = w[i + 1]
          BY <1>7, <3>2, <5>1
        <5>4. w[i + 1] = buffer[k + (i + 1)]
          BY <1>6, <5>1
        <5>5. QED BY <3>1, <5>1, <5>2, <5>3, <5>4
      <4>3. QED BY <4>1, <4>2
    <3>4. s = t
      <4>1. Len(s) = Len(t) /\ \A i \in 1 .. Len(s) : s[i] = t[i]
        BY <3>1, <3>2, <3>3
      <4>2. QED BY <4>1, SameSeq
    <3>5. QED BY <3>1, <3>2, <3>4
  <2>4. HashOf(v) = Polynomial(SubSeq(v, k + 2, n + 1))
    BY <2>1, <2>2 DEF HashOf
  <2>5. QED BY <1>17, <2>1, <2>3, <2>4
<1>24. QED
  BY <1>19, <1>20, <1>22, <1>23
-----------------------------------------------------------------------------
(* The inductive invariant *)

Types ==
    /\ job \in Jobs
    /\ pc \in {"init", "read", "cut", "recipe", "end", "exit", "crash"}
    /\ position \in 0 .. Len(file) /\ fileSize \in Nat /\ next \in Nat /\ rest \in Nat
    /\ winFp \in 0 .. FpSize - 1
    /\ block \in Seq(Nat) /\ Len(block) <= ReadSize
    /\ buffer \in Seq(Nat)
    /\ chunks \in Seq(Seq(Nat)) /\ FlattenSeq(chunks) \in Seq(Nat)
    /\ recipe \in [number : Nat, size : Nat]
    /\ pc = "cut" => ChunkingType # "trace"
    /\ pc = "cut" /\ ChunkingType = "var" => next <= Len(block)
    /\ pc = "end" => recipe.number = Len(chunks) /\ recipe.size = fileSize

(* The chunk sizes of a chunker that cuts by content and has been initialised are in order, and *)
(* the buffer is below the largest.                                                              *)
Room ==
    /\ Len(buffer) < MaxChunk
    /\ ChunkingType = "var" /\ pc \notin {"init", "exit"} =>
           MinChunk < AvgChunk /\ AvgChunk < MaxChunk

Untouched == position = 0 /\ fileSize = 0 /\ chunks = << >> /\ buffer = << >> /\ winFp = 0

\* a file of one block: what is cut and what is in the buffer is what was looked at
Whole ==
    /\ pc \in {"init", "read"} => Untouched
    /\ pc = "cut" =>
          /\ block = file /\ fileSize = Len(file)
          /\ FlattenSeq(chunks) \o buffer = SubSeq(file, 1, next)
          /\ winFp = HashOf(buffer)
    /\ pc \in {"recipe", "end"} => FlattenSeq(chunks) = file /\ fileSize = Len(file)

\* the chunk that is being made, and those that are made, end by their content
CutAt(i) ==
    LET p == Starts[i]
        n == Len(chunks[i])
    IN  /\ \A m \in 1 .. n - 1 : m \notin CutPoints(p)
        /\ n \in CutPoints(p) \/ p + n - 1 = Len(file)

Cut ==
    /\ \A i \in 1 .. Len(chunks) : CutAt(i)
    /\ pc = "cut" => \A m \in 1 .. Len(buffer) : m \notin CutPoints(1 + Len(FlattenSeq(chunks)))

\* a file of whole blocks: the chunks are what was read, up to the place in the block
Blocks ==
    /\ position % ReadSize = 0 /\ fileSize = position
    /\ pc = "init" => Untouched
    /\ pc \in {"init", "read"} => FlattenSeq(chunks) = SubSeq(file, 1, position)
    /\ pc = "cut" =>
          /\ Len(block) = ReadSize \/ (Len(block) = 0 /\ position = Len(file))
          /\ Len(block) <= position /\ block = SubSeq(file, position - Len(block) + 1, position)
          /\ next % AvgChunk = 0 /\ next <= Len(block)
          /\ FlattenSeq(chunks) = SubSeq(file, 1, position - Len(block) + next)
    /\ pc \in {"recipe", "end"} => FlattenSeq(chunks) = file /\ fileSize = Len(file)

\* a trace: the chunks are the lines that were read
Lines ==
    /\ pc = "init" => position = 0
    /\ pc # "init" => position = Least(1, Len(file)) \/ 1 < position
    /\ Len(chunks) = Cardinality(KeptUpTo(position))
    /\ \A p \in KeptUpTo(position) :
          chunks[Cardinality(KeptUpTo(p))] = Fill(file[p].fp, file[p].size)
    /\ fileSize = Len(FlattenSeq(chunks))
    /\ pc \in {"recipe", "end"} => KeptUpTo(position) = KeptLines

ChunkInv ==
    /\ Types
    /\ WinSize < MaxChunk => Room
    /\ OneBlock => Whole
    /\ OneBlock /\ WinSize < MaxChunk => Cut
    /\ WholeBlocks => Blocks
    /\ ChunkingType = "trace" => Lines
-----------------------------------------------------------------------------
(* Sequences, and what an action adds to the chunks *)
LEMMA Wider ==
  ASSUME NEW S, NEW T, S \subseteq T, NEW s \in Seq(S)
  PROVE  s \in Seq(T)
<1>1. PICK n \in Nat : n = Len(s)
  OBVIOUS
<1>2. s \in [1 .. n -> S]
  BY <1>1
<1>3. s \in [1 .. n -> T]
  BY <1>2
<1>4. QED BY <1>3

LEMMA EmptySeq == \A S : << >> \in Seq(S) /\ Len(<< >>) = 0
OBVIOUS

LEMMA Appended ==
  ASSUME NEW S, NEW s \in Seq(S), NEW e \in S
  PROVE  /\ Append(s, e) \in Seq(S) /\ Len(Append(s, e)) = Len(s) + 1 /\ Len(s) \in Nat
         /\ Append(s, e)[Len(s) + 1] = e
         /\ \A i \in 1 .. Len(s) : Append(s, e)[i] = s[i]
OBVIOUS

LEMMA Part ==
  ASSUME NEW s \in Seq(Nat), NEW i \in 0 .. Len(s), NEW n \in Nat, i + n <= Len(s)
  PROVE  SubSeq(s, i + 1, i + n) \in Seq(Nat) /\ Len(SubSeq(s, i + 1, i + n)) = n
OBVIOUS

LEMMA Joined ==
  ASSUME NEW S, NEW s \in Seq(S), NEW t \in Seq(S)
  PROVE  /\ s \o t \in Seq(S) /\ Len(s \o t) = Len(s) + Len(t)
         /\ Len(s) \in Nat /\ Len(t) \in Nat
OBVIOUS

LEMMA ClearedSeq ==
  ASSUME NEW s \in Seq(Nat)
  PROVE  Cleared(s) \in Seq(Nat) /\ Len(Cleared(s)) = Len(s)
<1>1. Len(s) \in Nat
  OBVIOUS
<1>2. QED
  BY <1>1 DEF Cleared

LEMMA JobFacts ==
  ASSUME job \in Jobs
  PROVE  /\ ReadSize \in Nat \ {0} /\ Len(file) \in Nat
         /\ ChunkingType \in {"fix", "var", "trace"}
         /\ ChunkingType # "trace" => file \in Seq(Nat)
         /\ ChunkingType = "trace" => file \in Trace /\ file \in Seq(Line)
<1>1. ReadSize \in Nat \ {0} /\ ChunkingType \in {"fix", "var", "trace"}
  BY ChunkerAssumption DEF ReadSize, ChunkingType
<1>2. ASSUME ChunkingType # "trace" PROVE file \in Seq(Nat) /\ Len(file) \in Nat
  <2>1. file \in Seq(Bytes) /\ Bytes \subseteq Nat
    BY <1>2, ChunkerAssumption DEF ChunkingType, file
  <2>2. file \in Seq(Nat)
    BY <2>1, Wider
  <2>3. QED BY <2>2
<1>3. ASSUME ChunkingType = "trace" PROVE file \in Trace /\ file \in Seq(Line) /\ Len(file) \in Nat
  <2>1. file \in Trace
    BY <1>3, ChunkerAssumption DEF ChunkingType, file
  <2>2. file \in Seq(Line)
    BY <2>1 DEF Trace
  <2>3. QED BY <2>1, <2>2
<1>4. QED
  BY <1>1, <1>2, <1>3

LEMMA SameJob ==
  ASSUME job' = job
  PROVE  /\ file' = file /\ ChunkingType' = ChunkingType /\ ReadSize' = ReadSize
         /\ OneBlock' = OneBlock /\ WholeBlocks' = WholeBlocks
BY DEF file, ChunkingType, ReadSize, OneBlock, WholeBlocks

LEMMA JobStays == [Next]_vars => job' = job
BY DEF Next, vars, stream, cutter, ChunkerInit, ReadBlock, FixChunk, FixOver, VarByte, VarOver,
       TraceStep, TraceOver, TraceCrash, TraceLine, GiveRecipe

\* a chunk more
LEMMA OneMore ==
  ASSUME Types, NEW c \in Seq(Nat), chunks' = Append(chunks, c)
  PROVE  /\ chunks' \in Seq(Seq(Nat)) /\ Len(chunks') = Len(chunks) + 1 /\ Len(chunks) \in Nat
         /\ chunks'[Len(chunks) + 1] = c
         /\ \A i \in 1 .. Len(chunks) : chunks'[i] = chunks[i]
         /\ FlattenSeq(chunks') = FlattenSeq(chunks) \o c
         /\ FlattenSeq(chunks') \in Seq(Nat)
         /\ Len(FlattenSeq(chunks')) = Len(FlattenSeq(chunks)) + Len(c)
<1>1. chunks \in Seq(Seq(Nat)) /\ FlattenSeq(chunks) \in Seq(Nat)
  BY DEF Types
<1>2. /\ chunks' \in Seq(Seq(Nat)) /\ Len(chunks') = Len(chunks) + 1 /\ Len(chunks) \in Nat
      /\ chunks'[Len(chunks) + 1] = c
      /\ \A i \in 1 .. Len(chunks) : chunks'[i] = chunks[i]
  BY <1>1, Appended
<1>3. FlattenSeq(chunks') = FlattenSeq(chunks) \o c
  BY <1>1, FlattenAppend
<1>4. /\ FlattenSeq(chunks) \o c \in Seq(Nat)
      /\ Len(FlattenSeq(chunks) \o c) = Len(FlattenSeq(chunks)) + Len(c)
  BY <1>1, Joined
<1>5. QED
  BY <1>2, <1>3, <1>4

LEMMA FlattenNone == FlattenSeq(<< >>) = << >> /\ Len(<< >>) = 0
BY DEF FlattenSeq

-----------------------------------------------------------------------------
(* The inputs of the actions *)
LEMMA HashRange ==
  ASSUME buffer \in Seq(Nat), winFp \in 0 .. FpSize - 1, NEW b \in Nat
  PROVE  /\ Len(buffer) < WinSize => Filled(b) \in 0 .. FpSize - 1
         /\ ~(Len(buffer) < WinSize) => Rolled(b) \in 0 .. FpSize - 1
<1>1. WinSize \in Nat \ {0} /\ FpSize \in Nat \ {0}
  BY ChunkerAssumption
<1>2. PICK n \in Nat : n = Len(buffer)
  OBVIOUS
<1>3. PICK x \in Nat : x = winFp
  BY <1>1
<1>4. ASSUME n < WinSize PROVE Filled(b) \in 0 .. FpSize - 1
  <2>1. WinSize - n - 1 \in 0 .. WinSize - 1
    BY <1>1, <1>4
  <2>2. PICK q \in Nat : q = PowerLUT[WinSize - n - 1]
    BY <2>1, Powers
  <2>3. PICK p \in Nat : p = b * q
    OBVIOUS
  <2>4. x + p \in Nat
    OBVIOUS
  <2>5. Filled(b) = (x + p) % FpSize
    BY <1>2, <1>3, <2>2, <2>3 DEF Filled
  <2>6. QED BY <2>4, <2>5, CongMod
<1>5. ASSUME ~(n < WinSize) PROVE Rolled(b) \in 0 .. FpSize - 1
  <2>1. n + 1 - WinSize \in 1 .. n
    BY <1>1, <1>5
  <2>2. PICK a \in Nat : a = buffer[n + 1 - WinSize]
    BY <1>2, <2>1
  <2>3. PICK q \in Nat : q = PowerLUT[WinSize - 1]
    BY <1>1, Powers
  <2>4. PICK r \in Nat : r = RemoveLUT(a)
    BY <2>3, RemoveRight
  <2>5. PICK B \in Nat : B = PolyBase
    BY ChunkerAssumption
  <2>6. PICK p \in Nat : p = (x + r) * B
    OBVIOUS
  <2>7. p + b \in Nat
    OBVIOUS
  <2>8. Rolled(b) = (p + b) % FpSize
    BY <1>2, <1>3, <2>2, <2>4, <2>5, <2>6 DEF Rolled
  <2>9. QED BY <2>7, <2>8, CongMod
<1>6. QED
  BY <1>2, <1>4, <1>5

LEMMA FromBlockSeq ==
  ASSUME Types, NEW n \in Nat
  PROVE  FromBlock(next, n) \in Seq(Nat) /\ Len(FromBlock(next, n)) = n
<1>1. next \in Nat /\ block \in Seq(Nat)
  BY DEF Types
<1>2. ASSUME NEW i \in 1 .. n
      PROVE  (IF next + i <= Len(block) THEN block[next + i] ELSE 0) \in Nat
  <2>1. next + i <= Len(block) => next + i \in 1 .. Len(block)
    BY <1>1
  <2>2. QED BY <1>1, <2>1
<1>3. FromBlock(next, n) \in [1 .. n -> Nat]
  BY <1>2 DEF FromBlock
<1>4. QED
  BY <1>3

LEMMA FillSeq ==
  ASSUME NEW l \in Line, l.fp # None
  PROVE  Fill(l.fp, l.size) \in Seq(Nat) /\ Len(Fill(l.fp, l.size)) = l.size /\ l.size \in Nat
<1>1. l.fp \in [1 .. Unit -> Nat] /\ l.size \in Nat /\ Unit \in Nat \ {0}
  BY ChunkerAssumption DEF Line
<1>2. PICK f \in [1 .. Unit -> Nat], n \in Nat : f = l.fp /\ n = l.size
  BY <1>1
<1>3. ASSUME NEW i \in 1 .. n PROVE f[((i - 1) % Unit) + 1] \in Nat
  <2>1. i - 1 \in Nat
    OBVIOUS
  <2>2. PICK r \in 0 .. Unit - 1 : r = (i - 1) % Unit
    BY <1>1, <2>1, Remainder
  <2>3. r + 1 \in 1 .. Unit
    BY <1>1
  <2>4. f[r + 1] \in Nat
    BY <2>3
  <2>5. QED BY <2>2, <2>4
<1>4. Fill(f, n) \in [1 .. n -> Nat]
  BY <1>3 DEF Fill
<1>5. Fill(f, n) \in Seq(Nat) /\ Len(Fill(f, n)) = n
  BY <1>4
<1>6. QED BY <1>2, <1>5

LEMMA JoinedMore ==
  ASSUME NEW S, NEW s \in Seq(S), NEW t \in Seq(S), NEW e \in S
  PROVE  s \o Append(t, e) = Append(s \o t, e)
OBVIOUS

\* the next byte: the chunk ends with it, or does not
ByteNext == block[next + 1]
ByteHash == IF Len(buffer) < WinSize THEN Filled(ByteNext) ELSE Rolled(ByteNext)
ByteChunk == Append(buffer, ByteNext)
ByteEnds == ~(Len(buffer) < WinSize) /\ EndsChunk(Len(ByteChunk), ByteHash)

LEMMA ByteHashRight ==
  ASSUME buffer \in Seq(Nat), winFp = HashOf(buffer), block[next + 1] \in Nat
  PROVE  ByteHash = HashOf(ByteChunk)
<1>1. Len(buffer) \in Nat /\ WinSize \in Nat
  BY ChunkerAssumption
<1>2. CASE Len(buffer) < WinSize
  BY <1>2, FilledRight DEF ByteHash, ByteChunk, ByteNext
<1>3. CASE Len(buffer) >= WinSize
  <2>1. ~(Len(buffer) < WinSize)
    BY <1>1, <1>3
  <2>2. QED BY <1>3, <2>1, RolledRight DEF ByteHash, ByteChunk, ByteNext
<1>4. QED
  BY <1>1, <1>2, <1>3
-----------------------------------------------------------------------------
(* Types *)
LEMMA TypesInit == Init => Types
<1> SUFFICES ASSUME Init PROVE Types
  OBVIOUS
<1>1. Len(file) \in Nat /\ ReadSize \in Nat
  BY JobFacts DEF Init
<1>2. 0 \in 0 .. Len(file) /\ FpSize \in Nat \ {0} /\ 0 \in 0 .. FpSize - 1
  BY <1>1, ChunkerAssumption
<1>3. << >> \in Seq(Nat) /\ << >> \in Seq(Seq(Nat)) /\ Len(<< >>) = 0
  BY EmptySeq
<1>4. FlattenSeq(chunks) = << >>
  BY FlattenNone DEF Init
<1>5. recipe \in [number : Nat, size : Nat]
  BY DEF Init, NoRecipe
<1>6. /\ job \in Jobs /\ pc = "init" /\ position = 0 /\ fileSize = 0 /\ next = 0 /\ rest = 0
      /\ winFp = 0 /\ block = << >> /\ buffer = << >> /\ chunks = << >>
  BY DEF Init
<1>7. FlattenSeq(chunks) \in Seq(Nat) /\ Len(block) <= ReadSize
  BY <1>1, <1>3, <1>4, <1>6
<1>8. QED
  BY <1>2, <1>3, <1>5, <1>6, <1>7 DEF Types

LEMMA TypesStart == Types /\ ChunkerInit => Types'
<1> SUFFICES ASSUME Types, ChunkerInit PROVE Types'
  OBVIOUS
<1>1. job' = job /\ job \in Jobs
  BY DEF ChunkerInit, Types
<1>2. file' = file /\ ChunkingType' = ChunkingType /\ ReadSize' = ReadSize
  BY <1>1, SameJob
<1>3. Len(file) \in Nat
  BY <1>1, JobFacts
<1>4. position' \in 0 .. Len(file)
  BY <1>3 DEF ChunkerInit, Least
<1>5. QED
  BY <1>1, <1>2, <1>4 DEF Types, ChunkerInit, cutter

LEMMA ReadFacts ==
  ASSUME Types, ReadBlock
  PROVE  /\ file \in Seq(Nat) /\ ChunkingType # "trace" /\ ReadSize \in Nat \ {0}
         /\ \E size \in Nat :
              /\ size = Least(ReadSize, Len(file) - position)
              /\ position' = position + size /\ position' \in 0 .. Len(file)
              /\ fileSize' = fileSize + size
              /\ block' = SubSeq(file, position + 1, position + size)
              /\ block' \in Seq(Nat) /\ Len(block') = size /\ size <= ReadSize
<1>1. job \in Jobs /\ position \in 0 .. Len(file) /\ ChunkingType # "trace"
  BY DEF Types, ReadBlock
<1>2. file \in Seq(Nat) /\ Len(file) \in Nat /\ ReadSize \in Nat \ {0}
  BY <1>1, JobFacts
<1>3. PICK size \in Nat : size = Least(ReadSize, Len(file) - position)
  <2>1. Len(file) - position \in Nat
    BY <1>1, <1>2
  <2>2. Least(ReadSize, Len(file) - position) \in Nat
    BY <1>2, <2>1 DEF Least
  <2>3. QED BY <2>2
<1>4. position + size <= Len(file) /\ size <= ReadSize /\ position + size \in 0 .. Len(file)
  BY <1>1, <1>2, <1>3 DEF Least
<1>5. /\ SubSeq(file, position + 1, position + size) \in Seq(Nat)
      /\ Len(SubSeq(file, position + 1, position + size)) = size
  BY <1>1, <1>2, <1>4, Part
<1>6. /\ block' = SubSeq(file, position + 1, position + size)
      /\ position' = position + size /\ fileSize' = fileSize + size
  BY <1>3 DEF ReadBlock
<1>7. QED
  BY <1>1, <1>2, <1>3, <1>4, <1>5, <1>6

LEMMA TypesRead == Types /\ ReadBlock => Types'
<1> SUFFICES ASSUME Types, ReadBlock PROVE Types'
  OBVIOUS
<1>1. job' = job /\ job \in Jobs
  BY DEF ReadBlock, Types
<1>2. file' = file /\ ChunkingType' = ChunkingType /\ ReadSize' = ReadSize
  BY <1>1, SameJob
<1>3. PICK size \in Nat :
         /\ position' \in 0 .. Len(file) /\ fileSize' = fileSize + size
         /\ block' \in Seq(Nat) /\ Len(block') = size /\ size <= ReadSize
  BY ReadFacts
<1>4. fileSize' \in Nat
  BY <1>3 DEF Types
<1>5. buffer' \in Seq(Nat)
  BY ClearedSeq DEF ReadBlock, Types
<1>6. next' = 0 /\ rest' = 0 /\ pc' = "cut" /\ ChunkingType # "trace"
  BY DEF ReadBlock
<1>7. next' \in Nat /\ rest' \in Nat /\ next' <= Len(block')
  BY <1>3, <1>6
<1>8. UNCHANGED <<chunks, recipe, winFp>>
  BY DEF ReadBlock
<1>9. QED
  BY <1>1, <1>2, <1>3, <1>4, <1>5, <1>6, <1>7, <1>8 DEF Types

\* the chunk of fixed size
FixSize == IF AtEof THEN PartSize ELSE AvgChunk

LEMMA FixFacts ==
  ASSUME Types, FixChunk
  PROVE  /\ FixSize \in Nat
         /\ FromBlock(next, FixSize) \in Seq(Nat) /\ Len(FromBlock(next, FixSize)) = FixSize
         /\ chunks' = Append(chunks, FromBlock(next, FixSize))
<1>1. FixSize \in Nat
  BY ChunkerAssumption DEF FixSize, PartSize, Types
<1>2. chunks' = Append(chunks, FromBlock(next, FixSize))
  BY DEF FixChunk, FixSize
<1>3. QED
  BY <1>1, <1>2, FromBlockSeq

LEMMA TypesFix == Types /\ FixChunk => Types'
<1> SUFFICES ASSUME Types, FixChunk PROVE Types'
  OBVIOUS
<1>1. job' = job /\ job \in Jobs
  BY DEF FixChunk, stream, Types
<1>2. file' = file /\ ChunkingType' = ChunkingType /\ ReadSize' = ReadSize
  BY <1>1, SameJob
<1>3. chunks' \in Seq(Seq(Nat)) /\ FlattenSeq(chunks') \in Seq(Nat)
  BY FixFacts, OneMore
<1>4. rest' \in Nat /\ next' \in Nat
  BY ChunkerAssumption DEF FixChunk, Types
<1>5. ChunkingType = "fix" /\ pc = "cut" /\ UNCHANGED <<pc, block, recipe, stream, buffer, winFp>>
  BY DEF FixChunk
<1>6. QED
  BY <1>1, <1>2, <1>3, <1>4, <1>5 DEF Types, stream

LEMMA ByteFacts ==
  ASSUME Types, VarByte
  PROVE  /\ ByteNext \in Nat /\ ByteHash \in 0 .. FpSize - 1
         /\ ByteChunk \in Seq(Nat) /\ Len(ByteChunk) = Len(buffer) + 1 /\ Len(buffer) \in Nat
         /\ ByteEnds => chunks' = Append(chunks, ByteChunk) /\ buffer' = << >> /\ winFp' = 0
         /\ ~ByteEnds => chunks' = chunks /\ buffer' = ByteChunk /\ winFp' = ByteHash
         /\ next' = next + 1 /\ next' \in Nat /\ next' <= Len(block) /\ pc = "cut"
         /\ ChunkingType = "var" /\ UNCHANGED <<pc, block, recipe, stream, rest>>
<1>1. /\ next \in Nat /\ block \in Seq(Nat) /\ buffer \in Seq(Nat) /\ winFp \in 0 .. FpSize - 1
      /\ next < Len(block)
  BY DEF Types, VarByte
<1>2. ByteNext \in Nat
  <2>1. next + 1 \in 1 .. Len(block)
    BY <1>1
  <2>2. QED BY <1>1, <2>1 DEF ByteNext
<1>3. ByteHash \in 0 .. FpSize - 1
  BY <1>1, <1>2, HashRange DEF ByteHash
<1>4. ByteChunk \in Seq(Nat) /\ Len(ByteChunk) = Len(buffer) + 1 /\ Len(buffer) \in Nat
  BY <1>1, <1>2, Appended DEF ByteChunk
<1>5. next' = next + 1 /\ next' \in Nat /\ next' <= Len(block)
  BY <1>1 DEF VarByte
<1>6. ByteEnds => chunks' = Append(chunks, ByteChunk) /\ buffer' = << >> /\ winFp' = 0
  BY DEF VarByte, ByteEnds, ByteChunk, ByteHash, ByteNext
<1>7. ~ByteEnds => chunks' = chunks /\ buffer' = ByteChunk /\ winFp' = ByteHash
  BY DEF VarByte, ByteEnds, ByteChunk, ByteHash, ByteNext
<1>8. QED
  BY <1>2, <1>3, <1>4, <1>5, <1>6, <1>7 DEF VarByte

LEMMA TypesByte == Types /\ VarByte => Types'
<1> SUFFICES ASSUME Types, VarByte PROVE Types'
  OBVIOUS
<1>1. /\ ByteHash \in 0 .. FpSize - 1 /\ ByteChunk \in Seq(Nat)
      /\ ByteEnds => chunks' = Append(chunks, ByteChunk) /\ buffer' = << >> /\ winFp' = 0
      /\ ~ByteEnds => chunks' = chunks /\ buffer' = ByteChunk /\ winFp' = ByteHash
      /\ next' \in Nat /\ next' <= Len(block) /\ pc = "cut" /\ ChunkingType = "var"
      /\ UNCHANGED <<pc, block, recipe, stream, rest>>
  BY ByteFacts
<1>2. job' = job /\ job \in Jobs
  BY <1>1 DEF stream, Types
<1>3. file' = file /\ ChunkingType' = ChunkingType /\ ReadSize' = ReadSize
  BY <1>2, SameJob
<1>4. 0 \in 0 .. FpSize - 1 /\ << >> \in Seq(Nat)
  BY ChunkerAssumption, EmptySeq
<1>5. /\ chunks' \in Seq(Seq(Nat)) /\ FlattenSeq(chunks') \in Seq(Nat)
      /\ buffer' \in Seq(Nat) /\ winFp' \in 0 .. FpSize - 1
  <2>1. CASE ByteEnds
    BY <1>1, <1>4, <2>1, OneMore
  <2>2. CASE ~ByteEnds
    BY <1>1, <2>2 DEF Types
  <2>3. QED BY <2>1, <2>2
<1>6. QED
  BY <1>1, <1>2, <1>3, <1>5 DEF Types, stream

LEMMA TypesOver == Types /\ VarOver => Types'
<1> SUFFICES ASSUME Types, VarOver PROVE Types'
  OBVIOUS
<1>1. /\ pc' \in {"read", "recipe"} /\ UNCHANGED <<block, recipe, stream, next, rest>>
  BY DEF VarOver, BlockOver
<1>2. job' = job /\ job \in Jobs
  BY <1>1 DEF stream, Types
<1>3. file' = file /\ ChunkingType' = ChunkingType /\ ReadSize' = ReadSize
  BY <1>2, SameJob
<1>4. 0 \in 0 .. FpSize - 1 /\ << >> \in Seq(Nat)
  BY ChunkerAssumption, EmptySeq
<1>5. /\ chunks' \in Seq(Seq(Nat)) /\ FlattenSeq(chunks') \in Seq(Nat)
      /\ buffer' \in Seq(Nat) /\ winFp' \in 0 .. FpSize - 1
  <2>1. CASE AtEof /\ buffer # << >>
    <3>1. chunks' = Append(chunks, buffer) /\ buffer' = << >> /\ winFp' = 0
      BY <2>1 DEF VarOver
    <3>2. buffer \in Seq(Nat)
      BY DEF Types
    <3>3. QED BY <1>4, <3>1, <3>2, OneMore
  <2>2. CASE ~(AtEof /\ buffer # << >>)
    <3>1. chunks' = chunks /\ buffer' = buffer /\ winFp' = winFp
      BY <2>2 DEF VarOver
    <3>2. QED BY <3>1 DEF Types
  <2>3. QED BY <2>1, <2>2
<1>6. QED
  BY <1>1, <1>2, <1>3, <1>5 DEF Types, stream

\* a line that is kept is a chunk more
LineNext == file[position + 1]

LEMMA LineFacts ==
  ASSUME Types, TraceLine
  PROVE  /\ LineNext \in Line /\ LineNext.ends /\ LineNext.fp # None
         /\ Fill(LineNext.fp, LineNext.size) \in Seq(Nat) /\ LineNext.size \in Nat
         /\ Len(Fill(LineNext.fp, LineNext.size)) = LineNext.size
         /\ LineNext.size > MaxChunk => chunks' = chunks /\ fileSize' = fileSize
         /\ ~(LineNext.size > MaxChunk) =>
               /\ chunks' = Append(chunks, Fill(LineNext.fp, LineNext.size))
               /\ fileSize' = fileSize + LineNext.size
         /\ position' = position + 1 /\ position' \in 1 .. Len(file) /\ position < Len(file)
         /\ ChunkingType = "trace" /\ pc = "read" /\ UNCHANGED <<job, pc, block, recipe, cutter>>
<1>1. job \in Jobs /\ ChunkingType = "trace" /\ position \in 0 .. Len(file) /\ position < Len(file)
  BY DEF Types, TraceLine
<1>2. file \in Seq(Line) /\ Len(file) \in Nat
  BY <1>1, JobFacts
<1>3. position + 1 \in 1 .. Len(file)
  BY <1>1, <1>2
<1>4. LineNext \in Line
  BY <1>2, <1>3 DEF LineNext
<1>5. LineNext.ends /\ LineNext.fp # None
  BY DEF TraceLine, LineNext
<1>6. LineNext.size > MaxChunk => chunks' = chunks /\ fileSize' = fileSize
  BY DEF TraceLine, LineNext
<1>7. ~(LineNext.size > MaxChunk) =>
         /\ chunks' = Append(chunks, Fill(LineNext.fp, LineNext.size))
         /\ fileSize' = fileSize + LineNext.size
  BY DEF TraceLine, LineNext
<1>8. QED
  BY <1>1, <1>3, <1>4, <1>5, <1>6, <1>7, FillSeq DEF TraceLine

LEMMA TypesLine == Types /\ TraceLine => Types'
<1> SUFFICES ASSUME Types, TraceLine PROVE Types'
  OBVIOUS
<1>1. job' = job /\ job \in Jobs
  BY DEF TraceLine, Types
<1>2. file' = file /\ ChunkingType' = ChunkingType /\ ReadSize' = ReadSize
  BY <1>1, SameJob
<1>3. /\ chunks' \in Seq(Seq(Nat)) /\ FlattenSeq(chunks') \in Seq(Nat) /\ fileSize' \in Nat
  <2>1. CASE LineNext.size > MaxChunk
    BY <2>1, LineFacts DEF Types
  <2>2. CASE ~(LineNext.size > MaxChunk)
    <3>1. fileSize' = fileSize + LineNext.size /\ LineNext.size \in Nat /\ fileSize \in Nat
      BY <2>2, LineFacts DEF Types
    <3>2. QED BY <2>2, <3>1, LineFacts, OneMore
  <2>3. QED BY <2>1, <2>2
<1>4. position' \in 0 .. Len(file) /\ pc = "read" /\ UNCHANGED <<job, pc, block, recipe, cutter>>
  BY LineFacts
<1>5. QED
  BY <1>1, <1>2, <1>3, <1>4 DEF Types, cutter

LEMMA TypesRecipe == Types /\ GiveRecipe => Types'
<1> SUFFICES ASSUME Types, GiveRecipe PROVE Types'
  OBVIOUS
<1>1. job' = job
  BY DEF GiveRecipe, stream
<1>2. file' = file /\ ChunkingType' = ChunkingType /\ ReadSize' = ReadSize
  BY <1>1, SameJob
<1>3. /\ recipe' = [number |-> Len(chunks), size |-> fileSize] /\ pc' = "end"
      /\ UNCHANGED <<block, chunks, stream, cutter>>
  BY DEF GiveRecipe
<1>4. Len(chunks) \in Nat /\ fileSize \in Nat
  BY DEF Types
<1>5. recipe' \in [number : Nat, size : Nat] /\ recipe'.number = Len(chunks) /\ recipe'.size = fileSize
  BY <1>3, <1>4
<1>6. QED
  BY <1>1, <1>2, <1>3, <1>5 DEF Types, stream, cutter

LEMMA TypesStep == Types /\ [Next]_vars => Types'
<1> SUFFICES ASSUME Types, [Next]_vars PROVE Types'
  OBVIOUS
<1>1. job' = job
  BY JobStays
<1>2. file' = file /\ ChunkingType' = ChunkingType /\ ReadSize' = ReadSize
  BY <1>1, SameJob
<1>3. CASE UNCHANGED vars
  BY <1>2, <1>3 DEF Types, vars, stream, cutter
<1>4. CASE FixOver
  BY <1>2, <1>4 DEF FixOver, BlockOver, Types, stream, cutter
<1>5. CASE TraceOver
  BY <1>2, <1>5 DEF TraceOver, Types, stream, cutter
<1>6. CASE TraceCrash
  BY <1>2, <1>6 DEF TraceCrash, Types, stream, cutter
<1>7. QED
  BY <1>3, <1>4, <1>5, <1>6, TypesStart, TypesRead, TypesFix, TypesByte, TypesOver, TypesLine,
     TypesRecipe DEF Next, TraceStep
-----------------------------------------------------------------------------
(* The buffer *)
LEMMA RoomByte == WinSize < MaxChunk /\ Types /\ Room /\ VarByte => Room'
<1> SUFFICES ASSUME WinSize < MaxChunk, Types, Room, VarByte PROVE Room'
  OBVIOUS
<1>1. MinChunk < AvgChunk /\ AvgChunk < MaxChunk /\ Len(buffer) < MaxChunk /\ Len(buffer) \in Nat
  BY ByteFacts DEF Room, VarByte
<1>2. Len(buffer') < MaxChunk
  <2>1. CASE ByteEnds
    <3>1. buffer' = << >>
      BY <2>1, ByteFacts
    <3>2. QED BY <1>1, <3>1, FlattenNone, ChunkerAssumption
  <2>2. CASE ~ByteEnds
    <3>1. buffer' = ByteChunk /\ Len(ByteChunk) = Len(buffer) + 1
      BY <2>2, ByteFacts
    <3>2. Len(buffer) + 1 < MaxChunk
      <4>1. CASE Len(buffer) < WinSize
        BY <1>1, <4>1, ChunkerAssumption
      <4>2. CASE ~EndsChunk(Len(ByteChunk), ByteHash)
        <5>1. Len(buffer) + 1 < MinChunk \/ Len(buffer) + 1 < MaxChunk
          BY <1>1, <3>1, <4>2, ChunkerAssumption DEF EndsChunk
        <5>2. QED BY <1>1, <5>1, ChunkerAssumption
      <4>3. QED BY <2>2, <4>1, <4>2 DEF ByteEnds
    <3>3. QED BY <3>1, <3>2
  <2>3. QED BY <2>1, <2>2
<1>3. pc' = pc /\ job' = job
  BY ByteFacts DEF stream
<1>4. QED
  BY <1>1, <1>2, <1>3, SameJob DEF Room

LEMMA RoomStep == WinSize < MaxChunk /\ Types /\ Room /\ [Next]_vars => Room'
<1> SUFFICES ASSUME WinSize < MaxChunk, Types, Room, [Next]_vars PROVE Room'
  OBVIOUS
<1>1. ChunkingType' = ChunkingType
  BY JobStays, SameJob
<1>2. Len(buffer) < MaxChunk /\ 0 < MaxChunk
  BY ChunkerAssumption DEF Room
<1> USE DEF Room
<1>3. CASE UNCHANGED vars
  BY <1>1, <1>3 DEF vars, cutter
<1>4. CASE ChunkerInit
  BY <1>1, <1>4, ChunkerAssumption DEF ChunkerInit, cutter
<1>5. CASE ReadBlock
  <2>1. Len(buffer') = Len(buffer)
    BY <1>5, ClearedSeq DEF ReadBlock, Types
  <2>2. QED BY <1>1, <1>5, <2>1 DEF ReadBlock
<1>6. CASE FixChunk
  BY <1>1, <1>6 DEF FixChunk
<1>7. CASE FixOver
  BY <1>1, <1>7 DEF FixOver, BlockOver, cutter
<1>8. CASE VarByte
  BY <1>8, RoomByte
<1>9. CASE VarOver
  <2>1. buffer' \in {buffer, << >>}
    BY <1>9 DEF VarOver
  <2>2. QED BY <1>1, <1>2, <1>9, <2>1, EmptySeq DEF VarOver, BlockOver
<1>10. CASE TraceStep
  BY <1>1, <1>10 DEF TraceStep, TraceOver, TraceCrash, TraceLine, cutter
<1>11. CASE GiveRecipe
  BY <1>1, <1>11 DEF GiveRecipe, cutter
<1>12. QED
  BY <1>3, <1>4, <1>5, <1>6, <1>7, <1>8, <1>9, <1>10, <1>11 DEF Next

-----------------------------------------------------------------------------
(* A file of one block *)
LEMMA ByteJoined ==
  ASSUME Types, OneBlock, Whole, VarByte
  PROVE  FlattenSeq(chunks) \o ByteChunk = SubSeq(file, 1, next + 1)
<1>1. /\ ByteNext \in Nat /\ pc = "cut" /\ next + 1 <= Len(block) /\ next \in Nat
  BY ByteFacts DEF Types
<1>2. block = file /\ FlattenSeq(chunks) \o buffer = SubSeq(file, 1, next)
  BY <1>1 DEF Whole
<1>3. /\ buffer \in Seq(Nat) /\ FlattenSeq(chunks) \in Seq(Nat) /\ file \in Seq(Nat)
      /\ ByteNext = file[next + 1]
  BY <1>2 DEF Types, ByteNext
<1>4. FlattenSeq(chunks) \o ByteChunk = Append(FlattenSeq(chunks) \o buffer, ByteNext)
  <2>1. ByteChunk = Append(buffer, ByteNext)
    BY DEF ByteChunk
  <2>2. \A u, t \in Seq(Nat) : \A e \in Nat : u \o Append(t, e) = Append(u \o t, e)
    OBVIOUS
  <2>3. FlattenSeq(chunks) \o Append(buffer, ByteNext)
          = Append(FlattenSeq(chunks) \o buffer, ByteNext)
    BY <1>1, <1>3, <2>2, Zenon
  <2>4. QED BY <2>1, <2>3, Zenon
<1>5. SubSeq(file, 1, next + 1) = Append(SubSeq(file, 1, next), file[next + 1])
  BY <1>1, <1>2, <1>3, PartMore
<1>6. QED
  BY <1>2, <1>3, <1>4, <1>5

LEMMA WholeByte == Types /\ OneBlock /\ Whole /\ VarByte => Whole'
<1> SUFFICES ASSUME Types, OneBlock, Whole, VarByte PROVE Whole'
  OBVIOUS
<1>1. /\ ByteNext \in Nat /\ ByteChunk \in Seq(Nat) /\ pc = "cut" /\ pc' = "cut" /\ job' = job
      /\ next' = next + 1 /\ block' = block /\ fileSize' = fileSize /\ next + 1 <= Len(block)
      /\ next \in Nat
  BY ByteFacts DEF stream, Types
<1>2. file' = file
  BY <1>1, SameJob
<1>3. /\ block = file /\ fileSize = Len(file) /\ winFp = HashOf(buffer)
      /\ FlattenSeq(chunks) \o buffer = SubSeq(file, 1, next)
  BY <1>1 DEF Whole
<1>4. /\ buffer \in Seq(Nat) /\ FlattenSeq(chunks) \in Seq(Nat) /\ file \in Seq(Nat)
      /\ ByteNext = file[next + 1]
  BY <1>3 DEF Types, ByteNext
<1>5. FlattenSeq(chunks) \o ByteChunk = SubSeq(file, 1, next + 1)
  BY ByteJoined
<1>6. CASE ByteEnds
  <2>1. chunks' = Append(chunks, ByteChunk) /\ buffer' = << >> /\ winFp' = 0
    BY <1>6, ByteFacts
  <2>2. FlattenSeq(chunks') = FlattenSeq(chunks) \o ByteChunk /\ FlattenSeq(chunks') \in Seq(Nat)
    BY <1>1, <2>1, OneMore
  <2>3. FlattenSeq(chunks') \o << >> = FlattenSeq(chunks')
    BY <2>2
  <2>4. winFp' = HashOf(buffer')
    BY <2>1, EmptySeq DEF HashOf
  <2>5. QED BY <1>1, <1>2, <1>3, <1>5, <2>1, <2>2, <2>3, <2>4 DEF Whole
<1>7. CASE ~ByteEnds
  <2>1. chunks' = chunks /\ buffer' = ByteChunk /\ winFp' = ByteHash
    BY <1>7, ByteFacts
  <2>2. ByteHash = HashOf(ByteChunk)
    BY <1>1, <1>3, <1>4, ByteHashRight DEF ByteNext
  <2>3. QED BY <1>1, <1>2, <1>3, <1>5, <2>1, <2>2 DEF Whole
<1>8. QED
  BY <1>6, <1>7

LEMMA WholeOver == Types /\ OneBlock /\ Whole /\ VarOver => Whole'
<1> SUFFICES ASSUME Types, OneBlock, Whole, VarOver PROVE Whole'
  OBVIOUS
<1>1. /\ block = file /\ fileSize = Len(file) /\ pc = "cut"
      /\ FlattenSeq(chunks) \o buffer = SubSeq(file, 1, next) /\ next = Len(block)
  BY DEF VarOver, Whole
<1>2. file' = file /\ fileSize' = fileSize
  BY SameJob DEF VarOver, stream
<1>3. Len(file) < ReadSize /\ AtEof /\ pc' = "recipe"
  BY <1>1 DEF OneBlock, AtEof, VarOver, BlockOver
<1>4. /\ buffer \in Seq(Nat) /\ FlattenSeq(chunks) \in Seq(Nat) /\ file \in Seq(Nat)
  BY <1>1 DEF Types
<1>5. FlattenSeq(chunks) \o buffer = file
  BY <1>1, <1>4, WholePart
<1>6. FlattenSeq(chunks') = file
  <2>1. CASE buffer # << >>
    <3>1. chunks' = Append(chunks, buffer)
      BY <1>3, <2>1 DEF VarOver
    <3>2. QED BY <1>4, <1>5, <3>1, OneMore
  <2>2. CASE buffer = << >>
    <3>1. chunks' = chunks
      BY <2>2 DEF VarOver
    <3>2. FlattenSeq(chunks) \o buffer = FlattenSeq(chunks)
      BY <1>4, <2>2
    <3>3. QED BY <1>5, <3>1, <3>2
  <2>3. QED BY <2>1, <2>2
<1>7. QED
  BY <1>1, <1>2, <1>3, <1>6 DEF Whole

LEMMA WholeRead == Types /\ OneBlock /\ Whole /\ ReadBlock => Whole'
<1> SUFFICES ASSUME Types, OneBlock, Whole, ReadBlock PROVE Whole'
  OBVIOUS
<1>1. position = 0 /\ fileSize = 0 /\ chunks = << >> /\ buffer = << >> /\ winFp = 0
  BY DEF ReadBlock, Whole, Untouched
<1>2. Len(file) < ReadSize
  BY DEF OneBlock
<1>3. PICK size \in Nat :
         /\ file \in Seq(Nat) /\ ReadSize \in Nat /\ size = Least(ReadSize, Len(file) - position)
         /\ fileSize' = fileSize + size
         /\ block' = SubSeq(file, position + 1, position + size)
  BY ReadFacts
<1>4. size = Len(file) /\ position + 1 = 1 /\ position + size = Len(file) /\ fileSize' = Len(file)
  BY <1>1, <1>2, <1>3 DEF Least
<1>5. block' = file
  BY <1>3, <1>4, WholePart
<1>6. file' = file
  BY SameJob DEF ReadBlock
<1>7. buffer' = << >> /\ chunks' = << >> /\ winFp' = 0 /\ next' = 0 /\ pc' = "cut"
  <2>1. Cleared(<< >>) \in Seq(Nat) /\ Len(Cleared(<< >>)) = 0
    BY ClearedSeq, EmptySeq
  <2>2. Cleared(<< >>) = << >>
    BY <2>1, NoLength
  <2>3. QED BY <1>1, <2>2 DEF ReadBlock
<1>8. FlattenSeq(chunks') \o buffer' = SubSeq(file, 1, next')
  <2>1. << >> \o << >> = << >>
    OBVIOUS
  <2>2. SubSeq(file, 1, 0) \in Seq(Nat) /\ Len(SubSeq(file, 1, 0)) = 0
    BY <1>3
  <2>3. SubSeq(file, 1, 0) = << >>
    BY <2>2, NoLength
  <2>4. QED BY <1>7, <2>1, <2>3, FlattenNone
<1>9. winFp' = HashOf(buffer')
  BY <1>7, EmptySeq DEF HashOf
<1>10. QED
  BY <1>4, <1>5, <1>6, <1>7, <1>8, <1>9 DEF Whole

LEMMA WholeStep == Types /\ OneBlock /\ Whole /\ [Next]_vars => Whole'
<1> SUFFICES ASSUME Types, OneBlock, Whole, [Next]_vars PROVE Whole'
  OBVIOUS
<1>1. file' = file
  BY JobStays, SameJob
<1>2. ChunkingType = "var"
  BY DEF OneBlock
<1>3. CASE UNCHANGED vars
  BY <1>1, <1>3 DEF Whole, Untouched, vars, stream, cutter
<1>4. CASE ChunkerInit
  <2>1. pc' \in {"exit", "read"} /\ position' = 0 /\ UNCHANGED <<fileSize, chunks, cutter>>
    BY <1>2, <1>4 DEF ChunkerInit
  <2>2. Untouched
    BY <1>4 DEF ChunkerInit, Whole
  <2>3. QED BY <2>1, <2>2 DEF Whole, Untouched, cutter
<1>5. CASE GiveRecipe
  BY <1>1, <1>5 DEF GiveRecipe, Whole, stream, cutter
<1>6. CASE FixChunk \/ FixOver \/ TraceStep
  BY <1>2, <1>6 DEF FixChunk, FixOver, TraceStep, TraceOver, TraceCrash, TraceLine
<1>7. QED
  BY <1>3, <1>4, <1>5, <1>6, WholeByte, WholeOver, WholeRead DEF Next
-----------------------------------------------------------------------------
(* Where its chunks end *)
LEMMA PartOfMore ==
  ASSUME NEW S, NEW s \in Seq(S), NEW e \in S, NEW i \in Nat, i <= Len(s)
  PROVE  SubSeq(Append(s, e), 1, i) = SubSeq(s, 1, i)
OBVIOUS

LEMMA StartsMore ==
  ASSUME Types, NEW c \in Seq(Nat), chunks' = Append(chunks, c)
  PROVE  /\ \A i \in 1 .. Len(chunks) : Starts'[i] = Starts[i]
         /\ Starts'[Len(chunks) + 1] = 1 + Len(FlattenSeq(chunks))
<1>1. chunks \in Seq(Seq(Nat)) /\ Len(chunks') = Len(chunks) + 1
  BY OneMore DEF Types
<1>2. PICK N \in Nat : N = Len(chunks)
  BY <1>1
<1>3. ASSUME NEW i \in Nat, i <= N PROVE SubSeq(chunks', 1, i) = SubSeq(chunks, 1, i)
  BY <1>1, <1>2, <1>3, PartOfMore
<1>4. ASSUME NEW i \in 1 .. N PROVE Starts'[i] = Starts[i]
  <2>1. i - 1 \in Nat /\ i - 1 <= N /\ i \in 1 .. N + 1
    OBVIOUS
  <2>2. SubSeq(chunks', 1, i - 1) = SubSeq(chunks, 1, i - 1)
    BY <1>3, <2>1
  <2>3. QED BY <1>1, <1>2, <2>1, <2>2 DEF Starts
<1>5. Starts'[N + 1] = 1 + Len(FlattenSeq(chunks))
  <2>1. PICK j \in 1 .. N + 1 : j = N + 1 /\ j - 1 = N
    OBVIOUS
  <2>2. SubSeq(chunks', 1, N) = chunks
    BY <1>1, <1>2, <1>3, WholePart
  <2>3. Starts'[j] = 1 + Len(FlattenSeq(SubSeq(chunks', 1, j - 1)))
    BY <1>1, <1>2 DEF Starts
  <2>4. QED BY <2>1, <2>2, <2>3
<1>6. QED
  BY <1>2, <1>4, <1>5

LEMMA SamePoints ==
  ASSUME job' = job, NEW p
  PROVE  CutPoints(p)' = CutPoints(p)
BY SameJob DEF CutPoints

LEMMA CutSame ==
  ASSUME job' = job, chunks' = chunks, \A i \in 1 .. Len(chunks) : CutAt(i)
  PROVE  \A i \in 1 .. Len(chunks') : (CutAt(i))'
<1>1. \A q : CutPoints(q)' = CutPoints(q)
  BY SamePoints
<1>2. Starts' = Starts /\ file' = file
  BY SameJob DEF Starts
<1>3. QED
  BY <1>1, <1>2 DEF CutAt

LEMMA CutMore ==
  ASSUME Types, job' = job, NEW c \in Seq(Nat), chunks' = Append(chunks, c),
         \A i \in 1 .. Len(chunks) : CutAt(i),
         NEW p \in Nat, p = 1 + Len(FlattenSeq(chunks)),
         \A m \in 1 .. Len(c) - 1 : m \notin CutPoints(p),
         Len(c) \in CutPoints(p) \/ p + Len(c) - 1 = Len(file)
  PROVE  \A i \in 1 .. Len(chunks') : (CutAt(i))'
<1> SUFFICES ASSUME NEW i \in 1 .. Len(chunks') PROVE (CutAt(i))'
  OBVIOUS
<1>1. PICK N \in Nat : N = Len(chunks) /\ Len(chunks') = N + 1
  BY OneMore
<1>2. file' = file
  BY SameJob
<1>3. CASE i \in 1 .. N
  <2>1. Starts'[i] = Starts[i] /\ chunks'[i] = chunks[i]
    BY <1>1, <1>3, StartsMore, OneMore
  <2>2. CutAt(i)
    BY <1>1, <1>3
  <2>3. \A q : CutPoints(q)' = CutPoints(q)
    BY SamePoints
  <2>4. QED BY <1>2, <2>1, <2>2, <2>3 DEF CutAt
<1>4. CASE i = N + 1
  <2>1. Starts'[i] = p /\ chunks'[i] = c
    BY <1>1, <1>4, StartsMore, OneMore
  <2>2. CutPoints(p)' = CutPoints(p)
    BY SamePoints
  <2>3. QED BY <1>2, <2>1, <2>2 DEF CutAt
<1>5. QED
  BY <1>1, <1>3, <1>4

\* a byte ends the chunk where the content does
LEMMA EndsAtPoint ==
  ASSUME WinSize < MaxChunk, Types, OneBlock, Room, Whole, VarByte
  PROVE  ByteEnds <=> Len(ByteChunk) \in CutPoints(1 + Len(FlattenSeq(chunks)))
<1>1. /\ ByteNext \in Nat /\ ByteChunk \in Seq(Nat) /\ pc = "cut"
      /\ next + 1 <= Len(block) /\ next \in Nat /\ Len(ByteChunk) = Len(buffer) + 1
      /\ Len(buffer) \in Nat
  BY ByteFacts DEF Types
<1>2. block = file /\ winFp = HashOf(buffer) /\ Len(buffer) < MaxChunk
  BY <1>1 DEF Whole, Room
<1>3. /\ buffer \in Seq(Nat) /\ FlattenSeq(chunks) \in Seq(Nat) /\ file \in Seq(Nat)
  BY <1>2 DEF Types
<1>4. PICK L \in Nat, m \in Nat : L = Len(FlattenSeq(chunks)) /\ m = Len(ByteChunk)
  BY <1>1, <1>3
<1>5. WinSize \in Nat \ {0} /\ MinChunk \in Nat /\ MaxChunk \in Nat
  BY ChunkerAssumption
<1>6. SubSeq(file, 1, next + 1) = FlattenSeq(chunks) \o ByteChunk
  BY ByteJoined
<1>7. L + m = next + 1 /\ L + m <= Len(file)
  <2>1. Len(SubSeq(file, 1, next + 1)) = next + 1
    BY <1>1, <1>2, <1>3
  <2>2. Len(FlattenSeq(chunks) \o ByteChunk) = L + m
    BY <1>1, <1>3, <1>4, Joined
  <2>3. QED BY <1>1, <1>2, <1>6, <2>1, <2>2
<1>8. ASSUME NEW i \in 1 .. m PROVE file[L + i] = ByteChunk[i]
  <2>1. L + i \in 1 .. next + 1
    BY <1>7
  <2>2. SubSeq(file, 1, next + 1)[L + i] = file[L + i]
    BY <1>1, <1>2, <1>3, <2>1
  <2>3. (FlattenSeq(chunks) \o ByteChunk)[L + i] = ByteChunk[i]
    BY <1>1, <1>3, <1>4
  <2>4. QED BY <1>6, <2>2, <2>3
<1>9. ASSUME m > WinSize
      PROVE  Polynomial(SubSeq(file, 1 + L + m - WinSize, 1 + L + m - 1)) = ByteHash
  <2>1. PICK k \in Nat : k = m - WinSize
    BY <1>5, <1>9
  <2>2. PICK s \in Seq(Nat) :
          /\ s = SubSeq(file, 1 + L + m - WinSize, 1 + L + m - 1) /\ Len(s) = WinSize
          /\ \A i \in 1 .. WinSize : s[i] = file[L + k + i]
    <3>1. PICK f \in Nat, t \in Nat : f = 1 + L + m - WinSize /\ t = 1 + L + m - 1
      BY <1>5, <1>9
    <3>2. f = L + k + 1 /\ t = L + m /\ 1 <= f /\ f <= t /\ t <= Len(file) /\ t - f + 1 = WinSize
      BY <1>5, <1>7, <1>9, <2>1, <3>1
    <3>3. SubSeq(file, f, t) \in Seq(Nat) /\ Len(SubSeq(file, f, t)) = WinSize
      BY <1>3, <3>2
    <3>4. ASSUME NEW i \in 1 .. WinSize PROVE SubSeq(file, f, t)[i] = file[L + k + i]
      <4>1. i \in 1 .. t - f + 1 /\ f + i - 1 = L + k + i
        BY <1>5, <3>2
      <4>2. SubSeq(file, f, t)[i] = file[f + i - 1]
        BY <1>3, <3>2, <4>1, PartAt
      <4>3. QED BY <4>1, <4>2
    <3>5. QED BY <3>1, <3>3, <3>4
  <2>3. PICK u \in Seq(Nat) :
          /\ u = SubSeq(ByteChunk, m - WinSize + 1, m) /\ Len(u) = WinSize
          /\ \A i \in 1 .. WinSize : u[i] = ByteChunk[k + i]
    <3>1. PICK f \in Nat : f = m - WinSize + 1 /\ f = k + 1 /\ 1 <= f /\ f <= m /\ m - f + 1 = WinSize
      BY <1>5, <1>9, <2>1
    <3>2. PICK v \in Seq(Nat) : v = ByteChunk /\ Len(v) = m
      BY <1>1, <1>4
    <3>3. SubSeq(v, f, m) \in Seq(Nat) /\ Len(SubSeq(v, f, m)) = WinSize
      BY <3>1, <3>2
    <3>4. ASSUME NEW i \in 1 .. WinSize PROVE SubSeq(v, f, m)[i] = v[k + i]
      <4>1. i \in 1 .. m - f + 1 /\ f + i - 1 = k + i
        BY <1>5, <3>1
      <4>2. SubSeq(v, f, m)[i] = v[f + i - 1]
        BY <3>1, <3>2, <4>1, PartAt
      <4>3. QED BY <4>1, <4>2
    <3>5. QED BY <3>1, <3>2, <3>3, <3>4
  <2>4. s = u
    <3>1. ASSUME NEW i \in 1 .. WinSize PROVE s[i] = u[i]
      <4>1. k + i \in 1 .. m /\ L + k + i = L + (k + i)
        BY <1>5, <2>1
      <4>2. file[L + (k + i)] = ByteChunk[k + i]
        BY <1>8, <4>1
      <4>3. QED BY <2>2, <2>3, <4>1, <4>2
    <3>2. Len(s) = Len(u) /\ \A i \in 1 .. Len(s) : s[i] = u[i]
      BY <2>2, <2>3, <3>1
    <3>3. QED BY <3>2, SameSeq
  <2>5. ByteHash = HashOf(ByteChunk)
    BY <1>1, <1>2, <1>3, ByteHashRight DEF ByteNext
  <2>6. HashOf(ByteChunk) = Polynomial(SubSeq(ByteChunk, m - WinSize + 1, m))
    <3>1. Len(ByteChunk) # 0 /\ ~(Len(ByteChunk) < WinSize)
      BY <1>4, <1>5, <1>9
    <3>2. QED BY <1>4, <3>1 DEF HashOf
  <2>7. QED BY <2>2, <2>3, <2>4, <2>5, <2>6
<1>10. m \in 1 .. Len(file) - (1 + L) + 1 /\ m <= MaxChunk
  BY <1>1, <1>2, <1>3, <1>4, <1>5, <1>7
<1>11. m \in CutPoints(1 + L) <=>
          m > WinSize /\ m >= MinChunk /\ (m = MaxChunk \/ ByteHash % AnchorSize = 0)
  BY <1>9, <1>10 DEF CutPoints
<1>12. ByteEnds <=>
          m > WinSize /\ m >= MinChunk /\ (ByteHash % AnchorSize = 0 \/ m >= MaxChunk)
  <2>1. ~(Len(buffer) < WinSize) <=> m > WinSize
    BY <1>1, <1>4, <1>5
  <2>2. QED BY <1>4, <2>1 DEF ByteEnds, EndsChunk
<1>13. m >= MaxChunk <=> m = MaxChunk
  BY <1>5, <1>10
<1>14. QED
  BY <1>4, <1>11, <1>12, <1>13

LEMMA CutByte ==
  WinSize < MaxChunk /\ Types /\ OneBlock /\ Room /\ Whole /\ Cut /\ VarByte => Cut'
<1> SUFFICES ASSUME WinSize < MaxChunk, Types, OneBlock, Room, Whole, Cut, VarByte PROVE Cut'
  OBVIOUS
<1>1. /\ ByteChunk \in Seq(Nat) /\ Len(ByteChunk) = Len(buffer) + 1 /\ Len(buffer) \in Nat
      /\ pc = "cut" /\ pc' = "cut" /\ job' = job
  BY ByteFacts DEF stream
<1>2. PICK p \in Nat : p = 1 + Len(FlattenSeq(chunks))
  BY DEF Types
<1>3. ByteEnds <=> Len(ByteChunk) \in CutPoints(p)
  BY <1>2, EndsAtPoint
<1>4. \A m \in 1 .. Len(buffer) : m \notin CutPoints(p)
  BY <1>1, <1>2 DEF Cut
<1>5. CASE ByteEnds
  <2>1. chunks' = Append(chunks, ByteChunk) /\ buffer' = << >>
    BY <1>5, ByteFacts
  <2>2. \A m \in 1 .. Len(ByteChunk) - 1 : m \notin CutPoints(p)
    BY <1>1, <1>4
  <2>3. \A i \in 1 .. Len(chunks) : CutAt(i)
    BY DEF Cut
  <2>4. \A i \in 1 .. Len(chunks') : (CutAt(i))'
    BY <1>1, <1>2, <1>3, <1>5, <2>1, <2>2, <2>3, CutMore
  <2>5. Len(buffer') = 0
    BY <2>1, FlattenNone
  <2>6. QED BY <2>4, <2>5 DEF Cut
<1>6. CASE ~ByteEnds
  <2>1. chunks' = chunks /\ buffer' = ByteChunk
    BY <1>6, ByteFacts
  <2>2. ASSUME NEW m \in 1 .. Len(buffer') PROVE m \notin CutPoints(p)
    <3>1. m \in 1 .. Len(buffer) \/ m = Len(ByteChunk)
      BY <1>1, <2>1
    <3>2. QED BY <1>3, <1>4, <1>6, <3>1
  <2>3. CutPoints(p)' = CutPoints(p)
    BY <1>1, SamePoints
  <2>4. \A m \in 1 .. Len(buffer') : m \notin CutPoints(1 + Len(FlattenSeq(chunks)))'
    BY <1>2, <2>1, <2>2, <2>3
  <2>5. \A i \in 1 .. Len(chunks') : (CutAt(i))'
    BY <1>1, <2>1, CutSame DEF Cut
  <2>6. QED BY <2>4, <2>5 DEF Cut
<1>7. QED
  BY <1>5, <1>6

LEMMA CutOver == Types /\ OneBlock /\ Whole /\ Cut /\ VarOver => Cut'
<1> SUFFICES ASSUME Types, OneBlock, Whole, Cut, VarOver PROVE Cut'
  OBVIOUS
<1>1. /\ block = file /\ pc = "cut" /\ next = Len(block)
      /\ FlattenSeq(chunks) \o buffer = SubSeq(file, 1, next)
  BY DEF VarOver, Whole
<1>2. job' = job /\ AtEof /\ pc' = "recipe"
  BY <1>1 DEF OneBlock, AtEof, VarOver, BlockOver, stream
<1>3. buffer \in Seq(Nat) /\ FlattenSeq(chunks) \in Seq(Nat) /\ file \in Seq(Nat)
  BY <1>1 DEF Types
<1>4. PICK p \in Nat : p = 1 + Len(FlattenSeq(chunks))
  BY <1>3
<1>5. \A i \in 1 .. Len(chunks') : (CutAt(i))'
  <2>1. CASE buffer # << >>
    <3>1. chunks' = Append(chunks, buffer)
      BY <1>2, <2>1 DEF VarOver
    <3>2. Len(FlattenSeq(chunks)) + Len(buffer) = Len(file)
      BY <1>1, <1>3, WholePart, Joined
    <3>3. p + Len(buffer) - 1 = Len(file) /\ Len(buffer) \in Nat
      <4>1. PICK L \in Nat, n \in Nat : L = Len(FlattenSeq(chunks)) /\ n = Len(buffer)
        BY <1>3
      <4>2. L + n = Len(file) /\ p = 1 + L
        BY <1>4, <3>2, <4>1
      <4>3. QED BY <4>1, <4>2
    <3>4. \A m \in 1 .. Len(buffer) - 1 : m \notin CutPoints(p)
      BY <1>1, <1>4, <3>3 DEF Cut
    <3>5. \A i \in 1 .. Len(chunks) : CutAt(i)
      BY DEF Cut
    <3>6. QED BY <1>2, <1>3, <1>4, <3>1, <3>3, <3>4, <3>5, CutMore
  <2>2. CASE buffer = << >>
    <3>1. chunks' = chunks
      BY <2>2 DEF VarOver
    <3>2. QED BY <1>2, <3>1, CutSame DEF Cut
  <2>3. QED BY <2>1, <2>2
<1>6. QED
  BY <1>2, <1>5 DEF Cut

LEMMA CutStep ==
  WinSize < MaxChunk /\ Types /\ OneBlock /\ Room /\ Whole /\ Cut /\ [Next]_vars => Cut'
<1> SUFFICES ASSUME WinSize < MaxChunk, Types, OneBlock, Room, Whole, Cut, [Next]_vars
             PROVE  Cut'
  OBVIOUS
<1>1. job' = job
  BY JobStays
<1>2. ChunkingType = "var"
  BY DEF OneBlock
<1>3. ASSUME chunks' = chunks, pc' # "cut" PROVE Cut'
  BY <1>1, <1>3, CutSame DEF Cut
<1>4. CASE UNCHANGED vars
  <2>1. \A q : CutPoints(q)' = CutPoints(q)
    BY <1>1, SamePoints
  <2>2. UNCHANGED <<chunks, buffer, pc>>
    BY <1>4 DEF vars, cutter
  <2>3. QED BY <1>1, <2>1, <2>2, CutSame DEF Cut
<1>5. CASE ChunkerInit \/ GiveRecipe
  BY <1>3, <1>5 DEF ChunkerInit, GiveRecipe
<1>6. CASE ReadBlock
  <2>1. chunks = << >> /\ buffer = << >> /\ chunks' = chunks /\ buffer' = Cleared(buffer)
    BY <1>6 DEF ReadBlock, Whole, Untouched
  <2>2. Len(chunks') = 0 /\ Len(buffer') = 0
    BY <2>1, ClearedSeq, EmptySeq
  <2>3. QED BY <2>2 DEF Cut
<1>7. CASE FixChunk \/ FixOver \/ TraceStep
  BY <1>2, <1>7 DEF FixChunk, FixOver, TraceStep, TraceOver, TraceCrash, TraceLine
<1>8. QED
  BY <1>4, <1>5, <1>6, <1>7, CutByte, CutOver DEF Next
-----------------------------------------------------------------------------
(* A file of whole blocks *)
LEMMA Multiples ==
  ASSUME NEW m \in Nat \ {0}, NEW a \in Nat, NEW b \in Nat, a % m = 0, b % m = 0, a < b
  PROVE  a + m <= b /\ (a + m) % m = 0
<1>1. PICK k \in Nat, r \in 0 .. m - 1 : r = a % m /\ a = k * m + r
  BY Remainder
<1>2. PICK l \in Nat, s \in 0 .. m - 1 : s = b % m /\ b = l * m + s
  BY Remainder
<1>3. a = k * m /\ b = l * m
  BY <1>1, <1>2
<1>4. k < l
  <2> SUFFICES ASSUME l < k \/ l = k PROVE FALSE
    OBVIOUS
  <2>1. CASE l < k
    <3>1. l * m + m <= k * m
      BY <2>1, Products
    <3>2. b + m <= a
      BY <1>3, <3>1
    <3>3. QED BY <3>2
  <2>2. CASE l = k
    BY <1>3, <2>2
  <2>3. QED BY <2>1, <2>2
<1>5. a + m <= b
  <2>1. k * m + m <= l * m
    BY <1>4, Products
  <2>2. QED BY <1>3, <2>1
<1>6. (a + m) % m = 0
  <2>1. PICK c \in Nat : c = a + m
    OBVIOUS
  <2>2. PICK d \in Nat, t \in 0 .. m - 1 : t = c % m /\ c = d * m + t
    BY Remainder
  <2>3. PICK e \in Nat : e = k + 1 /\ e * m = k * m + m
    OBVIOUS
  <2>4. e * m = d * m + t
    BY <1>3, <2>1, <2>2, <2>3
  <2>5. ~(d < e)
    <3> SUFFICES ASSUME d < e PROVE FALSE
      OBVIOUS
    <3>1. d * m + m <= e * m
      BY Products
    <3>2. PICK x \in Nat, y \in Nat : x = d * m /\ y = e * m
      OBVIOUS
    <3>3. QED BY <2>4, <3>1, <3>2
  <2>6. ~(e < d)
    <3> SUFFICES ASSUME e < d PROVE FALSE
      OBVIOUS
    <3>1. e * m + m <= d * m
      BY Products
    <3>2. PICK x \in Nat, y \in Nat : x = d * m /\ y = e * m
      OBVIOUS
    <3>3. QED BY <2>4, <3>1, <3>2
  <2>7. d = e
    BY <2>5, <2>6
  <2>8. t = 0
    <3>1. PICK x \in Nat : x = d * m
      OBVIOUS
    <3>2. QED BY <2>4, <2>7, <3>1
  <2>9. QED BY <2>1, <2>2, <2>8
<1>7. QED
  BY <1>5, <1>6

LEMMA ZeroIsMultiple ==
  ASSUME NEW m \in Nat \ {0}
  PROVE  0 % m = 0
OBVIOUS

LEMMA PartJoin ==
  ASSUME NEW s \in Seq(Nat), NEW i \in Nat, NEW j \in Nat, i <= j, j <= Len(s)
  PROVE  SubSeq(s, 1, i) \o SubSeq(s, i + 1, j) = SubSeq(s, 1, j)
<1>1. PICK u \in Seq(Nat) : u = SubSeq(s, 1, i) /\ Len(u) = i /\ \A k \in 1 .. i : u[k] = s[k]
  <2>1. /\ SubSeq(s, 1, i) \in Seq(Nat) /\ Len(SubSeq(s, 1, i)) = i
        /\ \A k \in 1 .. i : SubSeq(s, 1, i)[k] = s[k]
    OBVIOUS
  <2>2. QED BY <2>1
<1>2. PICK v \in Seq(Nat) :
         v = SubSeq(s, i + 1, j) /\ Len(v) = j - i /\ \A k \in 1 .. j - i : v[k] = s[i + k]
  <2>1. SubSeq(s, i + 1, j) \in Seq(Nat) /\ Len(SubSeq(s, i + 1, j)) = j - i
    OBVIOUS
  <2>2. ASSUME NEW k \in 1 .. j - i PROVE SubSeq(s, i + 1, j)[k] = s[i + k]
    <3>1. PICK f \in Nat : f = i + 1 /\ f + k - 1 = i + k /\ f <= j /\ k \in 1 .. j - f + 1
      OBVIOUS
    <3>2. 1 <= f
      BY <3>1
    <3>3. SubSeq(s, f, j)[k] = s[f + k - 1]
      BY <3>1, <3>2, PartAt
    <3>4. QED BY <3>1, <3>3
  <2>3. QED BY <2>1, <2>2
<1>3. PICK w \in Seq(Nat) : w = SubSeq(s, 1, j) /\ Len(w) = j /\ \A k \in 1 .. j : w[k] = s[k]
  <2>1. /\ SubSeq(s, 1, j) \in Seq(Nat) /\ Len(SubSeq(s, 1, j)) = j
        /\ \A k \in 1 .. j : SubSeq(s, 1, j)[k] = s[k]
    OBVIOUS
  <2>2. QED BY <2>1
<1>4. PICK t \in Seq(Nat) : t = u \o v
  <2>1. u \o v \in Seq(Nat)
    OBVIOUS
  <2>2. QED BY <2>1
<1>5. Len(t) = j /\ \A k \in 1 .. j : t[k] = IF k <= i THEN u[k] ELSE v[k - i]
  <2>1. /\ Len(u \o v) = Len(u) + Len(v)
        /\ \A k \in 1 .. Len(u) + Len(v) :
              (u \o v)[k] = IF k <= Len(u) THEN u[k] ELSE v[k - Len(u)]
    OBVIOUS
  <2>2. Len(u) = i /\ Len(v) = j - i /\ Len(u) + Len(v) = j
    BY <1>1, <1>2
  <2>3. QED BY <1>4, <2>1, <2>2
<1>6. ASSUME NEW k \in 1 .. j PROVE t[k] = w[k]
  <2>1. CASE k <= i
    BY <1>1, <1>3, <1>5, <2>1
  <2>2. CASE ~(k <= i)
    <3>1. PICK n \in 1 .. j - i : n = k - i /\ i + n = k
      BY <2>2
    <3>2. t[k] = v[n]
      BY <1>5, <2>2, <3>1
    <3>3. QED BY <1>2, <1>3, <3>1, <3>2
  <2>3. QED BY <2>1, <2>2
<1>7. Len(t) = Len(w) /\ \A k \in 1 .. Len(t) : t[k] = w[k]
  BY <1>3, <1>5, <1>6
<1>8. t = w
  BY <1>7, SameSeq
<1>9. QED
  BY <1>1, <1>2, <1>3, <1>4, <1>8

LEMMA BlocksRead == Types /\ WholeBlocks /\ Blocks /\ ReadBlock => Blocks'
<1> SUFFICES ASSUME Types, WholeBlocks, Blocks, ReadBlock PROVE Blocks'
  OBVIOUS
<1>1. /\ position % ReadSize = 0 /\ fileSize = position /\ FlattenSeq(chunks) = SubSeq(file, 1, position)
      /\ Len(file) % ReadSize = 0
  BY DEF ReadBlock, Blocks, WholeBlocks
<1>2. PICK size \in Nat :
         /\ file \in Seq(Nat) /\ ReadSize \in Nat \ {0}
         /\ size = Least(ReadSize, Len(file) - position)
         /\ position' = position + size /\ position' \in 0 .. Len(file)
         /\ fileSize' = fileSize + size
         /\ block' = SubSeq(file, position + 1, position + size)
         /\ block' \in Seq(Nat) /\ Len(block') = size
  BY ReadFacts
<1>3. position \in 0 .. Len(file) /\ Len(file) \in Nat /\ position \in Nat
  BY <1>2 DEF Types
<1>4. \/ size = 0 /\ position = Len(file)
      \/ size = ReadSize /\ (position + size) % ReadSize = 0
  <2>1. CASE position = Len(file)
    <3>1. Len(file) - position = 0 /\ 0 < ReadSize /\ ~(ReadSize < 0)
      BY <1>2, <1>3, <2>1
    <3>2. size = 0
      BY <1>2, <3>1 DEF Least
    <3>3. QED BY <2>1, <3>2
  <2>2. CASE position < Len(file)
    <3>1. position + ReadSize <= Len(file) /\ (position + ReadSize) % ReadSize = 0
      BY <1>1, <1>2, <1>3, <2>2, Multiples
    <3>2. size = ReadSize
      BY <1>2, <1>3, <3>1 DEF Least
    <3>3. QED BY <3>1, <3>2
  <2>3. QED BY <1>3, <2>1, <2>2
<1>5. position' % ReadSize = 0
  <2>1. CASE size = 0 /\ position = Len(file)
    <3>1. position' = position
      BY <1>2, <1>3, <2>1
    <3>2. QED BY <1>1, <3>1
  <2>2. CASE size = ReadSize /\ (position + size) % ReadSize = 0
    BY <1>2, <2>2
  <2>3. QED BY <1>4, <2>1, <2>2
<1>6. file' = file /\ ReadSize' = ReadSize /\ next' = 0 /\ pc' = "cut" /\ chunks' = chunks
  BY SameJob DEF ReadBlock
<1>7. /\ Len(block') = size /\ position' = position + size /\ fileSize' = fileSize + size
      /\ fileSize = position
  BY <1>1, <1>2
<1>8. /\ Len(block') = ReadSize \/ (Len(block') = 0 /\ position' = Len(file))
      /\ Len(block') <= position' /\ position' - Len(block') = position
      /\ position' - Len(block') + 1 = position + 1 /\ position' - Len(block') + 0 = position
      /\ position' = position + size /\ fileSize' = position' /\ 0 <= Len(block')
  BY <1>3, <1>4, <1>7
<1>9. 0 % AvgChunk = 0
  BY ChunkerAssumption, ZeroIsMultiple
<1>10. FlattenSeq(chunks') = SubSeq(file', 1, position' - Len(block') + next')
  BY <1>1, <1>6, <1>8
<1>11. block' = SubSeq(file', position' - Len(block') + 1, position')
  BY <1>2, <1>6, <1>8
<1>12. QED
  BY <1>5, <1>6, <1>8, <1>9, <1>10, <1>11 DEF Blocks

LEMMA BlocksFix == Types /\ WholeBlocks /\ Blocks /\ FixChunk => Blocks'
<1> SUFFICES ASSUME Types, WholeBlocks, Blocks, FixChunk PROVE Blocks'
  OBVIOUS
<1>1. /\ pc = "cut" /\ next < Len(block) /\ next' = next + AvgChunk
      /\ UNCHANGED <<pc, block, recipe, stream, buffer, winFp>>
  BY DEF FixChunk
<1>2. /\ position % ReadSize = 0 /\ fileSize = position
      /\ Len(block) = ReadSize \/ (Len(block) = 0 /\ position = Len(file))
      /\ Len(block) <= position /\ block = SubSeq(file, position - Len(block) + 1, position)
      /\ next % AvgChunk = 0 /\ next <= Len(block)
      /\ FlattenSeq(chunks) = SubSeq(file, 1, position - Len(block) + next)
      /\ ReadSize % AvgChunk = 0 /\ ChunkingType = "fix"
  BY <1>1 DEF Blocks, WholeBlocks
<1>3. /\ job \in Jobs /\ next \in Nat /\ position \in 0 .. Len(file) /\ block \in Seq(Nat)
      /\ AvgChunk \in Nat \ {0}
  BY ChunkerAssumption DEF Types
<1>4. file \in Seq(Nat) /\ ReadSize \in Nat /\ Len(file) \in Nat /\ position \in Nat
  BY <1>2, <1>3, JobFacts
<1>5. Len(block) = ReadSize
  BY <1>1, <1>2, <1>3
<1>6. next + AvgChunk <= ReadSize /\ (next + AvgChunk) % AvgChunk = 0
  BY <1>1, <1>2, <1>3, <1>4, <1>5, Multiples
<1>7. FixSize = AvgChunk
  BY <1>5 DEF FixSize, AtEof
<1>8. PICK i \in Nat, j \in Nat :
         /\ i = position - ReadSize + next /\ j = position - ReadSize + (next + AvgChunk)
         /\ j = i + AvgChunk /\ j <= position /\ j <= Len(file)
  <2>1. position - ReadSize + next \in Nat /\ position - ReadSize + (next + AvgChunk) \in Nat
    BY <1>2, <1>3, <1>4, <1>5
  <2>2. QED BY <1>3, <1>4, <1>6, <2>1
<1>9. PICK c \in Seq(Nat) : c = FromBlock(next, AvgChunk) /\ chunks' = Append(chunks, c)
                            /\ Len(c) = AvgChunk
  BY <1>7, FixFacts
<1>10. ASSUME NEW k \in 1 .. AvgChunk PROVE c[k] = file[i + k]
  <2>1. next + k \in 1 .. Len(block) /\ next + k <= Len(block)
    BY <1>3, <1>4, <1>5, <1>6
  <2>2. c[k] = block[next + k]
    BY <1>9, <2>1 DEF FromBlock
  <2>3. PICK f \in Nat : f = position - Len(block) + 1 /\ 1 <= f /\ f <= position
                         /\ next + k \in 1 .. position - f + 1 /\ f + (next + k) - 1 = i + k
    <3>1. position - Len(block) + 1 \in Nat
      BY <1>2, <1>4, <1>5
    <3>2. QED BY <1>2, <1>3, <1>4, <1>5, <1>8, <2>1, <3>1
  <2>4. PICK n \in Nat : n = next + k
    BY <1>3
  <2>5. SubSeq(file, f, position)[n] = file[f + n - 1]
    BY <1>3, <1>4, <2>3, <2>4, PartAt
  <2>6. QED BY <1>2, <2>2, <2>3, <2>4, <2>5
<1>11. c = SubSeq(file, i + 1, j)
  <2>0. j = i + AvgChunk /\ AvgChunk \in Nat \ {0} /\ j <= Len(file)
    BY <1>3, <1>8
  <2>1. PICK f \in Nat : f = i + 1 /\ 1 <= f /\ f <= j /\ j - f + 1 = AvgChunk
    BY <2>0
  <2>2. PICK d \in Seq(Nat) : d = SubSeq(file, f, j) /\ Len(d) = AvgChunk
    <3>1. SubSeq(file, f, j) \in Seq(Nat) /\ Len(SubSeq(file, f, j)) = AvgChunk
      BY <1>4, <2>0, <2>1
    <3>2. QED BY <3>1
  <2>3. ASSUME NEW k \in 1 .. AvgChunk PROVE c[k] = d[k]
    <3>1. k \in 1 .. j - f + 1 /\ f + k - 1 = i + k
      BY <2>0, <2>1
    <3>2. SubSeq(file, f, j)[k] = file[f + k - 1]
      BY <1>4, <2>0, <2>1, <3>1, PartAt
    <3>3. QED BY <1>10, <2>2, <3>1, <3>2
  <2>4. Len(c) = Len(d) /\ \A k \in 1 .. Len(c) : c[k] = d[k]
    BY <1>9, <2>2, <2>3
  <2>5. c = d
    BY <2>4, SameSeq
  <2>6. QED BY <2>1, <2>2, <2>5
<1>12. FlattenSeq(chunks') = SubSeq(file, 1, j)
  <2>1. FlattenSeq(chunks') = SubSeq(file, 1, i) \o c
    BY <1>2, <1>5, <1>8, <1>9, OneMore
  <2>2. i <= j
    BY <1>3, <1>8
  <2>3. QED BY <1>4, <1>8, <1>11, <2>1, <2>2, PartJoin
<1>13. file' = file /\ ReadSize' = ReadSize /\ position' = position /\ fileSize' = fileSize
       /\ block' = block /\ pc' = pc
  BY <1>1, SameJob DEF stream
<1>14. FlattenSeq(chunks') = SubSeq(file', 1, position' - Len(block') + next')
  BY <1>1, <1>5, <1>8, <1>12, <1>13
<1>15. next' % AvgChunk = 0 /\ next' <= Len(block')
  BY <1>1, <1>5, <1>6, <1>13
<1>16. QED
  BY <1>1, <1>2, <1>13, <1>14, <1>15 DEF Blocks

LEMMA BlocksOver == Types /\ WholeBlocks /\ Blocks /\ FixOver => Blocks'
<1> SUFFICES ASSUME Types, WholeBlocks, Blocks, FixOver PROVE Blocks'
  OBVIOUS
<1>1. /\ pc = "cut" /\ next >= Len(block) /\ pc' = BlockOver
      /\ UNCHANGED <<block, chunks, recipe, stream, cutter>>
  BY DEF FixOver
<1>2. /\ position % ReadSize = 0 /\ fileSize = position
      /\ Len(block) = ReadSize \/ (Len(block) = 0 /\ position = Len(file))
      /\ Len(block) <= position /\ next <= Len(block)
      /\ FlattenSeq(chunks) = SubSeq(file, 1, position - Len(block) + next)
      /\ ChunkingType = "fix"
  BY <1>1 DEF Blocks, WholeBlocks
<1>3. job \in Jobs /\ next \in Nat /\ position \in 0 .. Len(file) /\ block \in Seq(Nat)
  BY DEF Types
<1>4. file \in Seq(Nat) /\ ReadSize \in Nat \ {0} /\ Len(file) \in Nat /\ Len(block) \in Nat
  BY <1>2, <1>3, JobFacts
<1>5. FlattenSeq(chunks) = SubSeq(file, 1, position)
  <2>1. next >= Len(block) /\ next <= Len(block)
    BY <1>1, <1>2
  <2>2. next = Len(block)
    BY <1>3, <1>4, <2>1
  <2>3. position - Len(block) + next = position
    BY <1>3, <1>4, <2>2
  <2>4. QED BY <1>2, <2>3
<1>6. file' = file /\ ReadSize' = ReadSize /\ position' = position /\ fileSize' = fileSize
      /\ chunks' = chunks
  BY <1>1, SameJob DEF stream
<1>7. CASE AtEof
  <2>1. position = Len(file)
    BY <1>2, <1>4, <1>7 DEF AtEof
  <2>2. FlattenSeq(chunks) = file
    BY <1>4, <1>5, <2>1, WholePart
  <2>3. pc' = "recipe"
    BY <1>1, <1>7 DEF BlockOver
  <2>4. QED BY <1>2, <1>6, <2>1, <2>2, <2>3 DEF Blocks
<1>8. CASE ~AtEof
  <2>1. pc' = "read"
    BY <1>1, <1>8 DEF BlockOver
  <2>2. QED BY <1>2, <1>5, <1>6, <2>1 DEF Blocks
<1>9. QED
  BY <1>7, <1>8

LEMMA BlocksStep == Types /\ WholeBlocks /\ Blocks /\ [Next]_vars => Blocks'
<1> SUFFICES ASSUME Types, WholeBlocks, Blocks, [Next]_vars PROVE Blocks'
  OBVIOUS
<1>1. file' = file /\ ReadSize' = ReadSize
  BY JobStays, SameJob
<1>2. ChunkingType = "fix"
  BY DEF WholeBlocks
<1>3. CASE UNCHANGED vars
  BY <1>1, <1>3 DEF Blocks, Untouched, vars, stream, cutter
<1>4. CASE ChunkerInit
  <2>1. pc' = "read" /\ position' = 0 /\ UNCHANGED <<fileSize, chunks, cutter>> /\ pc = "init"
    BY <1>2, <1>4 DEF ChunkerInit
  <2>2. Untouched /\ fileSize = position /\ position % ReadSize = 0
        /\ FlattenSeq(chunks) = SubSeq(file, 1, position)
    BY <2>1 DEF Blocks
  <2>3. position = 0
    BY <2>2 DEF Untouched
  <2>4. QED BY <1>1, <2>1, <2>2, <2>3 DEF Blocks, Untouched, cutter
<1>5. CASE GiveRecipe
  BY <1>1, <1>5 DEF GiveRecipe, Blocks, stream, cutter
<1>6. CASE VarByte \/ VarOver \/ TraceStep
  BY <1>2, <1>6 DEF VarByte, VarOver, TraceStep, TraceOver, TraceCrash, TraceLine
<1>7. QED
  BY <1>3, <1>4, <1>5, <1>6, BlocksRead, BlocksFix, BlocksOver DEF Next
-----------------------------------------------------------------------------
(* A trace *)
LEMMA KeptRange ==
  ASSUME job \in Jobs
  PROVE  KeptLines \subseteq 2 .. Len(file) /\ KeptLines \subseteq Nat /\ Len(file) \in Nat
<1>1. KeptLines \subseteq 2 .. Len(file)
  BY DEF KeptLines
<1>2. Len(file) \in Nat
  BY JobFacts
<1>3. 2 .. Len(file) \subseteq Nat
  BY <1>2
<1>4. QED
  BY <1>1, <1>2, <1>3

LEMMA KeptFacts ==
  ASSUME job \in Jobs, NEW p \in Nat
  PROVE  /\ IsFiniteSet(KeptUpTo(p)) /\ Cardinality(KeptUpTo(p)) \in Nat
<1>1. IsFiniteSet(2 .. Len(file))
  BY KeptRange, FS_Interval
<1>2. KeptUpTo(p) \subseteq 2 .. Len(file)
  BY KeptRange DEF KeptUpTo
<1>3. IsFiniteSet(KeptUpTo(p))
  BY <1>1, <1>2, FS_Subset
<1>4. QED
  BY <1>3, FS_CardinalityType

LEMMA KeptNext ==
  ASSUME job \in Jobs, NEW p \in Nat
  PROVE  /\ p + 1 \notin KeptLines => KeptUpTo(p + 1) = KeptUpTo(p)
         /\ p + 1 \in KeptLines =>
               /\ KeptUpTo(p + 1) = KeptUpTo(p) \cup {p + 1}
               /\ Cardinality(KeptUpTo(p + 1)) = Cardinality(KeptUpTo(p)) + 1
<1>1. KeptLines \subseteq Nat
  BY KeptRange
<1>2. PICK n \in Nat : n = p + 1
  OBVIOUS
<1>3. ASSUME NEW q \in KeptLines PROVE q <= n <=> q <= p \/ q = n
  <2>1. q \in Nat
    BY <1>1
  <2>2. QED BY <1>2, <2>1
<1>4. ~(n <= p)
  BY <1>2
<1>5. n \notin KeptLines => KeptUpTo(n) = KeptUpTo(p)
  BY <1>3 DEF KeptUpTo
<1>6. n \in KeptLines => KeptUpTo(n) = KeptUpTo(p) \cup {n}
  BY <1>3 DEF KeptUpTo
<1>7. n \notin KeptUpTo(p)
  BY <1>4 DEF KeptUpTo
<1>8. IsFiniteSet(KeptUpTo(p))
  BY KeptFacts
<1>9. Cardinality(KeptUpTo(p) \cup {n}) = Cardinality(KeptUpTo(p)) + 1
  BY <1>7, <1>8, FS_AddElement
<1>10. QED
  BY <1>2, <1>5, <1>6, <1>9

\* the place of a line among the kept ones
LEMMA KeptPlace ==
  ASSUME job \in Jobs, NEW n \in Nat, NEW p \in KeptUpTo(n)
  PROVE  Cardinality(KeptUpTo(p)) \in 1 .. Cardinality(KeptUpTo(n))
<1>1. p \in KeptLines /\ p <= n /\ KeptLines \subseteq Nat
  BY KeptRange DEF KeptUpTo
<1>2. p \in Nat /\ p <= p
  BY <1>1
<1>3. ASSUME NEW q \in KeptLines, q <= p PROVE q <= n
  BY <1>1, <1>2, <1>3
<1>4. KeptUpTo(p) \subseteq KeptUpTo(n) /\ p \in KeptUpTo(p)
  BY <1>1, <1>2, <1>3 DEF KeptUpTo
<1>5. IsFiniteSet(KeptUpTo(n)) /\ IsFiniteSet(KeptUpTo(p))
  BY <1>2, KeptFacts
<1>6. Cardinality(KeptUpTo(p)) <= Cardinality(KeptUpTo(n))
  BY <1>4, <1>5, FS_Subset
<1>7. Cardinality(KeptUpTo(p)) # 0
  BY <1>4, <1>5, FS_EmptySet
<1>8. Cardinality(KeptUpTo(p)) \in Nat /\ Cardinality(KeptUpTo(n)) \in Nat
  BY <1>2, KeptFacts
<1>9. QED
  BY <1>6, <1>7, <1>8

\* the first line is not kept
LEMMA NoneAtFirst ==
  ASSUME job \in Jobs, NEW p \in 0 .. 1
  PROVE  KeptUpTo(p) = {}
<1>1. ASSUME NEW q \in KeptLines PROVE ~(q <= p)
  <2>1. q \in 2 .. Len(file) /\ Len(file) \in Nat
    BY KeptRange
  <2>2. QED BY <2>1
<1>2. QED
  BY <1>1 DEF KeptUpTo

LEMMA SameLines ==
  ASSUME job' = job
  PROVE  KeptLines' = KeptLines /\ \A p : KeptUpTo(p)' = KeptUpTo(p)
BY SameJob DEF KeptLines, KeptUpTo

LEMMA LinesLine == Types /\ ChunkingType = "trace" /\ Lines /\ TraceLine => Lines'
<1> SUFFICES ASSUME Types, ChunkingType = "trace", Lines, TraceLine PROVE Lines'
  OBVIOUS
<1>1. /\ LineNext.ends /\ LineNext.size \in Nat
      /\ position' = position + 1 /\ position' \in 1 .. Len(file) /\ position < Len(file)
      /\ pc = "read" /\ pc' = "read" /\ job' = job
  BY LineFacts
<1>2. /\ position \in Nat /\ job \in Jobs /\ Len(file) \in Nat /\ MaxChunk \in Nat
      /\ fileSize \in Nat /\ Len(chunks) \in Nat
  BY ChunkerAssumption, JobFacts DEF Types
<1>3. 1 <= position
  BY <1>1, <1>2 DEF Lines, Least
<1>4. position + 1 \in 2 .. Len(file)
  BY <1>1, <1>2, <1>3
<1>5. position + 1 \in KeptLines <=> ~(LineNext.size > MaxChunk)
  BY <1>1, <1>2, <1>4 DEF KeptLines, LineNext
<1>6. file' = file /\ KeptLines' = KeptLines /\ \A p : KeptUpTo(p)' = KeptUpTo(p)
  BY <1>1, SameJob, SameLines
<1>7. /\ Len(chunks) = Cardinality(KeptUpTo(position)) /\ fileSize = Len(FlattenSeq(chunks))
      /\ \A p \in KeptUpTo(position) :
            chunks[Cardinality(KeptUpTo(p))] = Fill(file[p].fp, file[p].size)
  BY DEF Lines
<1>8. /\ Len(chunks') = Cardinality(KeptUpTo(position + 1))
      /\ \A p \in KeptUpTo(position + 1) :
            chunks'[Cardinality(KeptUpTo(p))] = Fill(file[p].fp, file[p].size)
      /\ fileSize' = Len(FlattenSeq(chunks'))
  <2>1. CASE LineNext.size > MaxChunk
    <3>1. KeptUpTo(position + 1) = KeptUpTo(position)
      BY <1>2, <1>5, <2>1, KeptNext
    <3>2. chunks' = chunks /\ fileSize' = fileSize
      BY <2>1, LineFacts
    <3>3. QED BY <1>7, <3>1, <3>2
  <2>2. CASE ~(LineNext.size > MaxChunk)
    <3>1. PICK c \in Seq(Nat) :
            /\ c = Fill(LineNext.fp, LineNext.size) /\ Len(c) = LineNext.size
            /\ chunks' = Append(chunks, c) /\ fileSize' = fileSize + LineNext.size
      BY <2>2, LineFacts
    <3>2. /\ KeptUpTo(position + 1) = KeptUpTo(position) \cup {position + 1}
          /\ Cardinality(KeptUpTo(position + 1)) = Cardinality(KeptUpTo(position)) + 1
      BY <1>2, <1>5, <2>2, KeptNext
    <3>3. /\ Len(chunks') = Len(chunks) + 1 /\ chunks'[Len(chunks) + 1] = c
          /\ \A i \in 1 .. Len(chunks) : chunks'[i] = chunks[i]
          /\ Len(FlattenSeq(chunks')) = Len(FlattenSeq(chunks)) + Len(c)
      BY <3>1, OneMore
    <3>4. ASSUME NEW p \in KeptUpTo(position)
          PROVE  chunks'[Cardinality(KeptUpTo(p))] = Fill(file[p].fp, file[p].size)
      <4>1. Cardinality(KeptUpTo(p)) \in 1 .. Len(chunks)
        BY <1>2, <1>7, KeptPlace
      <4>2. QED BY <1>7, <3>3, <4>1
    <3>5. chunks'[Cardinality(KeptUpTo(position + 1))] =
             Fill(file[position + 1].fp, file[position + 1].size)
      <4>1. Cardinality(KeptUpTo(position + 1)) = Len(chunks) + 1
        BY <1>7, <3>2
      <4>2. QED BY <3>1, <3>3, <4>1 DEF LineNext
    <3>6. Len(chunks') = Cardinality(KeptUpTo(position + 1))
      BY <1>7, <3>2, <3>3
    <3>7. fileSize' = Len(FlattenSeq(chunks'))
      BY <1>7, <3>1, <3>3
    <3>8. QED BY <3>2, <3>4, <3>5, <3>6, <3>7
  <2>3. QED BY <2>1, <2>2
<1>9. 1 < position'
  BY <1>1, <1>2, <1>3
<1>10. QED
  BY <1>1, <1>6, <1>8, <1>9 DEF Lines

LEMMA LinesOver == Types /\ ChunkingType = "trace" /\ Lines /\ TraceOver => Lines'
<1> SUFFICES ASSUME Types, ChunkingType = "trace", Lines, TraceOver PROVE Lines'
  OBVIOUS
<1>1. /\ pc = "read" /\ pc' = "recipe" /\ job' = job /\ position' = position
      /\ fileSize' = fileSize /\ chunks' = chunks
      /\ position < Len(file) => ~file[position + 1].ends
  BY DEF TraceOver, stream
<1>2. /\ position \in 0 .. Len(file) /\ position \in Nat /\ job \in Jobs /\ Len(file) \in Nat
      /\ file \in Trace
  BY JobFacts DEF Types
<1>3. file' = file /\ KeptLines' = KeptLines /\ \A p : KeptUpTo(p)' = KeptUpTo(p)
  BY <1>1, SameJob, SameLines
<1>4. ASSUME NEW p \in KeptLines PROVE p <= position
  <2>1. p \in 2 .. Len(file) /\ file[p].ends
    BY DEF KeptLines
  <2>2. SUFFICES ASSUME position < p PROVE FALSE
    BY <1>2, <2>1
  <2>3. position < Len(file)
    BY <1>2, <2>1, <2>2
  <2>4. ~file[position + 1].ends
    BY <1>1, <2>3
  <2>5. position + 1 = Len(file)
    <3>1. SUFFICES ASSUME position + 1 < Len(file) PROVE FALSE
      BY <1>2, <2>3
    <3>2. position + 1 \in 1 .. Len(file) - 1
      BY <1>2, <3>1
    <3>3. file[position + 1].ends
      BY <1>2, <3>2 DEF Trace
    <3>4. QED BY <2>4, <3>3
  <2>6. p = position + 1
    BY <1>2, <2>1, <2>2, <2>5
  <2>7. QED BY <2>1, <2>4, <2>6
<1>5. KeptUpTo(position) = KeptLines
  BY <1>4 DEF KeptUpTo
<1>6. QED
  BY <1>1, <1>3, <1>5 DEF Lines

LEMMA LinesStep == Types /\ ChunkingType = "trace" /\ Lines /\ [Next]_vars => Lines'
<1> SUFFICES ASSUME Types, ChunkingType = "trace", Lines, [Next]_vars PROVE Lines'
  OBVIOUS
<1>1. job' = job
  BY JobStays
<1>2. file' = file /\ KeptLines' = KeptLines /\ \A p : KeptUpTo(p)' = KeptUpTo(p)
  BY <1>1, SameJob, SameLines
<1>3. CASE UNCHANGED vars
  BY <1>2, <1>3 DEF Lines, vars, stream
<1>4. CASE ChunkerInit
  <2>1. /\ pc' \in {"read", "exit"} /\ position' = Least(1, Len(file))
        /\ UNCHANGED <<fileSize, chunks>> /\ pc = "init"
    BY <1>4 DEF ChunkerInit
  <2>2. position = 0 /\ job \in Jobs /\ Len(file) \in Nat
    BY <2>1, JobFacts DEF Lines, Types
  <2>3. KeptUpTo(position') = KeptUpTo(position)
    <3>1. position' \in 0 .. 1 /\ position \in 0 .. 1
      <4>1. PICK n \in Nat : n = Len(file)
        BY <2>2
      <4>2. Least(1, n) \in 0 .. 1
        BY DEF Least
      <4>3. QED BY <2>1, <2>2, <4>1, <4>2
    <3>2. QED BY <2>2, <3>1, NoneAtFirst
  <2>4. QED BY <1>2, <2>1, <2>3 DEF Lines
<1>5. CASE TraceCrash
  BY <1>2, <1>5 DEF TraceCrash, Lines, stream
<1>6. CASE GiveRecipe
  BY <1>2, <1>6 DEF GiveRecipe, Lines, stream
<1>7. CASE ReadBlock \/ FixChunk \/ FixOver \/ VarByte \/ VarOver
  BY <1>7 DEF ReadBlock, FixChunk, FixOver, VarByte, VarOver
<1>8. QED
  BY <1>3, <1>4, <1>5, <1>6, <1>7, LinesLine, LinesOver DEF Next, TraceStep

-----------------------------------------------------------------------------
LEMMA ChunkInvInit == Init => ChunkInv
<1> SUFFICES ASSUME Init PROVE ChunkInv
  OBVIOUS
<1>1. Types
  BY TypesInit
<1>2. /\ pc = "init" /\ position = 0 /\ fileSize = 0 /\ chunks = << >> /\ buffer = << >>
      /\ winFp = 0 /\ job \in Jobs
  BY DEF Init
<1>3. Untouched /\ FlattenSeq(chunks) = << >> /\ Len(chunks) = 0 /\ Len(buffer) = 0
  BY <1>2, FlattenNone DEF Untouched
<1>4. WinSize < MaxChunk => Room
  BY <1>2, <1>3, ChunkerAssumption DEF Room
<1>5. Whole
  BY <1>2, <1>3 DEF Whole
<1>6. Cut
  BY <1>2, <1>3 DEF Cut
<1>7. WholeBlocks => Blocks
  <2> SUFFICES ASSUME WholeBlocks PROVE Blocks
    OBVIOUS
  <2>1. file \in Seq(Nat) /\ ReadSize \in Nat \ {0}
    BY <1>2, JobFacts DEF WholeBlocks
  <2>2. SubSeq(file, 1, 0) \in Seq(Nat) /\ Len(SubSeq(file, 1, 0)) = 0
    BY <2>1
  <2>3. SubSeq(file, 1, 0) = << >>
    BY <2>2, NoLength
  <2>4. 0 % ReadSize = 0
    BY <2>1, ZeroIsMultiple
  <2>5. QED BY <1>2, <1>3, <2>3, <2>4 DEF Blocks
<1>8. Lines
  <2>1. 0 \in 0 .. 1
    OBVIOUS
  <2>2. KeptUpTo(0) = {}
    BY <1>2, <2>1, NoneAtFirst
  <2>3. Cardinality({}) = 0
    BY FS_EmptySet
  <2>4. QED BY <1>2, <1>3, <2>2, <2>3, FlattenNone DEF Lines
<1>9. QED
  BY <1>1, <1>4, <1>5, <1>6, <1>7, <1>8 DEF ChunkInv

LEMMA ChunkInvStep == ChunkInv /\ [Next]_vars => ChunkInv'
<1> SUFFICES ASSUME ChunkInv, [Next]_vars PROVE ChunkInv'
  OBVIOUS
<1>1. ChunkingType' = ChunkingType /\ OneBlock' = OneBlock /\ WholeBlocks' = WholeBlocks
  BY JobStays, SameJob
<1>2. Types'
  BY TypesStep DEF ChunkInv
<1>3. WinSize < MaxChunk => Room'
  BY RoomStep DEF ChunkInv
<1>4. OneBlock => Whole'
  BY WholeStep DEF ChunkInv
<1>5. OneBlock /\ WinSize < MaxChunk => Cut'
  BY CutStep DEF ChunkInv
<1>6. WholeBlocks => Blocks'
  BY BlocksStep DEF ChunkInv
<1>7. ChunkingType = "trace" => Lines'
  BY LinesStep DEF ChunkInv
<1>8. QED
  BY <1>1, <1>2, <1>3, <1>4, <1>5, <1>6, <1>7 DEF ChunkInv

LEMMA ChunkInvAlways == Spec => []ChunkInv
<1>1. Init => ChunkInv
  BY ChunkInvInit
<1>2. ChunkInv /\ [Next]_vars => ChunkInv'
  BY ChunkInvStep
<1>3. QED
  BY <1>1, <1>2, PTL DEF Spec

\* There is always room for the next byte in the chunk buffer, for every file, every size of its
\* blocks and all sizes with a window smaller than the largest chunk.
THEOREM BufferHasRoom ==
  WinSize < MaxChunk => (Spec => []WithinBuffer)
<1> SUFFICES ASSUME WinSize < MaxChunk
             PROVE  Spec => []WithinBuffer
  OBVIOUS
<1>1. ChunkInv => WithinBuffer
  BY DEF ChunkInv, Room, WithinBuffer
<1>2. QED
  BY <1>1, ChunkInvAlways, PTL

\* The chunks of a file of one block that is cut by its content, or of whole blocks that are cut at
\* a size that divides them, are the file, and the recipe's totals are theirs.
THEOREM ChunksAreTheFile ==
  Spec => []WholeFile
<1>1. ChunkInv => TypeOK
  <2> SUFFICES ASSUME ChunkInv PROVE TypeOK
    OBVIOUS
  <2>1. Types
    BY DEF ChunkInv
  <2>2. QED BY <2>1 DEF Types, TypeOK
<1>2. ASSUME ChunkInv, pc = "end", OneBlock \/ WholeBlocks
      PROVE  FlattenSeq(chunks) = file /\ recipe.number = Len(chunks) /\ recipe.size = Len(file)
  <2>1. recipe.number = Len(chunks) /\ recipe.size = fileSize
    BY <1>2 DEF ChunkInv, Types
  <2>2. CASE OneBlock
    BY <1>2, <2>1, <2>2 DEF ChunkInv, Whole
  <2>3. CASE WholeBlocks
    BY <1>2, <2>1, <2>3 DEF ChunkInv, Blocks
  <2>4. QED BY <1>2, <2>2, <2>3
<1>3. ChunkInv => WholeFile
  BY <1>1, <1>2 DEF WholeFile
<1>4. QED
  BY <1>3, ChunkInvAlways, PTL

\* A chunk of a file of one block ends at the first place where the polynomial of the window before
\* it says so, or at the largest size: the rolled hash, its tables and its 16 bits compute that
\* polynomial, for every polynomial base, file and size with a window below the largest chunk.
THEOREM ContentCuts ==
  WinSize < MaxChunk => (Spec => []CutByContent)
<1> SUFFICES ASSUME WinSize < MaxChunk
             PROVE  Spec => []CutByContent
  OBVIOUS
<1>1. ChunkInv => CutByContent
  BY DEF ChunkInv, Cut, CutAt, CutByContent
<1>2. QED
  BY <1>1, ChunkInvAlways, PTL

\* The chunks of a trace are its kept lines in their order, and the recipe's totals are theirs, for
\* every trace whose lines but the last are ended.
THEOREM TraceKept ==
  Spec => []TraceChunks
<1>1. ASSUME ChunkInv, pc = "end", ChunkingType = "trace"
      PROVE  /\ Len(chunks) = Cardinality(KeptLines)
             /\ \A p \in KeptLines :
                   chunks[Cardinality(KeptUpTo(p))] = Fill(file[p].fp, file[p].size)
             /\ recipe.number = Len(chunks) /\ recipe.size = Len(FlattenSeq(chunks))
  <2>1. recipe.number = Len(chunks) /\ recipe.size = fileSize /\ Lines
    BY <1>1 DEF ChunkInv, Types
  <2>2. QED BY <1>1, <2>1 DEF Lines
<1>2. ChunkInv => TraceChunks
  BY <1>1 DEF TraceChunks
<1>3. QED
  BY <1>2, ChunkInvAlways, PTL
=============================================================================
