----------------------- MODULE LockFreeExchanger_proofs -----------------------
(***************************************************************************)
(* Proofs about LockFreeExchanger, for any sets of threads and slots and   *)
(* any width of the item up to the state bits: the layout of the word, the *)
(* inductive invariant IInv with SlotOwnership and NoInvalidState, and     *)
(* that the exchanger implements Exchanger.                                *)
(***************************************************************************)
EXTENDS LockFreeExchanger, TLAPS, FiniteSetTheorems, NaturalsInduction,
        WellFoundedInduction

----------------------------------------------------------------------------
(* Powers of two and division *)

\* 2^n is the number of sets of n elements: that is all there is to know it by.
LEMMA PowerNat == \A n \in Nat : 2^n \in Nat
<1> TAKE n \in Nat
<1>1. IsFiniteSet(1 .. n) /\ Cardinality(1 .. n) = n
  BY FS_Interval
<1>2. 2^n = Cardinality(SUBSET (1 .. n)) /\ IsFiniteSet(SUBSET (1 .. n))
  BY <1>1, FS_SUBSET
<1> QED BY <1>2, FS_CardinalityType

\* One more element doubles it: each set with the new element and without.
LEMMA PowerNext == ASSUME NEW n \in Nat PROVE 2^(n + 1) = 2 * 2^n
<1> DEFINE S == SUBSET (1 .. n)
           x == n + 1
           U == {A \cup {x} : A \in S}
           f == [A \in S |-> A \cup {x}]
<1>1. IsFiniteSet(1 .. n) /\ Cardinality(1 .. n) = n /\ IsFiniteSet(1 .. x) /\ Cardinality(1 .. x) = x
  BY FS_Interval
<1>2. /\ 2^n = Cardinality(S) /\ IsFiniteSet(S)
      /\ 2^x = Cardinality(SUBSET (1 .. x))
  BY <1>1, FS_SUBSET
<1>3. x \notin 1 .. n /\ 1 .. x = (1 .. n) \cup {x}
  OBVIOUS
<1>4. \A A \in S : x \notin A
  BY <1>3
<1>5. f \in Bijection(S, U)
  <2>1. f \in [S -> U]
    OBVIOUS
  <2>2. \A A, B \in S : f[A] = f[B] => A = B
    BY <1>4
  <2>3. \A C \in U : \E A \in S : f[A] = C
    OBVIOUS
  <2> QED
    BY <2>1, <2>2, <2>3 DEF Bijection, Injection, Surjection, IsInjective
<1>6. IsFiniteSet(U) /\ Cardinality(U) = Cardinality(S)
  BY <1>2, <1>5, FS_Bijection DEF ExistsBijection
<1>7. SUBSET (1 .. x) = S \cup U
  <2>1. ASSUME NEW C \in SUBSET (1 .. x), C \notin S
        PROVE  C \in U
    <3>1. x \in C /\ C \ {x} \in S /\ C = (C \ {x}) \cup {x}
      BY <1>3, <2>1
    <3> QED BY <3>1
  <2>2. \A C \in U : C \in SUBSET (1 .. x)
    BY <1>3
  <2>3. \A C \in S : C \in SUBSET (1 .. x)
    BY <1>3
  <2> HIDE DEF S, U
  <2> QED BY <2>1, <2>2, <2>3
<1>8. S \cap U = {}
  BY <1>4
<1> HIDE DEF S, U, x
<1>9. Cardinality(S \cup U) = Cardinality(S) + Cardinality(U) - Cardinality(S \cap U)
  BY <1>2, <1>6, FS_Union
<1>10. Cardinality(S) \in Nat /\ Cardinality(S \cap U) = 0
  BY <1>2, <1>8, FS_CardinalityType, FS_EmptySet
<1> HIDE DEF f
<1>11. 2^x = Cardinality(S) + Cardinality(S)
  <2>1. 2^x = Cardinality(S \cup U)
    BY <1>2, <1>7, Zenon
  <2>2. Cardinality(U) = Cardinality(S)
    BY <1>6
  <2>3. Cardinality(S \cup U) = Cardinality(S) + Cardinality(S) - 0
    BY <2>2, <1>9, <1>10, Zenon
  <2> QED BY <1>10, <2>1, <2>3
<1>12. 2^x = 2 * 2^n
  <2>1. \A c \in Nat : c + c = 2 * c
    OBVIOUS
  <2> QED BY <1>2, <1>10, <1>11, <2>1
<1> QED
  BY <1>12 DEF x

\* A set of naturals has a least element; it stands in for induction.
LEMMA LeastNatural ==
  ASSUME NEW D \in SUBSET Nat, D # {}
  PROVE  \E m \in D : \A k \in D : m <= k
<1>1. PICK m \in D : \A k \in D : <<k, m>> \notin OpToRel(<, Nat)
  BY NatLessThanWellFounded, WFMin, Zenon
<1>2. \A k \in D : ~(k < m)
  BY <1>1, Zenon DEF OpToRel
<1> QED
  BY <1>2

\* 2^m divides every higher power.
LEMMA PowerSum == \A m, k \in Nat : 2^(m + k) = 2^m * 2^k
<1> SUFFICES ASSUME NEW m \in Nat, NEW k \in Nat, 2^(m + k) # 2^m * 2^k
             PROVE  FALSE
  OBVIOUS
<1> DEFINE D == {j \in Nat : 2^(m + j) # 2^m * 2^j}
<1>1. PICK j \in D : \A i \in D : j <= i
  <2>1. D \in SUBSET Nat /\ D # {}
    OBVIOUS
  <2> HIDE DEF D
  <2> QED BY <2>1, LeastNatural
<1>2. j # 0
  <2>1. 2^0 = 1
    <3>1. IsFiniteSet({}) /\ Cardinality({}) = 0
      BY FS_EmptySet
    <3>2. SUBSET {} = {{}} /\ Cardinality({{}}) = 1
      BY FS_Singleton
    <3> QED BY <3>1, <3>2, FS_SUBSET
  <2>2. 2^(m + 0) = 2^m * 1
    <3>1. m + 0 = m
      OBVIOUS
    <3>2. 2^m * 1 = 2^m
      BY PowerNat
    <3> QED BY <3>1, <3>2, Zenon
  <2> QED BY <2>1, <2>2, <1>1
<1>3. PICK i \in Nat : j = i + 1
  <2>1. j - 1 \in Nat /\ j = (j - 1) + 1
    BY <1>1, <1>2
  <2> QED BY <2>1
<1>4. 2^(m + i) = 2^m * 2^i
  BY <1>1, <1>3
<1>5. 2^(m + j) = 2 * 2^(m + i) /\ 2^j = 2 * 2^i
  <2>1. m + j = (m + i) + 1 /\ m + i \in Nat
    BY <1>3
  <2> QED BY <2>1, <1>3, PowerNext, Zenon
<1>6. 2^(m + j) = 2^m * 2^j
  <2>1. \A a, b \in Nat : 2 * (a * b) = a * (2 * b)
    OBVIOUS
  <2>2. 2^m \in Nat /\ 2^i \in Nat
    BY PowerNat
  <2> QED BY <2>1, <2>2, <1>4, <1>5
<1> QED BY <1>1, <1>6

LEMMA PowerPositive == \A n \in Nat : 2^n \in Nat \ {0}
<1> TAKE n \in Nat
<1>1. IsFiniteSet(1 .. n) /\ Cardinality(1 .. n) = n
  BY FS_Interval
<1>2. 2^n = Cardinality(SUBSET (1 .. n)) /\ IsFiniteSet(SUBSET (1 .. n))
  BY <1>1, FS_SUBSET
<1>3. SUBSET (1 .. n) # {}
  OBVIOUS
<1> QED BY <1>2, <1>3, PowerNat, FS_EmptySet

\* Quotient and remainder are the only ones.
LEMMA DivisionUnique ==
  ASSUME NEW a \in Int, NEW n \in Nat \ {0}, NEW q \in Int, NEW r \in 0 .. n - 1, a = n * q + r
  PROVE  a \div n = q /\ a % n = r
<1>1. /\ a \div n \in Int /\ a % n \in 0 .. n - 1
      /\ a = n * (a \div n) + (a % n)
  OBVIOUS
<1> DEFINE d == a \div n  m == a % n
<1> HIDE DEF d, m
<1>2. d \in Int /\ m \in 0 .. n-1 /\ a = n * d + m
  BY <1>1 DEF d, m
<1>3. ASSUME NEW x \in Int, NEW y \in Int, x < y PROVE n * x + n <= n * y
  <2>1. x + 1 <= y /\ n \in Nat
    BY <1>3
  <2>2. n * (x + 1) <= n * y
   BY <2>1
  <2>3. n * (x+1) = n * x + n
    BY <2>1
  <2> QED BY <2>1, <2>2, <2>3
<1>4. ~(d < q) /\ ~(q < d)
  BY <1>2, <1>3
<1>5. d = q
  BY <1>2, <1>4
<1>6. m = r
  BY <1>2, <1>5
<1> QED BY <1>5, <1>6 DEF d, m

----------------------------------------------------------------------------
(* The layout of the word *)

P == 2^BITS_POS          \* the lowest state bit
H == 2^(T_BITS - 1)      \* the sign bit of the item

\* The word has two state bits at P and one bit above them, and the bits of an
\* item fit below P, sign included.
LEMMA Widths ==
  /\ P \in Nat \ {0} /\ H \in Nat \ {0}
  /\ 2^(BITS_POS + 2) = 4 * P /\ 2^(BITS_POS + 3) = 8 * P
  /\ 2^T_BITS = 2 * H
  /\ \E q \in Nat \ {0} : P = (2 * H) * q
<1>1. P \in Nat \ {0} /\ H \in Nat \ {0}
  BY WidthAssumption, PowerPositive DEF P, H
<1>2. /\ 2^(BITS_POS + 1) = 2 * P
      /\ 2^(BITS_POS + 2) = 2 * 2^(BITS_POS + 1)
      /\ 2^(BITS_POS + 3) = 2 * 2^(BITS_POS + 2)
  <2>1. /\ BITS_POS \in Nat /\ BITS_POS + 1 \in Nat /\ BITS_POS + 2 \in Nat
        /\ BITS_POS + 2 = (BITS_POS + 1) + 1 /\ BITS_POS + 3 = (BITS_POS + 2) + 1
    BY WidthAssumption
  <2> QED BY <2>1, PowerNext, Zenon DEF P
<1>3. 2^T_BITS = 2 * H
  <2>1. T_BITS - 1 \in Nat /\ T_BITS = (T_BITS - 1) + 1
    BY WidthAssumption
  <2> QED BY <2>1, PowerNext, Zenon DEF H
<1>4. P = (2 * H) * 2^(BITS_POS - T_BITS) /\ 2^(BITS_POS - T_BITS) \in Nat \ {0}
  <2>1. /\ T_BITS \in Nat /\ BITS_POS - T_BITS \in Nat
        /\ BITS_POS = T_BITS + (BITS_POS - T_BITS)
    BY WidthAssumption
  <2> QED BY <2>1, <1>3, PowerSum, PowerPositive, Zenon DEF P
<1>5. 2^(BITS_POS + 2) = 4 * P /\ 2^(BITS_POS + 3) = 8 * P
  <2>1. 2^(BITS_POS + 2) = 2 * (2 * P) /\ 2^(BITS_POS + 3) = 2 * (2 * (2 * P))
    BY <1>2
  <2>2. 2 * (2 * P) = 4 * P /\ 2 * (2 * (2 * P)) = 8 * P
    BY <1>1
  <2> QED BY <2>1, <2>2
<1> QED BY <1>1, <1>3, <1>4, <1>5

\* The bits of an item, apart from the state: b is the bit above the state.
LEMMA WordOfItem ==
  ASSUME NEW v \in T
  PROVE  \E r \in 0 .. P - 1, b \in {0, 1} :
           /\ ValueBits(ToWord(v)) = r + 4 * P * b
           /\ r % (2 * H) = IF v < 0 THEN v + 2 * H ELSE v
<1>1. P \in Nat \ {0} /\ H \in Nat \ {0} /\ 2 * H \in Nat \ {0} /\ 4 * P \in Nat \ {0}
  BY Widths
<1>2. PICK q \in Nat \ {0} : P = (2 * H) * q
  BY Widths
<1>3. 2 * H <= P
  <2>1. \A x \in Nat, y \in Nat \ {0} : x <= x * y
    OBVIOUS
  <2> QED BY <2>1, <1>1, <1>2
<1>4. v \in Int /\ -H <= v /\ v < H
  BY <1>1 DEF T, H
<1> HIDE DEF P, H
<1> DEFINE w == ToWord(v)
<1>5. CASE v >= 0
  <2>1. w = v
    <3>1. v \in 0 .. 8 * P - 1 /\ v = (8 * P) * 0 + v /\ 8 * P \in Nat \ {0}
      BY <1>1, <1>3, <1>4, <1>5
    <3>2. v % (8 * P) = v
      BY <3>1, <1>4, DivisionUnique
    <3> QED BY <3>2, Widths DEF ToWord
  <2>2. w % P = v /\ w \div (4 * P) = 0
    <3>1. v \in 0 .. P - 1 /\ v \in 0 .. 4 * P - 1
      BY <1>1, <1>3, <1>4, <1>5
    <3>2. v = P * 0 + v /\ v = (4 * P) * 0 + v
      BY <1>1, <1>4
    <3> QED BY <2>1, <3>1, <3>2, <1>1, <1>4, DivisionUnique
  <2>3. ValueBits(w) = v + 4 * P * 0
    BY <2>2, <1>1, <1>4, Widths DEF ValueBits, P
  <2>4. v % (2 * H) = v
    BY <1>1, <1>4, <1>5, DivisionUnique
  <2>5. v \in 0 .. P - 1
    BY <1>1, <1>3, <1>4, <1>5
  <2> QED BY <2>3, <2>4, <2>5, <1>5, <1>4
<1>6. CASE v < 0
  <2> DEFINE r == v + P
  <2>1. w = v + 8 * P
    <3>1. v + 8 * P \in 0 .. 8 * P - 1 /\ v = (8 * P) * (-1) + (v + 8 * P) /\ 8 * P \in Nat \ {0}
      BY <1>1, <1>3, <1>4, <1>6
    <3>2. v % (8 * P) = v + 8 * P
      BY <3>1, <1>4, DivisionUnique
    <3> QED BY <3>2, Widths DEF ToWord
  <2>2. r \in 0 .. P - 1
    BY <1>1, <1>3, <1>4, <1>6
  <2>3. w % P = r /\ w \div (4 * P) = 1
    <3>1. v + 4 * P \in 0 .. 4 * P - 1
      BY <1>1, <1>3, <1>4, <1>6
    <3>2. w = P * 7 + r /\ w = (4 * P) * 1 + (v + 4 * P) /\ w \in Int
      BY <2>1, <1>1, <1>4
    <3> HIDE DEF w, r
    <3>3. w % P = r
      BY <2>2, <3>2, <1>1, DivisionUnique
    <3>4. w \div (4 * P) = 1
      BY <3>1, <3>2, <1>1, DivisionUnique
    <3> QED BY <3>3, <3>4
  <2>4. ValueBits(w) = r + 4 * P * 1
    BY <2>2, <2>3, <1>1, Widths DEF ValueBits, P
  <2>5. r % (2 * H) = v + 2 * H
    <3>1. r = (2 * H) * (q - 1) + (v + 2 * H)
      <4>1. (2 * H) * (q - 1) = (2 * H) * q - 2 * H
        BY <1>1, <1>2
      <4> QED BY <4>1, <1>1, <1>2, <1>4
    <3>2. v + 2 * H \in 0 .. 2 * H - 1
      BY <1>1, <1>4, <1>6
    <3>3. r \in Int /\ q - 1 \in Int
      BY <2>2, <1>2, <1>1
    <3> HIDE DEF r
    <3> QED BY <3>1, <3>2, <3>3, <1>1, DivisionUnique
  <2> HIDE DEF r
  <2> QED BY <2>2, <2>4, <2>5, <1>6
<1> QED BY <1>4, <1>5, <1>6

\* Packed with a state, an item and the state can be told apart again.
LEMMA Packed ==
  ASSUME NEW v \in T, NEW s \in {STATE_WAITING, STATE_BUSY}
  PROVE  /\ State(Pack(v, s)) = s
         /\ ToT(ValueBits(Pack(v, s))) = v
<1>1. P \in Nat \ {0} /\ H \in Nat \ {0} /\ 2 * H \in Nat \ {0} /\ 4 * P \in Nat \ {0}
  BY Widths
<1>2. PICK r \in 0 .. P - 1, b \in {0, 1} :
        /\ ValueBits(ToWord(v)) = r + 4 * P * b
        /\ r % (2 * H) = IF v < 0 THEN v + 2 * H ELSE v
  BY WordOfItem
<1>3. s \in {1, 2}
  BY DEF STATE_WAITING, STATE_BUSY
<1>4. PICK q \in Nat \ {0} : P = (2 * H) * q
  BY Widths
<1>5. v \in Int /\ -H <= v /\ v < H
  BY <1>1 DEF T, H
<1> DEFINE w == Pack(v, s)
<1>6. w = r + 4 * P * b + s * P
  BY <1>2 DEF Pack, P
<1> HIDE DEF P, H, w
<1>7. w \in Int /\ w \div P = 4 * b + s /\ w % P = r
  <2>1. w = P * (4 * b + s) + r /\ w \in Int /\ 4 * b + s \in Int
    BY <1>1, <1>2, <1>3, <1>6
  <2> QED BY <2>1, <1>1, <1>2, DivisionUnique
<1>8. w \div (4 * P) = b
  <2>1. r + s * P \in 0 .. 4 * P - 1
    BY <1>1, <1>2, <1>3
  <2>2. w = (4 * P) * b + (r + s * P)
    BY <1>1, <1>2, <1>3, <1>6
  <2> QED BY <2>1, <2>2, <1>1, <1>2, <1>7, DivisionUnique
<1>9. State(w) = s
  <2>1. (4 * b + s) % 4 = s
    BY <1>2, <1>3
  <2> QED BY <2>1, <1>7 DEF State, P
<1>10. ValueBits(w) = r + 4 * P * b
  BY <1>1, <1>2, <1>7, <1>8, Widths DEF ValueBits, P
<1>11. (r + 4 * P * b) % (2 * H) = r % (2 * H)
  <2> DEFINE d == r \div (2 * H)
             m == r % (2 * H)
  <2>1. d \in Int /\ m \in 0 .. 2 * H - 1 /\ r = (2 * H) * d + m
    BY <1>1, <1>2
  <2> HIDE DEF d, m
  <2>2. r + 4 * P * b = (2 * H) * (d + 4 * q * b) + m
    <3>1. \A x, y, z, u \in Int : x * z + u + 4 * (x * y) * b = x * (z + 4 * y * b) + u
      BY <1>2
    <3> QED BY <3>1, <2>1, <1>1, <1>4
  <2>3. r + 4 * P * b \in Int /\ d + 4 * q * b \in Int
    BY <2>1, <1>1, <1>2, <1>4
  <2>4. (r + 4 * P * b) % (2 * H) = m
    BY <2>1, <2>2, <2>3, <1>1, DivisionUnique
  <2> QED BY <2>4 DEF m
<1>12. ToT(ValueBits(w)) = v
  <2>1. ValueBits(w) % 2^T_BITS = IF v < 0 THEN v + 2 * H ELSE v
    BY <1>2, <1>10, <1>11, Widths
  <2>2. 2^T_BITS = 2 * H /\ 2^(T_BITS - 1) = H
    BY Widths DEF H
  <2> QED BY <2>1, <2>2, <1>1, <1>5 DEF ToT
<1> QED BY <1>9, <1>12 DEF w

\* An empty word is empty.
LEMMA EmptyWord == State(STATE_EMPTY) = STATE_EMPTY
<1>1. P \in Nat \ {0}
  BY Widths
<1> HIDE DEF P
<1>2. 0 \div P = 0
  <2>1. 0 = P * 0 + 0 /\ 0 \in 0 .. P - 1
    BY <1>1
  <2> QED BY <2>1, <1>1, DivisionUnique
<1> QED BY <1>2 DEF State, STATE_EMPTY, P

----------------------------------------------------------------------------
(* The inductive invariant *)

Words == {STATE_EMPTY} \cup {Pack(v, s) : v \in T, s \in {STATE_WAITING, STATE_BUSY}}

OwnerPcs == {"wait", "revert", "grab", "take"}

TypeOK ==
  /\ value_and_state \in [Slots -> Words]
  /\ clock \in [Threads -> {"before", "at", "after"}]
  /\ xpc \in [Threads -> OwnerPcs \cup {"idle", "top", "propose", "answer", "return"}]
  /\ slot \in [Threads -> Slots \cup {CHOOSE s \in Slots : TRUE}]
  /\ item \in [Threads -> T]
  /\ current \in [Threads -> Words]
  /\ taken \in [Threads -> T \cup {NoItem}]

\* What a thread remembers of its slot is what it looks for there, and the
\* word it owns is its own proposal or the answer to it.
CallOK(t) ==
  /\ xpc[t] # "idle" => slot[t] \in Slots
  /\ xpc[t] = "propose" => current[t] = STATE_EMPTY
  /\ xpc[t] = "answer" => State(current[t]) = STATE_WAITING
  /\ xpc[t] \in {"wait", "revert"} => \/ Word(t) = Pack(item[t], STATE_WAITING)
                                      \/ State(Word(t)) = STATE_BUSY
  /\ xpc[t] \in {"grab", "take"} => State(Word(t)) = STATE_BUSY
  /\ xpc[t] \notin {"take", "return"} => taken[t] = NoItem

IInv == /\ TypeOK
        /\ \A t \in Threads : CallOK(t)
        /\ SlotOwnership

\* The states of a word tell what it is.
LEMMA WordStates ==
  /\ 0 \in T
  /\ \A w \in Words :
       /\ State(w) \in {STATE_EMPTY, STATE_WAITING, STATE_BUSY}
       /\ State(w) = STATE_EMPTY <=> w = STATE_EMPTY
       /\ State(w) = STATE_WAITING => \E v \in T : w = Pack(v, STATE_WAITING)
       /\ State(w) # STATE_EMPTY => ToT(ValueBits(w)) \in T
<1>1. 0 \in T
  <2>1. H \in Nat \ {0}
    BY Widths
  <2> HIDE DEF H
  <2>2. 0 \in -H .. H - 1
    BY <2>1
  <2> QED BY <2>2 DEF T, H
<1>2. STATE_EMPTY # STATE_WAITING /\ STATE_EMPTY # STATE_BUSY /\ STATE_WAITING # STATE_BUSY
  BY DEF STATE_EMPTY, STATE_WAITING, STATE_BUSY
<1>3. ASSUME NEW w \in Words
      PROVE  /\ State(w) \in {STATE_EMPTY, STATE_WAITING, STATE_BUSY}
             /\ State(w) = STATE_EMPTY <=> w = STATE_EMPTY
             /\ State(w) = STATE_WAITING => \E v \in T : w = Pack(v, STATE_WAITING)
             /\ State(w) # STATE_EMPTY => ToT(ValueBits(w)) \in T
  <2>1. CASE w = STATE_EMPTY
    BY <2>1, <1>2, EmptyWord
  <2>2. CASE w # STATE_EMPTY
    <3>1. PICK v \in T, s \in {STATE_WAITING, STATE_BUSY} : w = Pack(v, s)
      BY <2>2 DEF Words
    <3>2. State(w) = s /\ ToT(ValueBits(w)) = v
      BY <3>1, Packed
    <3> QED BY <1>2, <2>2, <3>1, <3>2
  <2> QED BY <2>1, <2>2
<1> QED BY <1>1, <1>3

\* A packed item is a word, and not an empty one.
LEMMA PackedWord ==
  ASSUME NEW v \in T, NEW s \in {STATE_WAITING, STATE_BUSY}
  PROVE  Pack(v, s) \in Words /\ Pack(v, s) # STATE_EMPTY /\ State(Pack(v, s)) = s
<1>1. Pack(v, s) \in Words /\ State(Pack(v, s)) = s
  BY Packed DEF Words
<1>2. s # STATE_EMPTY
  BY DEF STATE_EMPTY, STATE_WAITING, STATE_BUSY
<1> QED BY <1>1, <1>2, EmptyWord

LEMMA InitIInv == Init => IInv
<1> SUFFICES ASSUME Init PROVE IInv
  OBVIOUS
<1>1. TypeOK
  BY WordStates DEF Init, TypeOK, Words, STATE_EMPTY
<1>2. \A t \in Threads : CallOK(t)
  BY DEF Init, CallOK
<1>3. SlotOwnership
  BY DEF Init, SlotOwnership, Owns
<1> QED BY <1>1, <1>2, <1>3 DEF IInv

\* A thread that does not move keeps its invariant while its word stands.
LEMMA CallKept ==
  ASSUME NEW u \in Threads, CallOK(u), xpc'[u] = xpc[u], slot'[u] = slot[u],
         item'[u] = item[u], current'[u] = current[u], taken'[u] = taken[u],
         xpc[u] \in OwnerPcs => Word(u)' = Word(u)
  PROVE  CallOK(u)'
BY DEF CallOK, OwnerPcs

\* A step that leaves the words and the owners alone.
LEMMA OwnersKept ==
  ASSUME IInv, NEW t \in Threads, UNCHANGED value_and_state,
         \A u \in Threads \ {t} : xpc'[u] = xpc[u] /\ slot'[u] = slot[u],
         \A s \in Slots : Owns(t, s)' <=> Owns(t, s)
  PROVE  SlotOwnership'
<1>1. \A u \in Threads, s \in Slots : Owns(u, s)' <=> Owns(u, s)
  BY DEF Owns
<1> QED BY <1>1 DEF IInv, SlotOwnership

\* A step of t that writes no word: t keeps its slot and goes from one place
\* where it owns nothing to another, or from one where it owns it to another.
LEMMA LocalStep ==
  ASSUME IInv, NEW t \in Threads, NEW pc, TypeOK', CallOK(t)',
         UNCHANGED <<value_and_state, slot, item>>,
         xpc' = [xpc EXCEPT ![t] = pc],
         xpc[t] \in OwnerPcs <=> pc \in OwnerPcs,
         \A u \in Threads \ {t} : current'[u] = current[u] /\ taken'[u] = taken[u]
  PROVE  IInv'
<1>1. \A u \in Threads \ {t} : xpc'[u] = xpc[u]
  BY DEF IInv, TypeOK
<1>2. xpc'[t] = pc
  BY DEF IInv, TypeOK
<1>3. SlotOwnership'
  <2>1. \A s \in Slots : Owns(t, s)' <=> Owns(t, s)
    BY <1>2 DEF Owns, OwnerPcs
  <2> QED BY <1>1, <2>1, OwnersKept
<1>4. ASSUME NEW u \in Threads \ {t} PROVE CallOK(u)'
  <2>1. CallOK(u) /\ Word(u)' = Word(u)
    BY DEF IInv, Word
  <2> QED BY <1>1, <2>1, CallKept
<1> QED BY <1>3, <1>4 DEF IInv

\* A step of t that writes the word of its slot, while no other thread waits
\* there.
LEMMA WordStep ==
  ASSUME IInv, NEW t \in Threads, NEW pc, NEW w, TypeOK', CallOK(t)',
         slot[t] \in Slots, UNCHANGED <<slot, item>>, SetWord(t, w),
         xpc' = [xpc EXCEPT ![t] = pc],
         w = STATE_EMPTY <=> pc \notin OwnerPcs,
         \A u \in Threads \ {t} : ~Owns(u, slot[t]),
         \A u \in Threads \ {t} : current'[u] = current[u] /\ taken'[u] = taken[u]
  PROVE  IInv'
<1>1. xpc'[t] = pc /\ \A u \in Threads \ {t} : xpc'[u] = xpc[u]
  BY DEF IInv, TypeOK
<1>2. /\ value_and_state'[slot[t]] = w
      /\ \A s \in Slots \ {slot[t]} : value_and_state'[s] = value_and_state[s]
  BY DEF IInv, TypeOK, SetWord
<1>3. SlotOwnership'
  <2>1. \A u \in Threads \ {t}, s \in Slots : Owns(u, s)' <=> Owns(u, s)
    BY <1>1 DEF Owns
  <2>2. Owns(t, slot[t])' <=> w # STATE_EMPTY
    BY <1>1 DEF Owns, OwnerPcs
  <2>3. \A s \in Slots \ {slot[t]} : ~Owns(t, s)' /\ ~Owns(t, s)
    BY DEF Owns
  <2> QED BY <1>2, <2>1, <2>2, <2>3 DEF IInv, SlotOwnership
<1>4. ASSUME NEW u \in Threads \ {t} PROVE CallOK(u)'
  <2>1. CallOK(u)
    BY DEF IInv
  <2>2. xpc[u] \in OwnerPcs => Word(u)' = Word(u)
    <3>1. xpc[u] \in OwnerPcs => slot[u] \in Slots \ {slot[t]}
      BY <2>1 DEF CallOK, Owns, OwnerPcs
    <3> QED BY <1>2, <3>1 DEF Word
  <2> QED BY <1>1, <2>1, <2>2, CallKept
<1> QED BY <1>3, <1>4 DEF IInv

LEMMA VisitStep ==
  ASSUME IInv, NEW t \in Threads, NEW s \in Slots, NEW v \in T, Visit(t, s, v)
  PROVE  IInv'
<1> USE DEF Visit, Goto
<1>1. TypeOK'
  BY DEF IInv, TypeOK
<1>2. xpc'[t] = "top" /\ slot'[t] = s /\ taken'[t] = NoItem
  BY DEF IInv, TypeOK, CallOK
<1>3. \A u \in Threads \ {t} : xpc'[u] = xpc[u] /\ slot'[u] = slot[u] /\ item'[u] = item[u]
  BY DEF IInv, TypeOK
<1>4. CallOK(t)'
  BY <1>2 DEF CallOK
<1>5. SlotOwnership'
  <2>1. \A r \in Slots : Owns(t, r)' <=> Owns(t, r)
    BY <1>2 DEF Owns
  <2> QED BY <1>3, <2>1, OwnersKept
<1>6. ASSUME NEW u \in Threads \ {t} PROVE CallOK(u)'
  <2>1. CallOK(u) /\ Word(u)' = Word(u)
    BY <1>3 DEF IInv, Word
  <2> QED BY <1>3, <2>1, CallKept
<1> QED BY <1>1, <1>4, <1>5, <1>6 DEF IInv

LEMMA TickStep ==
  ASSUME IInv, NEW t \in Threads, Tick(t)
  PROVE  IInv'
<1>1. TypeOK'
  BY DEF IInv, TypeOK, Tick, xlocals
<1>2. UNCHANGED <<value_and_state, xpc, slot, item, current, taken>>
  BY DEF Tick, xlocals
<1> QED BY <1>1, <1>2 DEF IInv, CallOK, SlotOwnership, Owns, Word

LEMMA GiveUpStep ==
  ASSUME IInv, NEW t \in Threads, GiveUp(t)
  PROVE  IInv'
<1> USE DEF GiveUp, Goto, xlocals
<1>1. TypeOK'
  BY DEF IInv, TypeOK
<1>2. CallOK(t)'
  BY DEF IInv, TypeOK, CallOK
<1> QED BY <1>1, <1>2, LocalStep DEF OwnerPcs

LEMMA LoadWordStep ==
  ASSUME IInv, NEW t \in Threads, LoadWord(t)
  PROVE  IInv'
<1> DEFINE w == Word(t)
<1>1. w \in Words /\ slot[t] \in Slots
  BY DEF IInv, TypeOK, CallOK, Word, LoadWord, Goto
<1>2. PICK pc \in {"top", "propose", "answer"} :
        /\ xpc' = [xpc EXCEPT ![t] = pc]
        /\ pc = "propose" => State(w) = STATE_EMPTY
        /\ pc = "answer" => State(w) = STATE_WAITING
        /\ pc # "top" => State(w) # STATE_BUSY
  <2>1. CASE State(w) = STATE_EMPTY
    BY <2>1 DEF LoadWord, Goto, STATE_EMPTY, STATE_WAITING, STATE_BUSY
  <2>2. CASE State(w) = STATE_WAITING
    BY <2>2 DEF LoadWord, Goto, STATE_EMPTY, STATE_WAITING, STATE_BUSY
  <2>3. CASE State(w) = STATE_BUSY
    BY <2>3 DEF LoadWord, Goto, STATE_EMPTY, STATE_WAITING, STATE_BUSY
  <2> QED BY <1>1, <2>1, <2>2, <2>3, WordStates
<1>3. PICK c \in Words : /\ current' = [current EXCEPT ![t] = c]
                         /\ State(w) # STATE_BUSY => c = w
  <2> DEFINE x == IF State(w) = STATE_BUSY THEN 0 ELSE w
  <2>1. x \in Words
    BY <1>1 DEF Words, STATE_EMPTY
  <2>2. current' = [current EXCEPT ![t] = x]
    BY DEF LoadWord
  <2> QED BY <2>1, <2>2
<1>4. xpc[t] = "top" /\ UNCHANGED <<value_and_state, clock, slot, item, taken>>
  BY DEF LoadWord, Goto
<1>5. TypeOK'
  BY <1>2, <1>3, <1>4 DEF IInv, TypeOK
<1>6. xpc'[t] = pc /\ current'[t] = c /\ taken'[t] = NoItem
  BY <1>2, <1>3, <1>4 DEF IInv, TypeOK, CallOK
<1>7. CallOK(t)'
  BY <1>1, <1>2, <1>3, <1>4, <1>6, WordStates DEF CallOK
<1>8. \A u \in Threads \ {t} : current'[u] = current[u] /\ taken'[u] = taken[u]
  BY <1>3, <1>4 DEF IInv, TypeOK
<1> QED BY <1>2, <1>4, <1>5, <1>7, <1>8, LocalStep DEF OwnerPcs

LEMMA ProposeStep ==
  ASSUME IInv, NEW t \in Threads, Propose(t)
  PROVE  IInv'
<1> DEFINE w == Pack(item[t], STATE_WAITING)
<1>1. item[t] \in T /\ slot[t] \in Slots /\ current[t] = STATE_EMPTY
  BY DEF IInv, TypeOK, CallOK, Propose
<1>2. w \in Words /\ w # STATE_EMPTY
  BY <1>1, PackedWord
<1>3. STATE_EMPTY \in Words
  BY DEF Words
<1>4. \A u \in Threads \ {t} : current'[u] = current[u] /\ taken'[u] = taken[u]
  BY DEF IInv, TypeOK, Propose
<1>5. xpc[t] = "propose" /\ taken[t] = NoItem
  BY DEF IInv, TypeOK, CallOK, Propose
<1>6. CASE Word(t) = current[t]
  <2>1. /\ xpc' = [xpc EXCEPT ![t] = "wait"] /\ SetWord(t, w)
        /\ current' = [current EXCEPT ![t] = 0] /\ UNCHANGED <<clock, slot, item, taken>>
    BY <1>6 DEF Propose, Goto
  <2>2. TypeOK'
    BY <1>2, <1>3, <2>1 DEF IInv, TypeOK, OwnerPcs, SetWord, STATE_EMPTY
  <2>3. xpc'[t] = "wait" /\ Word(t)' = w
    BY <1>1, <2>1 DEF IInv, TypeOK, SetWord, Word
  <2>4. CallOK(t)'
    BY <1>1, <1>5, <2>1, <2>3 DEF CallOK
  <2>5. \A u \in Threads : ~Owns(u, slot[t])
    BY <1>1, <1>6 DEF IInv, SlotOwnership, Word
  <2> QED BY <1>1, <1>2, <1>4, <2>1, <2>2, <2>4, <2>5, WordStep DEF OwnerPcs
<1>7. CASE Word(t) # current[t]
  <2>1. /\ xpc' = [xpc EXCEPT ![t] = "top"] /\ UNCHANGED value_and_state
        /\ current' = [current EXCEPT ![t] = 0] /\ UNCHANGED <<clock, slot, item, taken>>
    BY <1>7 DEF Propose, Goto
  <2>2. TypeOK'
    BY <1>3, <2>1 DEF IInv, TypeOK, STATE_EMPTY
  <2>3. CallOK(t)'
    BY <1>1, <1>5, <2>1 DEF IInv, TypeOK, CallOK
  <2> QED BY <1>4, <1>5, <2>1, <2>2, <2>3, LocalStep DEF OwnerPcs
<1> QED BY <1>6, <1>7

LEMMA PollStep ==
  ASSUME IInv, NEW t \in Threads, Poll(t)
  PROVE  IInv'
<1>1. xpc[t] = "wait" /\ slot[t] \in Slots /\ Word(t) \in Words /\ taken[t] = NoItem
  BY DEF IInv, TypeOK, CallOK, Poll, Goto, Word
<1>2. UNCHANGED <<value_and_state, clock, slot, item, current>>
  BY DEF Poll
<1>3. PICK pc \in {"wait", "take"}, r \in T \cup {NoItem} :
        /\ xpc' = [xpc EXCEPT ![t] = pc] /\ taken' = [taken EXCEPT ![t] = r]
        /\ pc = "take" => State(Word(t)) = STATE_BUSY
        /\ pc = "wait" => r = NoItem
  <2>1. CASE State(Word(t)) = STATE_BUSY
    <3>1. ToT(ValueBits(Word(t))) \in T
      BY <1>1, <2>1, WordStates DEF STATE_BUSY, STATE_EMPTY
    <3> QED BY <2>1, <3>1 DEF Poll, Goto, Result
  <2>2. CASE State(Word(t)) # STATE_BUSY
    BY <2>2 DEF Poll, Goto, Result
  <2> QED BY <2>1, <2>2
<1>4. TypeOK'
  BY <1>2, <1>3 DEF IInv, TypeOK, OwnerPcs
<1>5. xpc'[t] = pc /\ taken'[t] = r
  BY <1>3 DEF IInv, TypeOK
<1>6. CallOK(t)'
  <2>1. CallOK(t) /\ Word(t)' = Word(t)
    BY <1>2 DEF IInv, Word
  <2> QED BY <1>1, <1>2, <1>3, <1>5, <2>1 DEF CallOK
<1>7. \A u \in Threads \ {t} : current'[u] = current[u] /\ taken'[u] = taken[u]
  BY <1>2, <1>3 DEF IInv, TypeOK
<1> QED BY <1>1, <1>2, <1>3, <1>4, <1>6, <1>7, LocalStep DEF OwnerPcs

LEMMA StopWaitingStep ==
  ASSUME IInv, NEW t \in Threads, StopWaiting(t)
  PROVE  IInv'
<1> USE DEF StopWaiting, Goto, xlocals
<1>1. TypeOK'
  BY DEF IInv, TypeOK, OwnerPcs
<1>2. CallOK(t)'
  <2>1. CallOK(t) /\ Word(t)' = Word(t) /\ xpc'[t] = "revert"
    BY DEF IInv, TypeOK, Word
  <2> QED BY <2>1 DEF CallOK
<1> QED BY <1>1, <1>2, LocalStep DEF OwnerPcs

\* The owner of a slot empties it and comes back.
LEMMA EmptySlot ==
  ASSUME IInv, NEW t \in Threads, xpc[t] \in OwnerPcs, SetWord(t, STATE_EMPTY),
         xpc' = [xpc EXCEPT ![t] = "return"], UNCHANGED <<clock, xlocals>>
  PROVE  IInv'
<1>1. slot[t] \in Slots
  BY DEF IInv, CallOK, OwnerPcs
<1>2. TypeOK'
  <2>1. STATE_EMPTY \in Words
    BY DEF Words
  <2> QED BY <2>1 DEF IInv, TypeOK, SetWord, xlocals
<1>3. CallOK(t)'
  BY <1>1 DEF IInv, TypeOK, CallOK, xlocals
<1>4. \A u \in Threads \ {t} : ~Owns(u, slot[t])
  BY <1>1 DEF IInv, SlotOwnership, Owns, OwnerPcs
<1> QED BY <1>1, <1>2, <1>3, <1>4, WordStep DEF OwnerPcs, xlocals

LEMMA TakeStep ==
  ASSUME IInv, NEW t \in Threads, Take(t)
  PROVE  IInv'
BY EmptySlot DEF Take, Goto, OwnerPcs

LEMMA RevertStep ==
  ASSUME IInv, NEW t \in Threads, Revert(t)
  PROVE  IInv'
<1>1. CASE Word(t) = Pack(item[t], STATE_WAITING)
  BY <1>1, EmptySlot DEF Revert, Goto, OwnerPcs
<1>2. CASE Word(t) # Pack(item[t], STATE_WAITING)
  <2>1. /\ xpc[t] = "revert" /\ xpc' = [xpc EXCEPT ![t] = "grab"]
        /\ UNCHANGED <<value_and_state, clock, slot, item, current, taken>>
    BY <1>2 DEF Revert, Goto, xlocals
  <2>2. TypeOK'
    BY <2>1 DEF IInv, TypeOK, OwnerPcs
  <2>3. CallOK(t)'
    <3>1. CallOK(t) /\ Word(t)' = Word(t) /\ xpc'[t] = "grab"
      BY <2>1 DEF IInv, TypeOK, Word
    <3> QED BY <1>2, <2>1, <3>1 DEF CallOK
  <2> QED BY <2>1, <2>2, <2>3, LocalStep DEF OwnerPcs
<1> QED BY <1>1, <1>2

LEMMA GrabStep ==
  ASSUME IInv, NEW t \in Threads, Grab(t)
  PROVE  IInv'
<1> DEFINE r == ToT(ValueBits(Word(t)))
<1>1. /\ xpc[t] = "grab" /\ xpc' = [xpc EXCEPT ![t] = "take"]
      /\ taken' = [taken EXCEPT ![t] = r]
      /\ UNCHANGED <<value_and_state, clock, slot, item, current>>
  BY DEF Grab, Goto, Result
<1>2. r \in T
  <2>1. Word(t) \in Words /\ State(Word(t)) = STATE_BUSY
    BY <1>1 DEF IInv, TypeOK, CallOK, Word
  <2> QED BY <2>1, WordStates DEF STATE_BUSY, STATE_EMPTY
<1> HIDE DEF r
<1>3. TypeOK'
  BY <1>1, <1>2 DEF IInv, TypeOK, OwnerPcs
<1>4. CallOK(t)'
  <2>1. CallOK(t) /\ Word(t)' = Word(t) /\ xpc'[t] = "take"
    BY <1>1 DEF IInv, TypeOK, Word
  <2> QED BY <1>1, <2>1 DEF CallOK
<1>5. \A u \in Threads \ {t} : current'[u] = current[u] /\ taken'[u] = taken[u]
  BY <1>1 DEF IInv, TypeOK
<1> QED BY <1>1, <1>3, <1>4, <1>5, LocalStep DEF OwnerPcs

LEMMA ReturnStep ==
  ASSUME IInv, NEW t \in Threads, Return(t)
  PROVE  IInv'
<1> USE DEF Return, Goto, Result
<1>1. TypeOK'
  BY WordStates DEF IInv, TypeOK, Words, STATE_EMPTY
<1>2. xpc'[t] = "idle" /\ taken'[t] = NoItem /\ xpc[t] = "return"
  BY DEF IInv, TypeOK
<1>3. \A u \in Threads \ {t} :
        /\ xpc'[u] = xpc[u] /\ slot'[u] = slot[u] /\ item'[u] = item[u]
        /\ current'[u] = current[u] /\ taken'[u] = taken[u]
  BY DEF IInv, TypeOK
<1>4. CallOK(t)'
  BY <1>2 DEF CallOK
<1>5. SlotOwnership'
  <2>1. \A r \in Slots : Owns(t, r)' <=> Owns(t, r)
    BY <1>2 DEF Owns
  <2> QED BY <1>3, <2>1, OwnersKept
<1>6. ASSUME NEW u \in Threads \ {t} PROVE CallOK(u)'
  <2>1. CallOK(u) /\ Word(u)' = Word(u)
    BY <1>3 DEF IInv, Word
  <2> QED BY <1>3, <2>1, CallKept
<1> QED BY <1>1, <1>4, <1>5, <1>6 DEF IInv

\* An answer finds the thread that waits in the slot, and leaves its word there.
LEMMA AnswerMeets ==
  ASSUME IInv, NEW t \in Threads, Answer(t), Word(t) = current[t]
  PROVE  \E u \in Threads \ {t} :
           /\ Owns(u, slot[t]) /\ xpc[u] \in {"wait", "revert"} /\ slot[u] = slot[t]
           /\ slot[t] \in Slots
           /\ Word(u) = Pack(item[u], STATE_WAITING)
           /\ \A x \in Threads \ {u} : ~Owns(x, slot[t])
<1>1. /\ slot[t] \in Slots /\ Word(t) \in Words /\ State(Word(t)) = STATE_WAITING
      /\ xpc[t] = "answer"
  BY DEF IInv, TypeOK, CallOK, Word, Answer
<1>2. STATE_EMPTY # STATE_WAITING /\ STATE_WAITING # STATE_BUSY
  BY DEF STATE_EMPTY, STATE_WAITING, STATE_BUSY
<1>3. PICK u \in Threads : Owns(u, slot[t])
  BY <1>1, <1>2, WordStates DEF IInv, SlotOwnership, Word
<1>4. u # t /\ slot[u] = slot[t] /\ Word(u) = Word(t)
  BY <1>1, <1>3 DEF Owns, Word
<1>5. xpc[u] \in {"wait", "revert"} /\ Word(u) = Pack(item[u], STATE_WAITING)
  BY <1>1, <1>2, <1>3, <1>4 DEF IInv, CallOK, Owns
<1>6. \A x \in Threads \ {u} : ~Owns(x, slot[t])
  BY <1>1, <1>3 DEF IInv, SlotOwnership
<1> QED BY <1>1, <1>3, <1>4, <1>5, <1>6

LEMMA AnswerStep ==
  ASSUME IInv, NEW t \in Threads, Answer(t)
  PROVE  IInv'
<1>1. /\ xpc[t] = "answer" /\ taken[t] = NoItem /\ slot[t] \in Slots /\ item[t] \in T
      /\ current[t] \in Words /\ State(current[t]) = STATE_WAITING
  BY DEF IInv, TypeOK, CallOK, Answer
<1>2. STATE_EMPTY \in Words
  BY DEF Words
<1>3. CASE Word(t) = current[t]
  <2> DEFINE w == Pack(item[t], STATE_BUSY)
             r == ToT(ValueBits(current[t]))
  <2>1. /\ xpc' = [xpc EXCEPT ![t] = "return"] /\ SetWord(t, w)
        /\ taken' = [taken EXCEPT ![t] = r]
        /\ current' = [current EXCEPT ![t] = 0] /\ UNCHANGED <<clock, slot, item>>
    BY <1>3 DEF Answer, Goto, Result
  <2>2. w \in Words /\ w # STATE_EMPTY /\ State(w) = STATE_BUSY
    BY <1>1, PackedWord
  <2>3. r \in T
    BY <1>1, WordStates DEF STATE_WAITING, STATE_EMPTY
  <2> HIDE DEF w, r
  <2>4. TypeOK'
    BY <1>2, <2>1, <2>2, <2>3 DEF IInv, TypeOK, SetWord, STATE_EMPTY
  <2>5. PICK u \in Threads \ {t} :
           /\ Owns(u, slot[t]) /\ xpc[u] \in {"wait", "revert"} /\ slot[u] = slot[t]
           /\ \A x \in Threads \ {u} : ~Owns(x, slot[t])
    BY <1>3, AnswerMeets
  <2>6. /\ xpc'[t] = "return" /\ \A x \in Threads \ {t} : xpc'[x] = xpc[x]
        /\ \A x \in Threads \ {t} : current'[x] = current[x] /\ taken'[x] = taken[x]
        /\ value_and_state'[slot[t]] = w
        /\ \A s \in Slots \ {slot[t]} : value_and_state'[s] = value_and_state[s]
    BY <1>1, <2>1 DEF IInv, TypeOK, SetWord
  <2>7. SlotOwnership'
    <3>1. \A x \in Threads, s \in Slots : Owns(x, s)' <=> Owns(x, s)
      BY <1>1, <2>1, <2>6 DEF Owns
    <3>2. \A s \in Slots : value_and_state'[s] = STATE_EMPTY <=> value_and_state[s] = STATE_EMPTY
      BY <2>2, <2>5, <2>6, <1>1 DEF IInv, SlotOwnership
    <3> QED BY <3>1, <3>2 DEF IInv, SlotOwnership
  <2>8. CallOK(t)'
    BY <1>1, <2>1, <2>6 DEF CallOK
  <2>9. CallOK(u)'
    <3>1. CallOK(u) /\ Word(u)' = w
      BY <2>1, <2>5, <2>6 DEF IInv, Word
    <3> QED BY <2>1, <2>2, <2>5, <2>6, <3>1 DEF CallOK
  <2>10. ASSUME NEW x \in Threads \ {t, u} PROVE CallOK(x)'
    <3>1. CallOK(x)
      BY DEF IInv
    <3>2. xpc[x] \in OwnerPcs => Word(x)' = Word(x)
      <4>1. xpc[x] \in OwnerPcs => slot[x] \in Slots \ {slot[t]}
        BY <2>5, <3>1 DEF CallOK, Owns, OwnerPcs
      <4> QED BY <2>1, <2>6, <4>1 DEF Word
    <3> QED BY <2>1, <2>6, <3>1, <3>2, CallKept
  <2> QED BY <2>4, <2>7, <2>8, <2>9, <2>10 DEF IInv
<1>4. CASE Word(t) # current[t]
  <2>1. /\ xpc' = [xpc EXCEPT ![t] = "top"]
        /\ current' = [current EXCEPT ![t] = 0]
        /\ UNCHANGED <<value_and_state, clock, slot, item, taken>>
    BY <1>4 DEF Answer, Goto
  <2>2. TypeOK'
    BY <1>2, <2>1 DEF IInv, TypeOK, STATE_EMPTY
  <2>3. CallOK(t)'
    BY <1>1, <2>1 DEF IInv, TypeOK, CallOK
  <2>4. \A u \in Threads \ {t} : current'[u] = current[u] /\ taken'[u] = taken[u]
    BY <2>1 DEF IInv, TypeOK
  <2> QED BY <1>1, <2>1, <2>2, <2>3, <2>4, LocalStep DEF OwnerPcs
<1> QED BY <1>3, <1>4

LEMMA NextIInv == IInv /\ [Next]_vars => IInv'
<1> SUFFICES ASSUME IInv, [Next]_vars PROVE IInv'
  OBVIOUS
<1>1. CASE UNCHANGED vars
  BY <1>1 DEF IInv, TypeOK, CallOK, SlotOwnership, Owns, Word, vars
<1>2. ASSUME NEW t \in Threads, NEW s \in Slots, NEW v \in T, Visit(t, s, v)
      PROVE  IInv'
  BY <1>2, VisitStep
<1>3. ASSUME NEW t \in Threads, Tick(t) \/ Step(t)
      PROVE  IInv'
  BY <1>3, TickStep, GiveUpStep, LoadWordStep, ProposeStep, PollStep, StopWaitingStep,
     RevertStep, GrabStep, TakeStep, AnswerStep, ReturnStep DEF Step
<1> QED BY <1>1, <1>2, <1>3 DEF Next

\* The strengthening of SlotOwnership, over all the steps of the threads.
THEOREM IInvHolds == Spec => []IInv
BY InitIInv, NextIInv, PTL DEF Spec

\* A slot has at most one owner, and is empty when it has none: the plain store
\* that empties a slot wipes out nobody else's proposal or answer.
THEOREM SlotOwnershipHolds == Spec => []SlotOwnership
<1>1. IInv => SlotOwnership
  BY DEF IInv
<1> QED BY <1>1, IInvHolds, PTL

\* "Invalid state" is never thrown: the state bits of a slot, whatever the sign
\* of the item, are those of one of the three states.
THEOREM NoInvalidStateHolds == Spec => []NoInvalidState
<1>1. IInv => NoInvalidState
  BY DEF IInv, TypeOK, OwnerPcs, NoInvalidState
<1> QED BY <1>1, IInvHolds, PTL

----------------------------------------------------------------------------
(* The refinement *)

\* What the mapping shows of thread u after the step is what it showed before.
Unseen(u) == /\ callPhase'[u] = callPhase[u]
             /\ callOffer'[u] = callOffer[u]
             /\ callGot'[u] = callGot[u]

LEMMA NothingSeen ==
  ASSUME \A u \in Threads : Unseen(u)
  PROVE  UNCHANGED Abstract!vars
<1>1. callPhase' = callPhase
  BY DEF Unseen, callPhase
<1>2. callOffer' = callOffer
  BY DEF Unseen, callOffer
<1>3. callGot' = callGot
  BY DEF Unseen, callGot
<1> QED BY <1>1, <1>2, <1>3 DEF Abstract!vars

\* A thread that does not move is not seen to while its word stands.
LEMMA StillUnseen ==
  ASSUME NEW u \in Threads, xpc'[u] = xpc[u], item'[u] = item[u], taken'[u] = taken[u],
         xpc[u] \in OwnerPcs => Word(u)' = Word(u)
  PROVE  Unseen(u)
<1>1. Answered(u)' <=> Answered(u)
  BY DEF Answered, OwnerPcs
<1>2. Answered(u) /\ xpc[u] # "take" => Word(u)' = Word(u)
  BY DEF Answered, OwnerPcs
<1> QED BY <1>1, <1>2 DEF Unseen, callPhase, callOffer, callGot

\* A step of t that writes no word shows nothing of the other threads; nor does
\* one that writes the word of a slot where none of them waits.
LEMMA OthersUnseen ==
  ASSUME IInv, NEW t \in Threads,
         \A u \in Threads \ {t} : /\ xpc'[u] = xpc[u] /\ slot'[u] = slot[u]
                                  /\ item'[u] = item[u] /\ taken'[u] = taken[u],
         \/ UNCHANGED value_and_state
         \/ /\ \E w : SetWord(t, w)
            /\ \A u \in Threads \ {t} : ~Owns(u, slot[t])
  PROVE  \A u \in Threads \ {t} : Unseen(u)
<1> TAKE u \in Threads \ {t}
<1>1. xpc[u] \in OwnerPcs => Word(u)' = Word(u)
  <2>1. CASE UNCHANGED value_and_state
    BY <2>1 DEF Word
  <2>2. ASSUME NEW w, SetWord(t, w), ~Owns(u, slot[t]), xpc[u] \in OwnerPcs
        PROVE  Word(u)' = Word(u)
    <3>1. slot[u] \in Slots \ {slot[t]}
      BY <2>2 DEF IInv, CallOK, Owns, OwnerPcs
    <3> QED BY <2>2, <3>1 DEF IInv, TypeOK, SetWord, Word
  <2> QED BY <2>1, <2>2
<1> QED BY <1>1, StillUnseen

\* A step that only t is seen to make.
LEMMA OnlyOneSeen ==
  ASSUME NEW t \in Threads, \A u \in Threads \ {t} : Unseen(u)
  PROVE  /\ callPhase' = [callPhase EXCEPT ![t] = callPhase'[t]]
         /\ callOffer' = [callOffer EXCEPT ![t] = callOffer'[t]]
         /\ callGot' = [callGot EXCEPT ![t] = callGot'[t]]
<1>1. callPhase' = [callPhase EXCEPT ![t] = callPhase'[t]]
  BY DEF Unseen, callPhase
<1>2. callOffer' = [callOffer EXCEPT ![t] = callOffer'[t]]
  BY DEF Unseen, callOffer
<1>3. callGot' = [callGot EXCEPT ![t] = callGot'[t]]
  BY DEF Unseen, callGot
<1> QED BY <1>1, <1>2, <1>3

\* What the mapping shows of each place in the code.
Shown(t) ==
  /\ xpc[t] = "idle" =>
       callPhase[t] = "idle" /\ callOffer[t] = NoItem /\ callGot[t] = NoItem
  /\ xpc[t] # "idle" => callOffer[t] = item[t]
  /\ xpc[t] \in {"top", "propose", "answer"} =>
       callPhase[t] = "offered" /\ callGot[t] = NoItem
  /\ xpc[t] \in {"wait", "revert"} /\ State(Word(t)) # STATE_BUSY =>
       callPhase[t] = "offered" /\ callGot[t] = NoItem
  /\ xpc[t] \in {"wait", "revert", "grab"} /\ State(Word(t)) = STATE_BUSY =>
       callPhase[t] = "done" /\ callGot[t] = ToT(ValueBits(Word(t)))
  /\ xpc[t] \in {"take", "return"} => callPhase[t] = "done" /\ callGot[t] = taken[t]

LEMMA Seen == IInv => \A t \in Threads : Shown(t)
<1> SUFFICES ASSUME IInv, NEW t \in Threads PROVE Shown(t)
  OBVIOUS
<1>1. CallOK(t)
  BY DEF IInv
<1> QED BY <1>1 DEF Shown, CallOK, callPhase, callOffer, callGot, Answered

LEMMA SeenNext == IInv' => \A t \in Threads : Shown(t)'
<1>1. IInv' => (\A t \in Threads : Shown(t))'
  BY Seen, PTL
<1> QED BY <1>1

LEMMA VisitMaps ==
  ASSUME IInv, IInv', NEW t \in Threads, NEW s \in Slots, NEW v \in T, Visit(t, s, v)
  PROVE  Abstract!Offer(t, v)
<1>1. /\ xpc[t] = "idle" /\ xpc'[t] = "top" /\ item'[t] = v
      /\ \A u \in Threads \ {t} : /\ xpc'[u] = xpc[u] /\ slot'[u] = slot[u]
                                  /\ item'[u] = item[u] /\ taken'[u] = taken[u]
      /\ UNCHANGED value_and_state
  BY DEF IInv, TypeOK, Visit, Goto
<1>2. \A u \in Threads \ {t} : Unseen(u)
  BY <1>1, OthersUnseen
<1>3. /\ callPhase' = [callPhase EXCEPT ![t] = callPhase'[t]]
      /\ callOffer' = [callOffer EXCEPT ![t] = callOffer'[t]]
      /\ callGot' = [callGot EXCEPT ![t] = callGot'[t]]
  BY <1>2, OnlyOneSeen
<1>4. callPhase[t] = "idle" /\ callGot[t] = NoItem
  BY <1>1, Seen DEF Shown
<1>5. callPhase'[t] = "offered" /\ callOffer'[t] = v /\ callGot'[t] = NoItem
  BY <1>1, SeenNext DEF Shown
<1>6. callGot' = callGot
  BY <1>3, <1>4, <1>5 DEF callGot
<1> QED BY <1>3, <1>4, <1>5, <1>6 DEF Abstract!Offer

\* A thread whose time is up leaves without having met anybody.
LEMMA LeavesAlone ==
  ASSUME IInv, IInv', NEW t \in Threads, callPhase[t] = "offered", callGot[t] = NoItem,
         \A u \in Threads \ {t} : Unseen(u),
         xpc[t] # "idle", xpc'[t] = "return", item'[t] = item[t], taken'[t] = NoItem
  PROVE  Abstract!Miss(t)
<1>1. /\ callPhase' = [callPhase EXCEPT ![t] = callPhase'[t]]
      /\ callOffer' = [callOffer EXCEPT ![t] = callOffer'[t]]
      /\ callGot' = [callGot EXCEPT ![t] = callGot'[t]]
  BY OnlyOneSeen
<1>2. callPhase'[t] = "done" /\ callOffer'[t] = callOffer[t] /\ callGot'[t] = callGot[t]
  BY Seen, SeenNext DEF Shown
<1>3. callOffer' = callOffer /\ callGot' = callGot
  <2>1. callOffer' = callOffer
    BY <1>2 DEF Unseen, callOffer
  <2>2. callGot' = callGot
    BY <1>2 DEF Unseen, callGot
  <2> QED BY <2>1, <2>2
<1> QED BY <1>1, <1>2, <1>3 DEF Abstract!Miss

LEMMA GiveUpMaps ==
  ASSUME IInv, IInv', NEW t \in Threads, GiveUp(t)
  PROVE  Abstract!Miss(t)
<1>1. /\ xpc[t] = "top" /\ xpc'[t] = "return" /\ item'[t] = item[t] /\ taken'[t] = NoItem
      /\ \A u \in Threads \ {t} : /\ xpc'[u] = xpc[u] /\ slot'[u] = slot[u]
                                  /\ item'[u] = item[u] /\ taken'[u] = taken[u]
      /\ UNCHANGED value_and_state
  BY DEF IInv, TypeOK, CallOK, GiveUp, Goto, xlocals
<1>2. \A u \in Threads \ {t} : Unseen(u)
  BY <1>1, OthersUnseen
<1>3. callPhase[t] = "offered" /\ callGot[t] = NoItem
  BY <1>1, Seen DEF Shown
<1> QED BY <1>1, <1>2, <1>3, LeavesAlone

\* Steps that are not seen, because t shows the same before and after.
LEMMA StepUnseen ==
  ASSUME IInv, NEW t \in Threads, UNCHANGED <<slot, item>>,
         \A u \in Threads \ {t} : xpc'[u] = xpc[u] /\ taken'[u] = taken[u],
         \/ UNCHANGED value_and_state
         \/ /\ \E w : SetWord(t, w)
            /\ \A u \in Threads \ {t} : ~Owns(u, slot[t]),
         callPhase'[t] = callPhase[t], callOffer'[t] = callOffer[t],
         callGot'[t] = callGot[t]
  PROVE  UNCHANGED Abstract!vars
<1>1. \A u \in Threads \ {t} : Unseen(u)
  BY OthersUnseen
<1>2. Unseen(t)
  BY DEF Unseen
<1> QED BY <1>1, <1>2, NothingSeen

LEMMA TickMaps ==
  ASSUME IInv, NEW t \in Threads, Tick(t)
  PROVE  UNCHANGED Abstract!vars
<1>1. UNCHANGED <<value_and_state, xpc, slot, item, taken>>
  BY DEF Tick, xlocals
<1>2. \A u \in Threads : Unseen(u)
  BY <1>1, StillUnseen DEF Word
<1> QED BY <1>2, NothingSeen

LEMMA LoadWordMaps ==
  ASSUME IInv, IInv', NEW t \in Threads, LoadWord(t)
  PROVE  UNCHANGED Abstract!vars
<1>1. /\ xpc[t] = "top" /\ UNCHANGED <<value_and_state, slot, item, taken>>
      /\ \A u \in Threads \ {t} : xpc'[u] = xpc[u]
  BY DEF IInv, TypeOK, LoadWord, Goto
<1>2. xpc'[t] \in {"top", "propose", "answer"}
  <2>1. xpc'[t] = CASE State(Word(t)) = STATE_EMPTY   -> "propose"
                    [] State(Word(t)) = STATE_WAITING -> "answer"
                    [] State(Word(t)) = STATE_BUSY    -> "top"
                    [] OTHER                          -> "invalid"
    BY DEF IInv, TypeOK, LoadWord, Goto
  <2>2. xpc'[t] # "invalid"
    BY DEF IInv, TypeOK, OwnerPcs
  <2> QED BY <2>1, <2>2 DEF STATE_EMPTY, STATE_WAITING, STATE_BUSY
<1>3. /\ callPhase'[t] = callPhase[t] /\ callOffer'[t] = callOffer[t]
      /\ callGot'[t] = callGot[t]
  BY <1>1, <1>2, Seen, SeenNext DEF Shown
<1> QED BY <1>1, <1>3, StepUnseen

LEMMA ProposeMaps ==
  ASSUME IInv, IInv', NEW t \in Threads, Propose(t)
  PROVE  UNCHANGED Abstract!vars
<1>1. /\ xpc[t] = "propose" /\ UNCHANGED <<slot, item, taken>>
      /\ slot[t] \in Slots /\ item[t] \in T /\ current[t] = STATE_EMPTY
  BY DEF IInv, TypeOK, CallOK, Propose
<1>2. \A u \in Threads \ {t} : xpc'[u] = xpc[u]
  BY DEF IInv, TypeOK, Propose, Goto
<1>3. CASE Word(t) = current[t]
  <2>1. SetWord(t, Pack(item[t], STATE_WAITING)) /\ xpc'[t] = "wait"
    BY <1>3 DEF IInv, TypeOK, Propose, Goto
  <2>2. \A u \in Threads : ~Owns(u, slot[t])
    BY <1>1, <1>3 DEF IInv, SlotOwnership, Word
  <2>3. State(Word(t))' # STATE_BUSY
    <3>1. Word(t)' = Pack(item[t], STATE_WAITING)
      BY <1>1, <2>1 DEF IInv, TypeOK, SetWord, Word
    <3> QED BY <1>1, <3>1, PackedWord DEF STATE_WAITING, STATE_BUSY
  <2>4. /\ callPhase'[t] = callPhase[t] /\ callOffer'[t] = callOffer[t]
        /\ callGot'[t] = callGot[t]
    BY <1>1, <2>1, <2>3, Seen, SeenNext DEF Shown
  <2> QED BY <1>1, <1>2, <2>1, <2>2, <2>4, StepUnseen
<1>4. CASE Word(t) # current[t]
  <2>1. xpc'[t] = "top" /\ UNCHANGED value_and_state
    BY <1>4 DEF IInv, TypeOK, Propose, Goto
  <2>2. /\ callPhase'[t] = callPhase[t] /\ callOffer'[t] = callOffer[t]
        /\ callGot'[t] = callGot[t]
    BY <1>1, <2>1, Seen, SeenNext DEF Shown
  <2> QED BY <1>1, <1>2, <2>1, <2>2, StepUnseen
<1> QED BY <1>3, <1>4

LEMMA PollMaps ==
  ASSUME IInv, IInv', NEW t \in Threads, Poll(t)
  PROVE  UNCHANGED Abstract!vars
<1>1. /\ xpc[t] = "wait" /\ UNCHANGED <<value_and_state, slot, item>>
      /\ \A u \in Threads \ {t} : xpc'[u] = xpc[u] /\ taken'[u] = taken[u]
      /\ Word(t)' = Word(t)
  BY DEF IInv, TypeOK, Poll, Goto, Result, Word
<1>2. \/ /\ State(Word(t)) = STATE_BUSY /\ xpc'[t] = "take"
         /\ taken'[t] = ToT(ValueBits(Word(t)))
      \/ State(Word(t)) # STATE_BUSY /\ xpc'[t] = "wait"
  BY DEF IInv, TypeOK, Poll, Goto, Result
<1>3. /\ callPhase'[t] = callPhase[t] /\ callOffer'[t] = callOffer[t]
      /\ callGot'[t] = callGot[t]
  BY <1>1, <1>2, Seen, SeenNext DEF Shown
<1> QED BY <1>1, <1>3, StepUnseen

LEMMA StopWaitingMaps ==
  ASSUME IInv, IInv', NEW t \in Threads, StopWaiting(t)
  PROVE  UNCHANGED Abstract!vars
<1>1. /\ xpc[t] = "wait" /\ xpc'[t] = "revert"
      /\ UNCHANGED <<value_and_state, slot, item, taken>>
      /\ \A u \in Threads \ {t} : xpc'[u] = xpc[u]
      /\ Word(t)' = Word(t)
  BY DEF IInv, TypeOK, StopWaiting, Goto, xlocals, Word
<1>2. /\ callPhase'[t] = callPhase[t] /\ callOffer'[t] = callOffer[t]
      /\ callGot'[t] = callGot[t]
  BY <1>1, Seen, SeenNext DEF Shown
<1> QED BY <1>1, <1>2, StepUnseen

LEMMA RevertMaps ==
  ASSUME IInv, IInv', NEW t \in Threads, Revert(t)
  PROVE  Abstract!Miss(t) \/ UNCHANGED Abstract!vars
<1>1. /\ xpc[t] = "revert" /\ slot[t] \in Slots /\ item[t] \in T /\ taken[t] = NoItem
      /\ UNCHANGED <<slot, item, taken>>
      /\ \A u \in Threads \ {t} : xpc'[u] = xpc[u]
  BY DEF IInv, TypeOK, CallOK, Revert, Goto, xlocals
<1>2. CASE Word(t) = Pack(item[t], STATE_WAITING)
  <2>1. xpc'[t] = "return" /\ SetWord(t, STATE_EMPTY)
    BY <1>2 DEF IInv, TypeOK, Revert, Goto
  <2>2. \A u \in Threads \ {t} : ~Owns(u, slot[t])
    BY <1>1 DEF IInv, SlotOwnership, Owns
  <2>3. \A u \in Threads \ {t} : Unseen(u)
    BY <1>1, <2>1, <2>2, OthersUnseen
  <2>4. State(Word(t)) # STATE_BUSY
    BY <1>1, <1>2, PackedWord DEF STATE_WAITING, STATE_BUSY
  <2>5. callPhase[t] = "offered" /\ callGot[t] = NoItem
    BY <1>1, <2>4, Seen DEF Shown
  <2> QED BY <1>1, <2>1, <2>3, <2>5, LeavesAlone
<1>3. CASE Word(t) # Pack(item[t], STATE_WAITING)
  <2>1. xpc'[t] = "grab" /\ UNCHANGED value_and_state
    BY <1>3 DEF IInv, TypeOK, Revert, Goto
  <2>2. State(Word(t)) = STATE_BUSY /\ Word(t)' = Word(t)
    BY <1>1, <1>3, <2>1 DEF IInv, CallOK, Word
  <2>3. /\ callPhase'[t] = callPhase[t] /\ callOffer'[t] = callOffer[t]
        /\ callGot'[t] = callGot[t]
    BY <1>1, <2>1, <2>2, Seen, SeenNext DEF Shown
  <2> QED BY <1>1, <2>1, <2>3, StepUnseen
<1> QED BY <1>2, <1>3

LEMMA GrabMaps ==
  ASSUME IInv, IInv', NEW t \in Threads, Grab(t)
  PROVE  UNCHANGED Abstract!vars
<1>1. /\ xpc[t] = "grab" /\ xpc'[t] = "take" /\ UNCHANGED <<value_and_state, slot, item>>
      /\ taken'[t] = ToT(ValueBits(Word(t)))
      /\ \A u \in Threads \ {t} : xpc'[u] = xpc[u] /\ taken'[u] = taken[u]
  BY DEF IInv, TypeOK, Grab, Goto, Result
<1>2. State(Word(t)) = STATE_BUSY
  BY <1>1 DEF IInv, CallOK
<1>3. /\ callPhase'[t] = callPhase[t] /\ callOffer'[t] = callOffer[t]
      /\ callGot'[t] = callGot[t]
  BY <1>1, <1>2, Seen, SeenNext DEF Shown
<1> QED BY <1>1, <1>3, StepUnseen

LEMMA TakeMaps ==
  ASSUME IInv, IInv', NEW t \in Threads, Take(t)
  PROVE  UNCHANGED Abstract!vars
<1>1. /\ xpc[t] = "take" /\ xpc'[t] = "return" /\ UNCHANGED <<slot, item, taken>>
      /\ SetWord(t, STATE_EMPTY) /\ slot[t] \in Slots
      /\ \A u \in Threads \ {t} : xpc'[u] = xpc[u]
  BY DEF IInv, TypeOK, CallOK, Take, Goto, xlocals
<1>2. \A u \in Threads \ {t} : ~Owns(u, slot[t])
  BY <1>1 DEF IInv, SlotOwnership, Owns
<1>3. /\ callPhase'[t] = callPhase[t] /\ callOffer'[t] = callOffer[t]
      /\ callGot'[t] = callGot[t]
  BY <1>1, Seen, SeenNext DEF Shown
<1> QED BY <1>1, <1>2, <1>3, StepUnseen

LEMMA ReturnMaps ==
  ASSUME IInv, IInv', NEW t \in Threads, Return(t)
  PROVE  Abstract!Collect(t)
<1>1. /\ xpc[t] = "return" /\ xpc'[t] = "idle" /\ UNCHANGED value_and_state
      /\ \A u \in Threads \ {t} : /\ xpc'[u] = xpc[u] /\ slot'[u] = slot[u]
                                  /\ item'[u] = item[u] /\ taken'[u] = taken[u]
  BY DEF IInv, TypeOK, Return, Goto, Result
<1>2. \A u \in Threads \ {t} : Unseen(u)
  BY <1>1, OthersUnseen
<1>3. /\ callPhase' = [callPhase EXCEPT ![t] = callPhase'[t]]
      /\ callOffer' = [callOffer EXCEPT ![t] = callOffer'[t]]
      /\ callGot' = [callGot EXCEPT ![t] = callGot'[t]]
  BY <1>2, OnlyOneSeen
<1>4. callPhase[t] = "done"
  BY <1>1, Seen DEF Shown
<1>5. callPhase'[t] = "idle" /\ callOffer'[t] = NoItem /\ callGot'[t] = NoItem
  BY <1>1, SeenNext DEF Shown
<1> QED BY <1>3, <1>4, <1>5 DEF Abstract!Collect

\* An answer is the instant at which two items change hands.
LEMMA AnswerMaps ==
  ASSUME IInv, IInv', NEW t \in Threads, Answer(t)
  PROVE  (\E u \in Threads : Abstract!Match(t, u)) \/ UNCHANGED Abstract!vars
<1>1. /\ xpc[t] = "answer" /\ slot[t] \in Slots /\ item[t] \in T
      /\ UNCHANGED <<slot, item>>
      /\ \A u \in Threads \ {t} : xpc'[u] = xpc[u] /\ taken'[u] = taken[u]
  BY DEF IInv, TypeOK, CallOK, Answer, Goto, Result
<1>2. CASE Word(t) # current[t]
  <2>1. xpc'[t] = "top" /\ UNCHANGED value_and_state
    BY <1>2 DEF IInv, TypeOK, Answer, Goto
  <2>2. /\ callPhase'[t] = callPhase[t] /\ callOffer'[t] = callOffer[t]
        /\ callGot'[t] = callGot[t]
    BY <1>1, <2>1, Seen, SeenNext DEF Shown
  <2>3. \A u \in Threads \ {t} : taken'[u] = taken[u]
    BY <1>1
  <2> QED BY <1>1, <2>1, <2>2, <2>3, StepUnseen
<1>3. CASE Word(t) = current[t]
  <2>1. /\ xpc'[t] = "return" /\ SetWord(t, Pack(item[t], STATE_BUSY))
        /\ taken'[t] = ToT(ValueBits(current[t]))
    BY <1>3 DEF IInv, TypeOK, Answer, Goto, Result
  <2>2. PICK u \in Threads \ {t} :
           /\ xpc[u] \in {"wait", "revert"} /\ slot[u] = slot[t]
           /\ Word(u) = Pack(item[u], STATE_WAITING)
           /\ \A x \in Threads \ {u} : ~Owns(x, slot[t])
    BY <1>3, AnswerMeets
  <2>3. item[u] \in T /\ Word(u) = current[t]
    BY <1>3, <2>2 DEF IInv, TypeOK, Word
  <2>4. Word(u)' = Pack(item[t], STATE_BUSY)
    BY <1>1, <2>1, <2>2 DEF IInv, TypeOK, SetWord, Word
  <2>5. taken'[t] = item[u] /\ State(Word(u)) # STATE_BUSY
    BY <2>1, <2>2, <2>3, Packed DEF STATE_WAITING, STATE_BUSY
  <2>6. State(Word(u))' = STATE_BUSY /\ ToT(ValueBits(Word(u)))' = item[t]
    BY <1>1, <2>4, Packed
  <2>7. \A x \in Threads \ {t, u} : Unseen(x)
    <3> TAKE x \in Threads \ {t, u}
    <3>1. xpc[x] \in OwnerPcs => Word(x)' = Word(x)
      <4>1. xpc[x] \in OwnerPcs => slot[x] \in Slots \ {slot[t]}
        BY <2>2 DEF IInv, CallOK, Owns, OwnerPcs
      <4> QED BY <1>1, <2>1, <4>1 DEF IInv, TypeOK, SetWord, Word
    <3> QED BY <1>1, <3>1, StillUnseen
  <2>8. /\ callPhase[t] = "offered" /\ callPhase[u] = "offered"
        /\ callOffer[t] = item[t] /\ callOffer[u] = item[u]
    BY <1>1, <2>2, <2>5, Seen DEF Shown
  <2>9. /\ callPhase'[t] = "done" /\ callPhase'[u] = "done"
        /\ callOffer'[t] = item[t] /\ callOffer'[u] = item[u]
        /\ callGot'[t] = item[u] /\ callGot'[u] = item[t]
    <3>1. xpc'[u] = xpc[u] /\ item'[u] = item[u] /\ item'[t] = item[t]
      BY <1>1
    <3>2. Shown(t)' /\ Shown(u)'
      BY SeenNext
    <3> QED BY <2>1, <2>2, <2>5, <2>6, <3>1, <3>2 DEF Shown
  <2>10. callPhase' = [callPhase EXCEPT ![t] = "done", ![u] = "done"]
    BY <2>7, <2>9 DEF Unseen, callPhase
  <2>11. callGot' = [callGot EXCEPT ![t] = callOffer[u], ![u] = callOffer[t]]
    <3>1. \A x \in Threads \ {t, u} : callGot'[x] = callGot[x]
      BY <2>7 DEF Unseen
    <3> QED BY <2>8, <2>9, <3>1 DEF callGot
  <2>12. callOffer' = callOffer
    <3>1. \A x \in Threads : callOffer'[x] = callOffer[x]
      BY <2>7, <2>8, <2>9 DEF Unseen
    <3> QED BY <3>1 DEF callOffer
  <2> QED BY <2>2, <2>8, <2>10, <2>11, <2>12 DEF Abstract!Match
<1> QED BY <1>2, <1>3

LEMMA InitMaps == Init => Abstract!Init
<1> SUFFICES ASSUME Init PROVE Abstract!Init
  OBVIOUS
<1>1. \A t \in Threads : xpc[t] = "idle" /\ taken[t] = NoItem
  BY DEF Init
<1>2. callPhase = [t \in Threads |-> "idle"]
  BY <1>1 DEF callPhase
<1>3. callOffer = [t \in Threads |-> NoItem]
  BY <1>1 DEF callOffer
<1>4. callGot = [t \in Threads |-> NoItem]
  BY <1>1 DEF callGot, Answered
<1> QED BY <1>2, <1>3, <1>4 DEF Abstract!Init

LEMMA NextMaps == IInv /\ IInv' /\ [Next]_vars => [Abstract!Next]_(Abstract!vars)
<1> SUFFICES ASSUME IInv, IInv', [Next]_vars
             PROVE  [Abstract!Next]_(Abstract!vars)
  OBVIOUS
<1>1. CASE UNCHANGED vars
  <2>1. \A u \in Threads : Unseen(u)
    BY <1>1, StillUnseen DEF vars, Word
  <2> QED BY <2>1, NothingSeen
<1>2. ASSUME NEW t \in Threads, NEW s \in Slots, NEW v \in T, Visit(t, s, v)
      PROVE  Abstract!Offer(t, v)
  BY <1>2, VisitMaps
<1>3. ASSUME NEW t \in Threads, Tick(t) \/ Step(t)
      PROVE  \/ \E u \in Threads : Abstract!Match(t, u)
             \/ Abstract!Miss(t) \/ Abstract!Collect(t)
             \/ UNCHANGED Abstract!vars
  BY <1>3, TickMaps, GiveUpMaps, LoadWordMaps, ProposeMaps, PollMaps, StopWaitingMaps,
     RevertMaps, GrabMaps, TakeMaps, AnswerMaps, ReturnMaps DEF Step
<1> QED BY <1>1, <1>2, <1>3 DEF Next, Abstract!Next

\* Items are swapped in pairs: each call that gets an item gets the item of one
\* other call, which gets its own; a call that comes back empty-handed has given
\* nothing away, and no item comes back with its bits changed.
THEOREM ImplementsExchangerHolds == Spec => ImplementsExchanger
BY InitMaps, InitIInv, NextIInv, NextMaps, PTL DEF Spec, ImplementsExchanger, Abstract!Spec

=============================================================================
