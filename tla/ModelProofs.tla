---------------------------- MODULE ModelProofs -----------------------------
(***************************************************************************)
(* Proofs about what passes between the agent and its language model.      *)
(* The arguments of a tool call arrive at the command they were meant for, *)
(* whatever the model writes into them: cutting a text at its marks undoes *)
(* what putting it together did, tool by tool, and so a call is carried    *)
(* out as it was asked or not at all.  And whatever a request has to leave *)
(* out, it is within its budget, shows calls and results together, and     *)
(* tells of every result.                                                  *)
(***************************************************************************)
EXTENDS AgentArguments, TurnContext,
        FiniteSetTheorems, SequenceTheorems, WellFoundedInduction, TLAPS

-----------------------------------------------------------------------------
(* Numbers, and texts cut at marks *)

(* A set of numbers has a least one.                                       *)
LEMMA LeastNumber ==
    ASSUME NEW S \in SUBSET Nat, S # {}
    PROVE  \E x \in S : \A y \in S : x =< y
  <1> DEFINE Less == {pair \in Nat \X Nat : pair[1] < pair[2]}
  <1>1. IsWellFoundedOn(Less, Nat)
    BY NatLessThanWellFounded, Zenon DEF OpToRel
  <1>2. PICK x \in S : \A y \in S : ~ (<<y, x>> \in Less)
    <2> HIDE DEF Less
    <2> QED
      BY <1>1, WFMin
  <1>3. \A y \in S : x =< y
    <2> SUFFICES ASSUME NEW y \in S PROVE x =< y
      OBVIOUS
    <2>1. x \in Nat /\ y \in Nat /\ ~ (<<y, x>> \in Less)
      BY <1>2
    <2>2. y < x => <<y, x>> \in Less
      BY <2>1
    <2> QED
      BY <2>1, <2>2
  <1> QED
    BY <1>3

(* Min and Max pick the ends of a set of numbers.                          *)
LEMMA MinOfNumbers ==
    ASSUME NEW S \in SUBSET Nat, S # {}
    PROVE  Min(S) \in S /\ \A y \in S : Min(S) <= y
  BY LeastNumber DEF Min

(* ... and a bounded one has a greatest.                                   *)
LEMMA MaxOfNumbers ==
    ASSUME NEW n \in Nat, NEW S \in SUBSET (0..n), S # {}
    PROVE  Max(S) \in S /\ \A y \in S : y <= Max(S)
  <1> DEFINE D == {n - x : x \in S}
  <1>1. D \in SUBSET Nat /\ D # {}
    <2>1. \A x \in S : x \in 0..n
      OBVIOUS
    <2>2. \A x \in S : n - x \in Nat
      BY <2>1
    <2>3. D # {}
      OBVIOUS
    <2> QED
      BY <2>2, <2>3
  <1>2. PICK d \in D : \A y \in D : d <= y
    BY <1>1, LeastNumber
  <1>3. \E x \in S : \A y \in S : y <= x
    BY <1>2
  <1> QED
    BY <1>3 DEF Max

(* Texts *)
Literals == {"space", "nbsp", "comma", "command", "on", "off", "-c", "a", "b", "true", "false",
             "exact", "contains", "enable", "disable", "configure", "list", "purge", "admin"} \cup Roles
Symbols == STRING \cup Literals
Texts == Seq(Symbols)

(* No white space at its ends; none at all.                                *)
Neat(t) == t \in Texts /\ (t # <<>> => t[1] \notin Blank /\ t[Len(t)] \notin Blank)
Token(t) == t \in Texts /\ t # <<>> /\ \A i \in 1..Len(t) : t[i] \notin Blank

(* What TrimSpace leaves begins and ends with a mark or a letter.          *)
LEMMA TrimIsNeat ==
    ASSUME NEW t \in Texts
    PROVE  /\ Neat(TrimSpace(t))
           /\ TrimSpace(t) = <<>> <=> \A i \in 1..Len(t) : t[i] \in Blank
           /\ \A i \in 1..Len(TrimSpace(t)) : \E j \in 1..Len(t) : TrimSpace(t)[i] = t[j]
  <1> DEFINE kept == {i \in DOMAIN t : t[i] \notin Blank}
  <1>1. DOMAIN t = 1..Len(t) /\ Len(t) \in Nat /\ \A i \in 1..Len(t) : t[i] \in Symbols
    BY DEF Texts
  <1>2. CASE kept = {}
    <2>1. TrimSpace(t) = <<>>
      BY <1>2 DEF TrimSpace
    <2> QED
      BY <1>1, <1>2, <2>1 DEF Neat, Texts
  <1>3. CASE kept # {}
    <2> DEFINE a == Min(kept)  b == Max(kept)
    <2>0. kept \in SUBSET Nat /\ kept \in SUBSET (0..Len(t))
      BY <1>1
    <2>1. a \in kept /\ b \in kept /\ a <= b
      BY <1>1, <1>3, <2>0, MinOfNumbers, MaxOfNumbers
    <2>2. TrimSpace(t) = SubSeq(t, a, b)
      BY <1>3 DEF TrimSpace
    <2> HIDE DEF a, b
    <2>3. a \in 1..Len(t) /\ b \in 1..Len(t) /\ t[a] \notin Blank /\ t[b] \notin Blank
      BY <1>1, <2>1
    <2>4. /\ SubSeq(t, a, b) \in Texts
          /\ Len(SubSeq(t, a, b)) = b - a + 1
          /\ \A i \in 1..(b - a + 1) : SubSeq(t, a, b)[i] = t[a + i - 1]
      <3>1. \A i \in a..b : t[i] \in Symbols
        BY <1>1, <2>3
      <3> QED
        BY <2>1, <2>3, <3>1, SubSeqProperties, SMTT(30) DEF Texts
    <2>5. SubSeq(t, a, b)[1] = t[a] /\ SubSeq(t, a, b)[b - a + 1] = t[b]
      BY <2>1, <2>3, <2>4
    <2> QED
      BY <1>1, <2>1, <2>2, <2>3, <2>4, <2>5, SMTT(30) DEF Neat
  <1> QED
    BY <1>2, <1>3

(* A text without white space at its ends is left alone.                   *)
LEMMA NeatStays ==
    ASSUME NEW t, Neat(t)
    PROVE  TrimSpace(t) = t
  <1> DEFINE kept == {i \in DOMAIN t : t[i] \notin Blank}
  <1>1. DOMAIN t = 1..Len(t) /\ Len(t) \in Nat /\ t \in Seq(Symbols)
    BY DEF Texts, Neat
  <1>2. CASE t = <<>>
    <2>1. kept = {}
      BY <1>2
    <2> QED
      BY <1>2, <2>1 DEF TrimSpace
  <1>3. CASE t # <<>>
    <2>1. Len(t) >= 1
      BY <1>1, <1>3
    <2>2. 1 \in kept /\ Len(t) \in kept
      BY <1>1, <1>3, <2>1 DEF Neat
    <2>3. kept \in SUBSET Nat /\ kept \in SUBSET (0..Len(t)) /\ \A i \in kept : i \in 1..Len(t)
      BY <1>1
    <2>4. Min(kept) = 1 /\ Max(kept) = Len(t)
      <3>1. Min(kept) \in kept /\ Min(kept) <= 1
        BY <2>2, <2>3, MinOfNumbers
      <3>2. Max(kept) \in kept /\ Len(t) <= Max(kept)
        BY <1>1, <2>2, <2>3, MaxOfNumbers
      <3> QED
        BY <1>1, <2>3, <3>1, <3>2
    <2>5. TrimSpace(t) = SubSeq(t, 1, Len(t))
      BY <2>2, <2>4 DEF TrimSpace
    <2> QED
      BY <1>1, <2>5, SubSeqFull
  <1> QED
    BY <1>2, <1>3

(* A token holds no white space, so none at its ends.                      *)
LEMMA TokenIsNeat ==
    ASSUME NEW t, Token(t)
    PROVE  Neat(t)
  BY DEF Token, Neat, Texts

(* Two neat texts with a mark between them are a neat text.                *)
LEMMA NeatTogether ==
    ASSUME NEW a, NEW b, Neat(a), Neat(b), a # <<>>, b # <<>>, NEW m \in Symbols
    PROVE  /\ Neat(a \o <<m>> \o b) /\ a \o <<m>> \o b # <<>>
           /\ Len(a \o <<m>> \o b) = Len(a) + 1 + Len(b)
           /\ \A i \in 1..Len(a) : (a \o <<m>> \o b)[i] = a[i]
           /\ (a \o <<m>> \o b)[Len(a) + 1] = m
           /\ \A i \in 1..Len(b) : (a \o <<m>> \o b)[Len(a) + 1 + i] = b[i]
  <1>1. a \in Seq(Symbols) /\ b \in Seq(Symbols) /\ <<m>> \in Seq(Symbols)
    BY DEF Neat, Texts
  <1>2. Len(a) \in Nat /\ Len(b) \in Nat /\ Len(a) >= 1 /\ Len(b) >= 1
    BY <1>1
  <1> DEFINE c == a \o <<m>> \o b
  <1>3. c \in Seq(Symbols)
    BY <1>1
  <1>4. Len(c) = Len(a) + 1 + Len(b)
    BY <1>1
  <1>5. \A i \in 1..Len(a) : c[i] = a[i]
    BY <1>1
  <1>6. c[Len(a) + 1] = m
    BY <1>1
  <1>7. \A i \in 1..Len(b) : c[Len(a) + 1 + i] = b[i]
    BY <1>1
  <1>8. c[1] = a[1] /\ c[Len(c)] = b[Len(b)]
    BY <1>2, <1>4, <1>5, <1>7
  <1> HIDE DEF c
  <1>9. c # <<>>
    BY <1>2, <1>3, <1>4
  <1>10. Neat(c)
    BY <1>3, <1>8 DEF Neat, Texts
  <1> QED
    BY <1>4, <1>5, <1>6, <1>7, <1>9, <1>10 DEF c

-----------------------------------------------------------------------------
(* Numbers in order *)
Before(S, i) == {j \in S : j < i}

(* A number has fewer numbers before it than a later one.                  *)
LEMMA RankGrows ==
    ASSUME NEW S \in SUBSET Nat, IsFiniteSet(S), NEW i \in S, NEW j \in S, i < j
    PROVE  /\ Cardinality(Before(S, i)) \in Nat /\ Cardinality(Before(S, j)) \in Nat
           /\ Cardinality(Before(S, i)) < Cardinality(Before(S, j))
  <1>1. Before(S, j) \in SUBSET S /\ Before(S, i) \in SUBSET Before(S, j)
    <2>1. i \in Nat /\ j \in Nat /\ \A k \in S : k \in Nat
      OBVIOUS
    <2>2. \A k \in Before(S, i) : k \in S /\ k < j
      BY <2>1 DEF Before
    <2> QED
      BY <2>2 DEF Before
  <1>2. i \in Before(S, j) /\ i \notin Before(S, i)
    BY DEF Before
  <1>3. IsFiniteSet(Before(S, j))
    BY <1>1, FS_Subset
  <1>4. /\ IsFiniteSet(Before(S, i))
        /\ Cardinality(Before(S, i)) <= Cardinality(Before(S, j))
        /\ Cardinality(Before(S, j)) = Cardinality(Before(S, i)) => Before(S, j) = Before(S, i)
    BY <1>1, <1>3, FS_Subset
  <1>5. Cardinality(Before(S, i)) \in Nat /\ Cardinality(Before(S, j)) \in Nat
    BY <1>3, <1>4, FS_CardinalityType
  <1> QED
    BY <1>2, <1>4, <1>5

(* The place of a number in a set is one of 1 .. the size of the set.      *)
LEMMA RankIsBounded ==
    ASSUME NEW S \in SUBSET Nat, IsFiniteSet(S), NEW i \in S
    PROVE  /\ Cardinality(S) \in Nat /\ Cardinality(Before(S, i)) \in Nat
           /\ Cardinality(Before(S, i)) + 1 \in 1..Cardinality(S)
  <1>1. Before(S, i) \in SUBSET S /\ i \notin Before(S, i) /\ i \in S
    BY DEF Before
  <1>2. /\ IsFiniteSet(Before(S, i))
        /\ Cardinality(Before(S, i)) <= Cardinality(S)
        /\ Cardinality(S) = Cardinality(Before(S, i)) => S = Before(S, i)
    BY <1>1, FS_Subset
  <1>3. Cardinality(Before(S, i)) \in Nat /\ Cardinality(S) \in Nat
    BY <1>2, FS_CardinalityType
  <1> QED
    BY <1>1, <1>2, <1>3

(* The n-th of a set of numbers is the one before which n - 1 others come. *)
LEMMA NthIs ==
    ASSUME NEW S \in SUBSET Nat, IsFiniteSet(S), NEW i \in S
    PROVE  Nth(S, Cardinality(Before(S, i)) + 1) = i
  <1> DEFINE c == Cardinality(Before(S, i))
  <1>1. c \in Nat
    BY RankIsBounded
  <1>2. Nth(S, c + 1) = CHOOSE j \in S : Cardinality(Before(S, j)) = (c + 1) - 1
    BY DEF Nth, Before
  <1>3. (c + 1) - 1 = c
    BY <1>1
  <1>4. \A j \in S : Cardinality(Before(S, j)) = c => j = i
    <2> SUFFICES ASSUME NEW j \in S, Cardinality(Before(S, j)) = c, j # i
                 PROVE FALSE
      OBVIOUS
    <2>1. i < j \/ j < i
      OBVIOUS
    <2>2. CASE i < j
      BY <1>1, <2>2, RankGrows
    <2>3. CASE j < i
      BY <1>1, <2>3, RankGrows
    <2> QED
      BY <2>1, <2>2, <2>3
  <1>5. Nth(S, c + 1) = CHOOSE j \in S : Cardinality(Before(S, j)) = c
    BY <1>2, <1>3
  <1> HIDE DEF c
  <1> QED
    BY <1>4, <1>5 DEF c

(* Every place of a set of numbers is some number's.                       *)
LEMMA NthExists ==
    ASSUME NEW S \in SUBSET Nat, IsFiniteSet(S), NEW n \in 1..Cardinality(S)
    PROVE  Nth(S, n) \in S /\ Cardinality(Before(S, Nth(S, n))) = n - 1
  <1> DEFINE c == Cardinality(S)
             T == 0..(c - 1)
             f == [i \in S |-> Cardinality(Before(S, i))]
  <1>1. c \in Nat
    BY FS_CardinalityType
  <1>2. IsFiniteSet(T) /\ Cardinality(T) = c
    <2>1. IsFiniteSet(0..(c - 1)) /\ Cardinality(0..(c - 1)) = IF 0 > c - 1 THEN 0 ELSE (c - 1) - 0 + 1
      <3> HIDE DEF c
      <3>1. 0 \in Int /\ c - 1 \in Int
        BY <1>1
      <3> QED
        BY <3>1, FS_Interval
    <2> QED
      BY <1>1, <2>1
  <1>3. f \in [S -> T]
    <2>1. ASSUME NEW i \in S PROVE Cardinality(Before(S, i)) \in T
      BY <1>1, RankIsBounded
    <2> QED
      BY <2>1
  <1>4. \A i, j \in S : f[i] = f[j] => i = j
    <2> SUFFICES ASSUME NEW i \in S, NEW j \in S, Cardinality(Before(S, i)) = Cardinality(Before(S, j))
                 PROVE i = j
      OBVIOUS
    <2> QED
      BY NthIs
  <1>5. f \in Injection(S, T)
    <2> HIDE DEF f, T
    <2> QED
      BY <1>3, <1>4 DEF Injection, IsInjective
  <1>6. f \in Surjection(S, T)
    <2> HIDE DEF f, T, c
    <2> QED
      BY <1>2, <1>5, FS_Injection DEF c
  <1>7. n - 1 \in T
    BY <1>1
  <1>8. PICK i \in S : f[i] = n - 1
    <2> HIDE DEF f, T
    <2> QED
      BY <1>6, <1>7 DEF Surjection
  <1>9. Cardinality(Before(S, i)) = n - 1
    BY <1>8
  <1>10. Cardinality(Before(S, i)) + 1 = n
    BY <1>1, <1>9
  <1> QED
    BY <1>9, <1>10, NthIs

(* Moving a set of places changes neither its size nor that it is finite.  *)
LEMMA ShiftKeepsCount ==
    ASSUME NEW S \in SUBSET Nat, IsFiniteSet(S), NEW d \in Nat
    PROVE  IsFiniteSet({i + d : i \in S}) /\ Cardinality({i + d : i \in S}) = Cardinality(S)
  <1> DEFINE T == {i + d : i \in S}
             f == [i \in S |-> i + d]
  <1>1. f \in [S -> T] /\ (\A i, j \in S : f[i] = f[j] => i = j) /\ (\A t \in T : \E i \in S : f[i] = t)
    OBVIOUS
  <1>2. f \in Bijection(S, T)
    <2> HIDE DEF f, T
    <2> QED
      BY <1>1 DEF Bijection, Injection, Surjection, IsInjective
  <1>3. ExistsBijection(S, T)
    BY <1>2 DEF ExistsBijection
  <1> HIDE DEF T
  <1>4. IsFiniteSet(T) /\ Cardinality(T) = Cardinality(S)
    BY <1>3, FS_Bijection
  <1> QED
    BY <1>4 DEF T

(* Two sets, one behind the other.                                         *)
LEMMA NthOfBoth ==
    ASSUME NEW A \in SUBSET Nat, IsFiniteSet(A), NEW B \in SUBSET Nat, IsFiniteSet(B), NEW d \in Nat,
           \A a \in A : \A b \in B : a < b + d
    PROVE  /\ Cardinality(A \cup {b + d : b \in B}) = Cardinality(A) + Cardinality(B)
           /\ \A n \in 1..Cardinality(A) : Nth(A \cup {b + d : b \in B}, n) = Nth(A, n)
           /\ \A n \in 1..Cardinality(B) :
                 Nth(A \cup {b + d : b \in B}, Cardinality(A) + n) = Nth(B, n) + d
  <1> DEFINE D == {b + d : b \in B}
             C == A \cup D
             na == Cardinality(A)
             nb == Cardinality(B)
  <1>1. D \in SUBSET Nat /\ C \in SUBSET Nat
    <2>1. \A b \in B : b + d \in Nat
      OBVIOUS
    <2> QED
      BY <2>1
  <1>2. IsFiniteSet(D) /\ Cardinality(D) = nb
    BY ShiftKeepsCount
  <1>3. \A a \in A : \A e \in D : a < e
    OBVIOUS
  <1>4. na \in Nat /\ nb \in Nat
    BY FS_CardinalityType
  <1>5. A \cap D = {}
    BY <1>1, <1>3
  <1>6. IsFiniteSet(C) /\ Cardinality(C) = na + nb
    <2>1. /\ IsFiniteSet(A \cup D)
          /\ Cardinality(A \cup D) = Cardinality(A) + Cardinality(D) - Cardinality(A \cap D)
      <3> HIDE DEF D
      <3> QED
        BY <1>2, FS_Union
    <2>2. Cardinality(A \cap D) = 0
      BY <1>5, FS_EmptySet
    <2> QED
      BY <1>2, <1>4, <2>1, <2>2
  <1>7. ASSUME NEW n \in 1..na PROVE Nth(C, n) = Nth(A, n)
    <2> DEFINE i == Nth(A, n)
    <2>1. i \in A /\ Cardinality(Before(A, i)) = n - 1
      BY NthExists
    <2>2. Before(C, i) = Before(A, i)
      <3> HIDE DEF D, i
      <3>1. i \in Nat /\ (\A e \in D : e \in Nat /\ i < e) /\ (\A a \in A : a \in Nat)
        BY <1>1, <1>3, <2>1
      <3>2. \A e \in D : ~ (e < i)
        BY <3>1
      <3> QED
        BY <3>2 DEF Before
    <2>3. (n - 1) + 1 = n
      BY <1>4
    <2>4. Nth(C, Cardinality(Before(C, i)) + 1) = i
      <3> HIDE DEF C, i
      <3>1. i \in C
        BY <2>1 DEF C
      <3> QED
        BY <1>1, <1>6, <3>1, NthIs
    <2> HIDE DEF C, i
    <2>5. Nth(C, n) = i
      BY <2>1, <2>2, <2>3, <2>4
    <2> QED
      BY <2>5 DEF i
  <1>8. ASSUME NEW n \in 1..nb PROVE Nth(C, na + n) = Nth(B, n) + d
    <2> DEFINE i == Nth(B, n)
    <2>1. i \in B /\ Cardinality(Before(B, i)) = n - 1
      BY NthExists
    <2> HIDE DEF i
    <2>2. Before(C, i + d) = A \cup {b + d : b \in Before(B, i)}
      <3>1. ASSUME NEW j \in C, j < i + d PROVE j \in A \cup {b + d : b \in Before(B, i)}
        BY <2>1, <3>1 DEF Before
      <3>2. ASSUME NEW j \in A PROVE j \in Before(C, i + d)
        BY <2>1 DEF Before
      <3>3. ASSUME NEW b \in Before(B, i) PROVE b + d \in Before(C, i + d)
        <4>1. b \in B /\ b < i /\ b \in Nat /\ i \in Nat
          BY <2>1 DEF Before
        <4>2. b + d \in D /\ b + d < i + d
          BY <4>1
        <4> HIDE DEF D
        <4> QED
          BY <4>2 DEF Before
      <3> HIDE DEF C
      <3>4. Before(C, i + d) \subseteq A \cup {b + d : b \in Before(B, i)}
        BY <3>1 DEF Before
      <3>5. {b + d : b \in Before(B, i)} \subseteq Before(C, i + d)
        BY <3>3
      <3> QED
        BY <3>2, <3>4, <3>5
    <2>3. /\ Before(B, i) \in SUBSET Nat /\ IsFiniteSet(Before(B, i))
      <3>1. Before(B, i) \in SUBSET B
        BY DEF Before
      <3> QED
        BY <3>1, FS_Subset
    <2>4. /\ IsFiniteSet({b + d : b \in Before(B, i)})
          /\ Cardinality({b + d : b \in Before(B, i)}) = n - 1
      BY <2>1, <2>3, ShiftKeepsCount
    <2>5. A \cap {b + d : b \in Before(B, i)} = {}
      <3>1. \A b \in Before(B, i) : b + d \in D
        BY DEF Before
      <3> HIDE DEF D
      <3> QED
        BY <1>5, <3>1
    <2>6. Cardinality(Before(C, i + d)) = na + (n - 1)
      <3> DEFINE E == {b + d : b \in Before(B, i)}
      <3>1. Cardinality(A \cup E) = Cardinality(A) + Cardinality(E) - Cardinality(A \cap E)
        <4> HIDE DEF E
        <4>1. IsFiniteSet(E)
          BY <2>4 DEF E
        <4> QED
          BY <4>1, FS_Union
      <3>2. Cardinality(A \cap E) = 0
        BY <2>5, FS_EmptySet
      <3> HIDE DEF C, D
      <3>3. Cardinality(E) = n - 1 /\ Before(C, i + d) = A \cup E
        BY <2>2, <2>4
      <3> HIDE DEF E
      <3>4. Cardinality(A \cup E) = na + (n - 1) - 0
        BY <3>1, <3>2, <3>3
      <3> HIDE DEF na
      <3>5. na + (n - 1) - 0 = na + (n - 1)
        BY <1>4
      <3> QED
        BY <3>3, <3>4, <3>5
    <2>7. (na + (n - 1)) + 1 = na + n
      BY <1>4
    <2>8. i + d \in C
      BY <2>1
    <2>9. Nth(C, Cardinality(Before(C, i + d)) + 1) = i + d
      <3> HIDE DEF C
      <3> QED
        BY <1>1, <1>6, <2>8, NthIs
    <2> HIDE DEF C, na
    <2>10. Nth(C, na + n) = i + d
      BY <2>6, <2>7, <2>9
    <2> QED
      BY <2>10 DEF i
  <1> HIDE DEF C, na, nb
  <1>9. /\ Cardinality(C) = na + nb
        /\ \A n \in 1..na : Nth(C, n) = Nth(A, n)
        /\ \A n \in 1..nb : Nth(C, na + n) = Nth(B, n) + d
    BY <1>6, <1>7, <1>8
  <1> QED
    BY <1>9 DEF C, D, na, nb

-----------------------------------------------------------------------------
(* Cutting a text *)

(* A piece ends before the next mark, or with its text.                    *)
LEMMA EndExists ==
    ASSUME NEW t \in Texts, NEW marks, NEW i \in 1..(Len(t) + 1)
    PROVE  \E e \in i..(Len(t) + 1) :
              /\ e > Len(t) \/ t[e] \in marks
              /\ \A j \in i..(e - 1) : t[j] \notin marks
              /\ End(t, marks, i) = e - 1
  <1> DEFINE S == {j \in i..(Len(t) + 1) : j > Len(t) \/ t[j] \in marks}
  <1>1. Len(t) \in Nat /\ i \in Nat
    BY DEF Texts
  <1>2. Len(t) + 1 \in S
    BY <1>1
  <1>3. S \in SUBSET Nat
    BY <1>1
  <1>4. Min(S) \in S /\ \A y \in S : Min(S) <= y
    BY <1>2, <1>3, MinOfNumbers
  <1>5. End(t, marks, i) = Min(S) - 1
    BY DEF End
  <1> DEFINE e == Min(S)
  <1>6. e \in i..(Len(t) + 1) /\ (e > Len(t) \/ t[e] \in marks)
    BY <1>4
  <1>7. \A j \in i..(e - 1) : t[j] \notin marks
    <2> SUFFICES ASSUME NEW j \in i..(e - 1), t[j] \in marks PROVE FALSE
      OBVIOUS
    <2> HIDE DEF e
    <2>1. j \in i..(Len(t) + 1) /\ j < e
      BY <1>1, <1>6
    <2>2. j \in S
      BY <2>1
    <2>3. e <= j
      BY <1>4, <2>2 DEF e
    <2> QED
      BY <1>1, <1>6, <2>1, <2>3
  <1> HIDE DEF e
  <1> QED
    BY <1>5, <1>6, <1>7 DEF e

(* ... and the first mark behind its start says where.                     *)
LEMMA EndIs ==
    ASSUME NEW t \in Texts, NEW marks, NEW i \in 1..(Len(t) + 1), NEW e \in i..(Len(t) + 1),
           e > Len(t) \/ t[e] \in marks, \A j \in i..(e - 1) : t[j] \notin marks
    PROVE  End(t, marks, i) = e - 1
  <1>1. Len(t) \in Nat /\ i \in Nat
    BY DEF Texts
  <1>2. PICK f \in i..(Len(t) + 1) :
              /\ f > Len(t) \/ t[f] \in marks
              /\ \A j \in i..(f - 1) : t[j] \notin marks
              /\ End(t, marks, i) = f - 1
    BY EndExists
  <1>3. ~ (e < f)
    <2> SUFFICES ASSUME e < f PROVE FALSE
      OBVIOUS
    <2>1. e \in i..(f - 1) /\ e <= Len(t)
      BY <1>1
    <2> QED
      BY <1>1, <1>2, <2>1
  <1>4. ~ (f < e)
    <2> SUFFICES ASSUME f < e PROVE FALSE
      OBVIOUS
    <2>1. f \in i..(e - 1) /\ f <= Len(t)
      BY <1>1
    <2> QED
      BY <1>1, <1>2, <2>1
  <1>5. e = f
    BY <1>1, <1>3, <1>4
  <1> QED
    BY <1>2, <1>5

(* A function on 1..c is a sequence of length c.                           *)
LEMMA FunctionIsSequence ==
    ASSUME NEW T, NEW c \in Nat, NEW F \in [1..c -> T]
    PROVE  F \in Seq(T) /\ Len(F) = c
  OBVIOUS

(* Cutting a text yields one text for each start.                          *)
LEMMA CutIsTexts ==
    ASSUME NEW t \in Texts, NEW marks, NEW S \in SUBSET (1..(Len(t) + 1))
    PROVE  /\ S \in SUBSET Nat /\ IsFiniteSet(S) /\ Cardinality(S) \in Nat
           /\ Cut(t, marks, S) \in Seq(Texts) /\ Len(Cut(t, marks, S)) = Cardinality(S)
           /\ \A n \in 1..Cardinality(S) :
                 /\ Nth(S, n) \in S
                 /\ Cut(t, marks, S)[n] = SubSeq(t, Nth(S, n), End(t, marks, Nth(S, n)))
  <1>1. Len(t) \in Nat /\ t \in Seq(Symbols)
    BY DEF Texts
  <1>2. S \in SUBSET Nat /\ IsFiniteSet(S)
    <2>1. IsFiniteSet(1..(Len(t) + 1))
      BY <1>1, FS_Interval
    <2>2. IsFiniteSet(S)
      BY <2>1, FS_Subset
    <2> QED
      BY <1>1, <2>2
  <1>3. Cardinality(S) \in Nat
    BY <1>2, FS_CardinalityType
  <1>4. ASSUME NEW n \in 1..Cardinality(S)
        PROVE  Nth(S, n) \in S /\ SubSeq(t, Nth(S, n), End(t, marks, Nth(S, n))) \in Texts
    <2>1. Nth(S, n) \in S
      BY <1>2, NthExists
    <2> DEFINE i == Nth(S, n)
    <2>2. i \in 1..(Len(t) + 1)
      BY <2>1
    <2> HIDE DEF i
    <2>3. PICK e \in i..(Len(t) + 1) : End(t, marks, i) = e - 1
      BY <2>2, EndExists
    <2>4. SubSeq(t, i, e - 1) \in Seq(Symbols)
      <3>1. \A j \in i..(e - 1) : t[j] \in Symbols
        BY <1>1, <2>2
      <3>2. i \in Int /\ e - 1 \in Int
        BY <1>1, <2>2
      <3> QED
        BY <3>1, <3>2, SubSeqProperties
    <2> QED
      BY <2>1, <2>3, <2>4 DEF i, Texts
  <1> DEFINE c == Cardinality(S)
  <1>5. Cut(t, marks, S) = [n \in 1..c |-> SubSeq(t, Nth(S, n), End(t, marks, Nth(S, n)))]
    BY DEF Cut
  <1> HIDE DEF c
  <1>6. Cut(t, marks, S) \in Seq(Texts) /\ Len(Cut(t, marks, S)) = c
    <2>1. Cut(t, marks, S) \in [1..c -> Texts]
      BY <1>4, <1>5 DEF c
    <2> QED
      BY <1>3, <2>1, FunctionIsSequence DEF c
  <1> QED
    BY <1>2, <1>3, <1>4, <1>5, <1>6 DEF c

Moved(S, d) == {s + d : s \in S}
Places(t) == SUBSET (1..(Len(t) + 1))

(* A text with a mark in it falls into the pieces before the mark and those *)
(* behind it.                                                              *)
LEMMA CutAtMark ==
    ASSUME NEW x \in Texts, NEW y \in Texts, NEW marks, NEW m \in Symbols, m \in marks,
           NEW A \in Places(x), NEW B \in Places(y)
    PROVE  Cut(x \o <<m>> \o y, marks, A \cup Moved(B, Len(x) + 1))
             = Cut(x, marks, A) \o Cut(y, marks, B)
  <1> DEFINE d == Len(x) + 1
             t == x \o <<m>> \o y
             C == A \cup {b + d : b \in B}
             na == Cardinality(A)
             nb == Cardinality(B)
  <1>1. /\ Len(x) \in Nat /\ Len(y) \in Nat /\ d \in Nat /\ d >= 1
        /\ x \in Seq(Symbols) /\ y \in Seq(Symbols) /\ <<m>> \in Seq(Symbols)
    BY DEF Texts
  <1>2. /\ t \in Texts /\ Len(t) = d + Len(y)
        /\ \A i \in 1..Len(x) : t[i] = x[i]
        /\ t[d] = m
        /\ \A i \in 1..Len(y) : t[d + i] = y[i]
    <2>1. t \in Seq(Symbols) /\ Len(t) = d + Len(y)
      BY <1>1
    <2>2. \A i \in 1..Len(x) : t[i] = x[i]
      BY <1>1
    <2>3. t[d] = m
      BY <1>1
    <2>4. \A i \in 1..Len(y) : t[d + i] = y[i]
      BY <1>1
    <2> QED
      BY <2>1, <2>2, <2>3, <2>4 DEF Texts
  <1>3. A \in SUBSET (1..(Len(x) + 1)) /\ \A i \in A : i \in 1..d
    BY DEF Places
  <1>4. B \in SUBSET (1..(Len(y) + 1)) /\ \A i \in B : i \in 1..(Len(y) + 1)
    BY DEF Places
  <1> HIDE DEF d, t
  <1>5. \A i \in C : i \in 1..(Len(t) + 1)
    BY <1>1, <1>2, <1>3, <1>4
  <1>6. /\ A \in SUBSET Nat /\ IsFiniteSet(A) /\ na \in Nat
        /\ Cut(x, marks, A) \in Seq(Texts) /\ Len(Cut(x, marks, A)) = na
        /\ \A n \in 1..na :
              /\ Nth(A, n) \in A
              /\ Cut(x, marks, A)[n] = SubSeq(x, Nth(A, n), End(x, marks, Nth(A, n)))
    BY <1>3, CutIsTexts
  <1>7. /\ B \in SUBSET Nat /\ IsFiniteSet(B) /\ nb \in Nat
        /\ Cut(y, marks, B) \in Seq(Texts) /\ Len(Cut(y, marks, B)) = nb
        /\ \A n \in 1..nb :
              /\ Nth(B, n) \in B
              /\ Cut(y, marks, B)[n] = SubSeq(y, Nth(B, n), End(y, marks, Nth(B, n)))
    BY <1>4, CutIsTexts
  <1>8. /\ Cut(t, marks, C) \in Seq(Texts) /\ Len(Cut(t, marks, C)) = Cardinality(C)
        /\ \A n \in 1..Cardinality(C) :
                 Cut(t, marks, C)[n] = SubSeq(t, Nth(C, n), End(t, marks, Nth(C, n)))
    <2> HIDE DEF C
    <2>1. C \in SUBSET (1..(Len(t) + 1))
      BY <1>5
    <2> QED
      BY <1>2, <2>1, CutIsTexts
  <1>9. /\ Cardinality(C) = na + nb
        /\ \A n \in 1..na : Nth(C, n) = Nth(A, n)
        /\ \A n \in 1..nb : Nth(C, na + n) = Nth(B, n) + d
    <2>1. \A a \in A : \A b \in B : a < b + d
      BY <1>1, <1>3, <1>4
    <2>2. A \in SUBSET Nat /\ IsFiniteSet(A) /\ B \in SUBSET Nat /\ IsFiniteSet(B) /\ d \in Nat
      BY <1>1, <1>6, <1>7
    <2> HIDE DEF C, na, nb
    <2>3. /\ Cardinality(A \cup {b + d : b \in B}) = Cardinality(A) + Cardinality(B)
          /\ \A n \in 1..Cardinality(A) : Nth(A \cup {b + d : b \in B}, n) = Nth(A, n)
          /\ \A n \in 1..Cardinality(B) :
                Nth(A \cup {b + d : b \in B}, Cardinality(A) + n) = Nth(B, n) + d
      BY <2>1, <2>2, NthOfBoth, Zenon
    <2> QED
      BY <2>3, Zenon DEF C, na, nb
  <1>10. ASSUME NEW i \in A
         PROVE  SubSeq(t, i, End(t, marks, i)) = SubSeq(x, i, End(x, marks, i))
    <2>1. i \in 1..(Len(x) + 1)
      BY <1>3
    <2>2. PICK e \in i..(Len(x) + 1) :
              /\ e > Len(x) \/ x[e] \in marks
              /\ \A j \in i..(e - 1) : x[j] \notin marks
              /\ End(x, marks, i) = e - 1
      BY <2>1, EndExists
    <2>3. e \in i..(Len(t) + 1) /\ i \in 1..(Len(t) + 1)
      BY <1>1, <1>2, <2>1 DEF d
    <2>4. e > Len(t) \/ t[e] \in marks
      <3>1. CASE e > Len(x)
        <4>1. e = d
          BY <1>1, <3>1 DEF d
        <4> QED
          BY <1>2, <4>1
      <3>2. CASE e <= Len(x)
        <4>1. e \in 1..Len(x) /\ x[e] \in marks
          BY <1>1, <2>1, <2>2, <3>2
        <4> QED
          BY <1>2, <4>1
      <3> QED
        BY <1>1, <3>1, <3>2
    <2>5. \A j \in i..(e - 1) : j \in 1..Len(x) /\ t[j] = x[j] /\ t[j] \notin marks
      <3> TAKE j \in i..(e - 1)
      <3>1. j \in 1..Len(x)
        BY <1>1, <2>1
      <3> QED
        BY <1>2, <2>2, <3>1
    <2>6. End(t, marks, i) = e - 1
      BY <1>2, <2>3, <2>4, <2>5, EndIs
    <2>7. SubSeq(t, i, e - 1) = SubSeq(x, i, e - 1)
      <3>1. i \in Int /\ e - 1 \in Int
        BY <1>1, <2>1
      <3>2. /\ \A j \in i..(e - 1) : t[j] \in Symbols
            /\ \A j \in i..(e - 1) : x[j] \in Symbols
        BY <1>1, <2>5
      <3>3. /\ SubSeq(t, i, e - 1) \in Seq(Symbols)
            /\ Len(SubSeq(t, i, e - 1)) = IF i <= e - 1 THEN (e - 1) - i + 1 ELSE 0
            /\ \A j \in 1..((e - 1) - i + 1) : SubSeq(t, i, e - 1)[j] = t[i + j - 1]
        BY <3>1, <3>2, SubSeqProperties
      <3>4. /\ SubSeq(x, i, e - 1) \in Seq(Symbols)
            /\ Len(SubSeq(x, i, e - 1)) = IF i <= e - 1 THEN (e - 1) - i + 1 ELSE 0
            /\ \A j \in 1..((e - 1) - i + 1) : SubSeq(x, i, e - 1)[j] = x[i + j - 1]
        BY <3>1, <3>2, SubSeqProperties
      <3>5. \A j \in 1..((e - 1) - i + 1) : i + j - 1 \in i..(e - 1)
        BY <3>1
      <3>6. \A j \in 1..((e - 1) - i + 1) : SubSeq(t, i, e - 1)[j] = SubSeq(x, i, e - 1)[j]
        BY <2>5, <3>3, <3>4, <3>5
      <3>7. \A j \in 1..Len(SubSeq(t, i, e - 1)) : j \in 1..((e - 1) - i + 1)
        BY <3>1, <3>3
      <3> QED
        BY <3>3, <3>4, <3>6, <3>7, SeqEqual
    <2> QED
      BY <2>2, <2>6, <2>7
  <1>11. ASSUME NEW i \in B
         PROVE  SubSeq(t, i + d, End(t, marks, i + d)) = SubSeq(y, i, End(y, marks, i))
    <2>1. i \in 1..(Len(y) + 1)
      BY <1>4
    <2>2. PICK e \in i..(Len(y) + 1) :
              /\ e > Len(y) \/ y[e] \in marks
              /\ \A j \in i..(e - 1) : y[j] \notin marks
              /\ End(y, marks, i) = e - 1
      BY <2>1, EndExists
    <2>3. e + d \in (i + d)..(Len(t) + 1) /\ i + d \in 1..(Len(t) + 1)
      BY <1>1, <1>2, <2>1
    <2>4. e + d > Len(t) \/ t[e + d] \in marks
      <3>1. CASE e > Len(y)
        BY <1>1, <1>2, <2>1, <3>1
      <3>2. CASE e <= Len(y)
        <4>1. e \in 1..Len(y) /\ y[e] \in marks
          BY <1>1, <2>1, <2>2, <3>2
        <4>2. e + d = d + e
          BY <1>1
        <4> QED
          BY <1>2, <4>1, <4>2
      <3> QED
        BY <1>1, <3>1, <3>2
    <2>5. \A j \in i..(e - 1) : j \in 1..Len(y) /\ t[d + j] = y[j] /\ y[j] \notin marks
      <3> TAKE j \in i..(e - 1)
      <3>1. j \in 1..Len(y)
        BY <1>1, <2>1
      <3> QED
        BY <1>2, <2>2, <3>1
    <2>6. \A j \in (i + d)..((e + d) - 1) : t[j] \notin marks /\ t[j] \in Symbols
      <3> TAKE j \in (i + d)..((e + d) - 1)
      <3>1. j - d \in i..(e - 1) /\ d + (j - d) = j
        BY <1>1, <2>1
      <3>2. t[d + (j - d)] = y[j - d] /\ y[j - d] \notin marks /\ j - d \in 1..Len(y)
        BY <2>5, <3>1
      <3> QED
        BY <1>1, <3>1, <3>2
    <2>7. End(t, marks, i + d) = (e + d) - 1
      BY <1>2, <2>3, <2>4, <2>6, EndIs
    <2>8. SubSeq(t, i + d, (e + d) - 1) = SubSeq(y, i, e - 1)
      <3>1. i \in Int /\ e - 1 \in Int /\ i + d \in Int /\ (e + d) - 1 \in Int
        BY <1>1, <2>1
      <3>2. \A j \in i..(e - 1) : y[j] \in Symbols
        BY <1>1, <2>5
      <3>3. /\ SubSeq(t, i + d, (e + d) - 1) \in Seq(Symbols)
            /\ Len(SubSeq(t, i + d, (e + d) - 1))
                 = IF i + d <= (e + d) - 1 THEN ((e + d) - 1) - (i + d) + 1 ELSE 0
            /\ \A j \in 1..(((e + d) - 1) - (i + d) + 1) :
                 SubSeq(t, i + d, (e + d) - 1)[j] = t[(i + d) + j - 1]
        BY <2>6, <3>1, SubSeqProperties
      <3>4. /\ SubSeq(y, i, e - 1) \in Seq(Symbols)
            /\ Len(SubSeq(y, i, e - 1)) = IF i <= e - 1 THEN (e - 1) - i + 1 ELSE 0
            /\ \A j \in 1..((e - 1) - i + 1) : SubSeq(y, i, e - 1)[j] = y[i + j - 1]
        BY <3>1, <3>2, SubSeqProperties
      <3>5. ASSUME NEW j \in 1..((e - 1) - i + 1)
            PROVE  SubSeq(t, i + d, (e + d) - 1)[j] = SubSeq(y, i, e - 1)[j]
        <4>1. /\ i + j - 1 \in i..(e - 1) /\ (i + d) + j - 1 = d + (i + j - 1)
              /\ j \in 1..(((e + d) - 1) - (i + d) + 1)
          BY <1>1, <2>1
        <4>2. t[d + (i + j - 1)] = y[i + j - 1]
          BY <2>5, <4>1
        <4> QED
          BY <3>3, <3>4, <4>1, <4>2
      <3>6. /\ Len(SubSeq(t, i + d, (e + d) - 1)) = Len(SubSeq(y, i, e - 1))
            /\ \A j \in 1..Len(SubSeq(t, i + d, (e + d) - 1)) : j \in 1..((e - 1) - i + 1)
        BY <1>1, <2>1, <3>3, <3>4
      <3> QED
        BY <3>3, <3>4, <3>5, <3>6, SeqEqual
    <2> QED
      BY <2>2, <2>7, <2>8
  <1> DEFINE P == Cut(t, marks, C)
             Q == Cut(x, marks, A)
             R == Cut(y, marks, B)
  <1>12. \A n \in 1..na : P[n] = Q[n]
    <2> HIDE DEF C
    <2> TAKE n \in 1..na
    <2>1. n \in 1..Cardinality(C) /\ Nth(C, n) = Nth(A, n) /\ Nth(A, n) \in A
      BY <1>6, <1>7, <1>9
    <2> QED
      BY <1>6, <1>8, <1>10, <2>1
  <1>13. \A n \in 1..nb : P[na + n] = R[n]
    <2> HIDE DEF C, na, nb
    <2> TAKE n \in 1..nb
    <2>1. na + n \in 1..Cardinality(C) /\ Nth(C, na + n) = Nth(B, n) + d /\ Nth(B, n) \in B
      BY <1>6, <1>7, <1>9
    <2> QED
      BY <1>7, <1>8, <1>11, <2>1
  <1>14. P \in Seq(Texts) /\ Q \in Seq(Texts) /\ R \in Seq(Texts)
         /\ Len(P) = na + nb /\ Len(Q) = na /\ Len(R) = nb /\ na \in Nat /\ nb \in Nat
    BY <1>6, <1>7, <1>8, <1>9
  <1> HIDE DEF P, Q, R, C, na, nb
  <1>15. P = Q \o R
    <2>1. /\ Q \o R \in Seq(Texts) /\ Len(Q \o R) = na + nb
          /\ \A n \in 1..(na + nb) : (Q \o R)[n] = IF n <= na THEN Q[n] ELSE R[n - na]
      BY <1>14, ConcatProperties
    <2>2. \A n \in 1..(na + nb) : P[n] = (Q \o R)[n]
      <3> TAKE n \in 1..(na + nb)
      <3>1. CASE n <= na
        BY <1>12, <1>14, <2>1, <3>1
      <3>2. CASE ~ (n <= na)
        <4>1. n - na \in 1..nb /\ na + (n - na) = n
          BY <1>14, <3>2
        <4>2. P[na + (n - na)] = R[n - na]
          BY <1>13, <4>1
        <4> QED
          BY <1>14, <2>1, <3>2, <4>1, <4>2
      <3> QED
        BY <3>1, <3>2
    <2> QED
      BY <1>14, <2>1, <2>2, SeqEqual
  <1> QED
    BY <1>15 DEF P, Q, R, C, d, t, Moved

-----------------------------------------------------------------------------
(* Pieces and words *)

(* A text with a mark in it is its two sides and the mark between them.    *)
AroundMark(t, x, m, y) ==
    /\ Len(x) \in Nat /\ t \in Texts /\ Len(t) = (Len(x) + 1) + Len(y)
    /\ \A i \in 1..Len(x) : t[i] = x[i]
    /\ t[Len(x) + 1] = m
    /\ \A i \in 1..Len(y) : t[(Len(x) + 1) + i] = y[i]

(* A text is finite.                                                       *)
LEMMA LengthOfText ==
    ASSUME NEW x \in Texts
    PROVE  Len(x) \in Nat
  BY DEF Texts

(* A mark between two texts has the one before it and the other after it.  *)
LEMMA MarkAround ==
    ASSUME NEW x \in Texts, NEW y \in Texts, NEW m \in Symbols
    PROVE  AroundMark(x \o <<m>> \o y, x, m, y)
  <1> DEFINE t == x \o <<m>> \o y
  <1>1. /\ x \in Seq(Symbols) /\ y \in Seq(Symbols) /\ <<m>> \in Seq(Symbols)
        /\ Len(x) \in Nat /\ Len(y) \in Nat
    BY DEF Texts
  <1>2. t \in Seq(Symbols) /\ Len(t) = (Len(x) + 1) + Len(y)
    BY <1>1
  <1>3. \A i \in 1..Len(x) : t[i] = x[i]
    BY <1>1
  <1>4. t[Len(x) + 1] = m
    BY <1>1
  <1>5. \A i \in 1..Len(y) : t[(Len(x) + 1) + i] = y[i]
    BY <1>1
  <1> HIDE DEF t
  <1>6. AroundMark(t, x, m, y)
    BY <1>1, <1>2, <1>3, <1>4, <1>5 DEF AroundMark, Texts
  <1> QED
    BY <1>6 DEF t

(* Two texts and a mark between them are a text.                           *)
LEMMA MarkInside ==
    ASSUME NEW x \in Texts, NEW y \in Texts, NEW m \in Symbols
    PROVE  /\ Len(x) \in Nat /\ Len(y) \in Nat
           /\ x \o <<m>> \o y \in Texts /\ Len(x \o <<m>> \o y) = (Len(x) + 1) + Len(y)
  <1> DEFINE t == x \o <<m>> \o y
  <1>1. AroundMark(t, x, m, y)
    BY MarkAround
  <1> HIDE DEF t
  <1>2. Len(t) = (Len(x) + 1) + Len(y) /\ t \in Texts
    BY <1>1 DEF AroundMark
  <1> QED
    BY <1>2, LengthOfText DEF t

(* Pieces start where those before the mark and those behind it start.     *)
LEMMA StartsAtMark ==
    ASSUME NEW x \in Texts, NEW y \in Texts, NEW marks, NEW m \in Symbols, m \in marks
    PROVE  Starts(x \o <<m>> \o y, marks) = Starts(x, marks) \cup Moved(Starts(y, marks), Len(x) + 1)
  <1> DEFINE t == x \o <<m>> \o y
             d == Len(x) + 1
  <1>0. AroundMark(t, x, m, y) /\ Len(x) \in Nat /\ Len(y) \in Nat
    BY MarkAround, LengthOfText
  <1> HIDE DEF t
  <1>1. /\ Len(x) \in Nat /\ Len(y) \in Nat /\ d \in Nat /\ Len(t) = d + Len(y)
        /\ \A i \in 1..Len(x) : t[i] = x[i]
        /\ t[d] = m
        /\ \A i \in 1..Len(y) : t[d + i] = y[i]
    BY <1>0 DEF AroundMark
  <1>2. ASSUME NEW i \in Starts(x, marks) PROVE i \in Starts(t, marks)
    <2>1. i \in 1..(Len(x) + 1) /\ (i = 1 \/ x[i - 1] \in marks)
      BY DEF Starts
    <2>2. i # 1 => i - 1 \in 1..Len(x)
      BY <1>1, <2>1
    <2>3. i = 1 \/ t[i - 1] \in marks
      BY <1>1, <2>1, <2>2
    <2> QED
      BY <1>1, <2>1, <2>3 DEF Starts
  <1>3. ASSUME NEW b \in Starts(y, marks) PROVE b + d \in Starts(t, marks)
    <2>1. b \in 1..(Len(y) + 1) /\ (b = 1 \/ y[b - 1] \in marks)
      BY DEF Starts
    <2>2. CASE b = 1
      <3>1. (b + d) - 1 = d /\ b + d \in 1..(Len(t) + 1)
        BY <1>1, <2>1, <2>2
      <3> QED
        BY <1>1, <3>1 DEF Starts
    <2>3. CASE b # 1
      <3>1. (b + d) - 1 = d + (b - 1) /\ b + d \in 1..(Len(t) + 1) /\ b - 1 \in 1..Len(y)
        BY <1>1, <2>1, <2>3
      <3>2. t[d + (b - 1)] = y[b - 1]
        BY <1>1, <3>1
      <3> QED
        BY <2>1, <2>3, <3>1, <3>2 DEF Starts
    <2> QED
      BY <2>2, <2>3
  <1>4. ASSUME NEW i \in Starts(t, marks)
        PROVE  i \in Starts(x, marks) \/ \E b \in Starts(y, marks) : i = b + d
    <2>1. i \in 1..(Len(t) + 1) /\ (i = 1 \/ t[i - 1] \in marks)
      BY DEF Starts
    <2>2. CASE i <= d
      <3>1. i \in 1..(Len(x) + 1)
        BY <1>1, <2>1, <2>2
      <3>2. i # 1 => i - 1 \in 1..Len(x)
        BY <1>1, <3>1
      <3>3. i = 1 \/ x[i - 1] \in marks
        BY <1>1, <2>1, <3>2
      <3> QED
        BY <3>1, <3>3 DEF Starts
    <2>3. CASE ~ (i <= d)
      <3> DEFINE b == i - d
      <3>1. b \in 1..(Len(y) + 1) /\ i = b + d
        BY <1>1, <2>1, <2>3
      <3>2. b # 1 => b - 1 \in 1..Len(y) /\ d + (b - 1) = i - 1 /\ i # 1
        BY <1>1, <2>1, <2>3
      <3> HIDE DEF b
      <3>3. b = 1 \/ y[b - 1] \in marks
        BY <1>1, <2>1, <3>2
      <3>4. b \in Starts(y, marks)
        BY <3>1, <3>3 DEF Starts
      <3> QED
        BY <3>1, <3>4
    <2> QED
      BY <2>2, <2>3
  <1> HIDE DEF d
  <1>5. Starts(t, marks) = Starts(x, marks) \cup {b + d : b \in Starts(y, marks)}
    BY <1>2, <1>3, <1>4
  <1> QED
    BY <1>5 DEF t, d, Moved

(* ... and so do words, at white space.                                    *)
LEMMA WordStartsAtBlank ==
    ASSUME NEW x \in Texts, NEW y \in Texts, NEW m \in Symbols, m \in Blank
    PROVE  WordStarts(x \o <<m>> \o y) = WordStarts(x) \cup Moved(WordStarts(y), Len(x) + 1)
  <1> DEFINE t == x \o <<m>> \o y
             d == Len(x) + 1
             SX == Starts(x, Blank)
             SY == Starts(y, Blank)
             ST == Starts(t, Blank)
  <1>0. AroundMark(t, x, m, y) /\ Len(x) \in Nat /\ Len(y) \in Nat
    BY MarkAround, LengthOfText
  <1> HIDE DEF t
  <1>1. /\ Len(x) \in Nat /\ Len(y) \in Nat /\ d \in Nat /\ d = Len(x) + 1 /\ Len(t) = d + Len(y)
        /\ \A i \in 1..Len(x) : t[i] = x[i]
        /\ t[d] = m
        /\ \A i \in 1..Len(y) : t[d + i] = y[i]
    BY <1>0 DEF AroundMark
  <1>2. ST = SX \cup {b + d : b \in SY}
    BY StartsAtMark DEF Moved, t
  <1>3. (\A i \in SX : i \in 1..(Len(x) + 1)) /\ (\A i \in SY : i \in 1..(Len(y) + 1))
    BY DEF Starts
  <1> HIDE DEF t, d, SX, SY, ST
  <1>4. ASSUME NEW i \in SX
        PROVE  (i <= Len(t) /\ t[i] \notin Blank) <=> (i <= Len(x) /\ x[i] \notin Blank)
    <2>1. CASE i <= Len(x)
      BY <1>1, <1>3, <2>1
    <2>2. CASE ~ (i <= Len(x))
      <3>1. i = d
        BY <1>1, <1>3, <2>2
      <3> QED
        BY <1>1, <2>2, <3>1
    <2> QED
      BY <2>1, <2>2
  <1>5. ASSUME NEW b \in SY
        PROVE  (b + d <= Len(t) /\ t[b + d] \notin Blank) <=> (b <= Len(y) /\ y[b] \notin Blank)
    <2>1. b + d = d + b /\ (b + d <= Len(t) <=> b <= Len(y)) /\ b \in Nat /\ b >= 1
      BY <1>1, <1>3
    <2>2. b <= Len(y) => t[d + b] = y[b]
      BY <1>1, <2>1
    <2> QED
      BY <2>1, <2>2
  <1>6. WordStarts(t) = {i \in ST : i <= Len(t) /\ t[i] \notin Blank}
        /\ WordStarts(x) = {i \in SX : i <= Len(x) /\ x[i] \notin Blank}
        /\ WordStarts(y) = {i \in SY : i <= Len(y) /\ y[i] \notin Blank}
    BY DEF WordStarts, ST, SX, SY
  <1>7. WordStarts(t) = WordStarts(x) \cup {b + d : b \in WordStarts(y)}
    <2>1. ASSUME NEW i \in WordStarts(t)
          PROVE  i \in WordStarts(x) \/ \E b \in WordStarts(y) : i = b + d
      <3>1. i \in ST /\ i <= Len(t) /\ t[i] \notin Blank
        BY <1>6
      <3>2. CASE i \in SX
        BY <1>4, <1>6, <3>1, <3>2
      <3>3. CASE i \notin SX
        <4>1. PICK b \in SY : i = b + d
          BY <1>2, <3>1, <3>3
        <4> QED
          BY <1>5, <1>6, <3>1, <4>1
      <3> QED
        BY <3>2, <3>3
    <2>2. ASSUME NEW i \in WordStarts(x) PROVE i \in WordStarts(t)
      BY <1>2, <1>4, <1>6
    <2>3. ASSUME NEW b \in WordStarts(y) PROVE b + d \in WordStarts(t)
      BY <1>2, <1>5, <1>6
    <2> QED
      BY <2>1, <2>2, <2>3
  <1> QED
    BY <1>7 DEF t, d, Moved

(* The pieces of a text with a mark in it are those before it and those    *)
(* behind.                                                                 *)
LEMMA PiecesAtMark ==
    ASSUME NEW x \in Texts, NEW y \in Texts, NEW marks, NEW m \in Symbols, m \in marks
    PROVE  Pieces(x \o <<m>> \o y, marks) = Pieces(x, marks) \o Pieces(y, marks)
  <1>1. Starts(x, marks) \in SUBSET (1..(Len(x) + 1)) /\ Starts(y, marks) \in SUBSET (1..(Len(y) + 1))
    BY DEF Starts
  <1> DEFINE A == Starts(x, marks)
             B == Starts(y, marks)
  <1>2. Cut(x \o <<m>> \o y, marks, A \cup Moved(B, Len(x) + 1))
          = Cut(x, marks, A) \o Cut(y, marks, B)
    <2> HIDE DEF A, B
    <2>1. A \in Places(x) /\ B \in Places(y)
      BY <1>1 DEF A, B, Places
    <2> QED
      BY <2>1, CutAtMark, SMTT(30)
  <1> QED
    BY <1>2, StartsAtMark, Zenon DEF Pieces

(* ... and so are its words, at white space.                               *)
LEMMA WordsAtBlank ==
    ASSUME NEW x \in Texts, NEW y \in Texts, NEW m \in Symbols, m \in Blank
    PROVE  Words(x \o <<m>> \o y) = Words(x) \o Words(y)
  <1>1. WordStarts(x) \in SUBSET (1..(Len(x) + 1)) /\ WordStarts(y) \in SUBSET (1..(Len(y) + 1))
    BY DEF WordStarts, Starts
  <1> DEFINE A == WordStarts(x)
             B == WordStarts(y)
  <1>2. Cut(x \o <<m>> \o y, Blank, A \cup Moved(B, Len(x) + 1))
          = Cut(x, Blank, A) \o Cut(y, Blank, B)
    <2> HIDE DEF A, B
    <2>1. A \in Places(x) /\ B \in Places(y)
      BY <1>1 DEF A, B, Places
    <2> QED
      BY <2>1, CutAtMark, SMTT(30)
  <1> QED
    BY <1>2, WordStartsAtBlank, Zenon DEF Words

(* A text without a mark is not cut.                                       *)
LEMMA CutWhole ==
    ASSUME NEW t \in Texts, NEW marks, \A i \in 1..Len(t) : t[i] \notin marks
    PROVE  Cut(t, marks, {1}) = <<t>>
  <1>1. Len(t) \in Nat /\ t \in Seq(Symbols)
    BY DEF Texts
  <1>2. {1} \in SUBSET (1..(Len(t) + 1))
    BY <1>1
  <1>3. Cardinality({1}) = 1
    BY FS_Singleton
  <1>4. /\ Cut(t, marks, {1}) \in Seq(Texts) /\ Len(Cut(t, marks, {1})) = 1
        /\ Nth({1}, 1) \in {1}
        /\ Cut(t, marks, {1})[1] = SubSeq(t, Nth({1}, 1), End(t, marks, Nth({1}, 1)))
    <2> DEFINE S == {1}
    <2>1. S \in SUBSET (1..(Len(t) + 1)) /\ Cardinality(S) = 1 /\ 1 \in 1..1
      BY <1>2, <1>3
    <2> HIDE DEF S
    <2>2. /\ Cut(t, marks, S) \in Seq(Texts) /\ Len(Cut(t, marks, S)) = Cardinality(S)
          /\ \A n \in 1..Cardinality(S) :
                Nth(S, n) \in S /\ Cut(t, marks, S)[n] = SubSeq(t, Nth(S, n), End(t, marks, Nth(S, n)))
      BY <2>1, CutIsTexts
    <2>3. /\ Cut(t, marks, S) \in Seq(Texts) /\ Len(Cut(t, marks, S)) = 1
          /\ Nth(S, 1) \in S
          /\ Cut(t, marks, S)[1] = SubSeq(t, Nth(S, 1), End(t, marks, Nth(S, 1)))
      BY <2>1, <2>2
    <2> QED
      BY <2>3 DEF S
  <1>5. End(t, marks, 1) = (Len(t) + 1) - 1
    <2>1. 1 \in 1..(Len(t) + 1) /\ Len(t) + 1 \in 1..(Len(t) + 1) /\ Len(t) + 1 > Len(t)
          /\ (Len(t) + 1) - 1 = Len(t)
      BY <1>1
    <2> QED
      BY <2>1, EndIs
  <1>6. Cut(t, marks, {1})[1] = t
    <2>1. Nth({1}, 1) = 1 /\ (Len(t) + 1) - 1 = Len(t)
      BY <1>1, <1>4
    <2> QED
      BY <1>1, <1>4, <1>5, <2>1, SubSeqFull
  <1>7. <<t>> \in Seq(Texts) /\ Len(<<t>>) = 1 /\ <<t>>[1] = t
    OBVIOUS
  <1> QED
    BY <1>4, <1>6, <1>7, SeqEqual

(* A text without a mark is one piece.                                     *)
LEMMA PiecesOfOne ==
    ASSUME NEW t \in Texts, NEW marks, \A i \in 1..Len(t) : t[i] \notin marks
    PROVE  Pieces(t, marks) = <<t>>
  <1>1. Len(t) \in Nat
    BY DEF Texts
  <1>2. ASSUME NEW i \in 1..(Len(t) + 1), t[i - 1] \in marks PROVE i = 1
    <2> SUFFICES ASSUME i # 1 PROVE FALSE
      OBVIOUS
    <2>1. i - 1 \in 1..Len(t)
      BY <1>1
    <2> QED
      BY <1>2, <2>1
  <1>3. Starts(t, marks) = {1}
    <2>1. 1 \in 1..(Len(t) + 1)
      BY <1>1
    <2> QED
      BY <1>2, <2>1 DEF Starts
  <1> QED
    BY <1>3, CutWhole DEF Pieces

(* A token is one word.                                                    *)
LEMMA WordsOfToken ==
    ASSUME NEW t, Token(t)
    PROVE  Words(t) = <<t>>
  <1>1. t \in Texts /\ Len(t) \in Nat /\ Len(t) >= 1 /\ \A i \in 1..Len(t) : t[i] \notin Blank
    BY DEF Token, Texts
  <1>2. ASSUME NEW i \in 1..(Len(t) + 1), t[i - 1] \in Blank PROVE i = 1
    <2> SUFFICES ASSUME i # 1 PROVE FALSE
      OBVIOUS
    <2>1. i - 1 \in 1..Len(t)
      BY <1>1
    <2> QED
      BY <1>1, <1>2, <2>1
  <1>3. WordStarts(t) = {1}
    <2>1. 1 \in 1..(Len(t) + 1) /\ 1 \in 1..Len(t) /\ 1 <= Len(t)
      BY <1>1
    <2>2. t[1] \notin Blank
      BY <1>1, <2>1
    <2> QED
      BY <1>2, <2>1, <2>2 DEF WordStarts, Starts
  <1> QED
    BY <1>1, <1>3, CutWhole DEF Words

(* An empty text has no words.                                             *)
LEMMA WordsOfNothing == Words(<<>>) = <<>>
  <1>1. <<>> \in Texts /\ Len(<<>>) = 0
    BY DEF Texts
  <1>2. WordStarts(<<>>) = {}
    BY DEF WordStarts, Starts
  <1>3. Words(<<>>) \in Seq(Texts) /\ Len(Words(<<>>)) = Cardinality({})
    <2>1. {} \in SUBSET (1..(Len(<<>>) + 1))
      OBVIOUS
    <2>2. Cut(<<>>, Blank, {}) \in Seq(Texts) /\ Len(Cut(<<>>, Blank, {})) = Cardinality({})
      BY <1>1, <2>1, CutIsTexts
    <2> QED
      BY <1>2, <2>2 DEF Words
  <1>4. Cardinality({}) = 0
    BY FS_EmptySet
  <1> QED
    BY <1>3, <1>4, EmptySeq

(* The words of a text are texts.                                          *)
LEMMA WordsAreTexts ==
    ASSUME NEW t \in Texts
    PROVE  /\ Words(t) \in Seq(Texts)
           /\ Len(Words(t)) = Cardinality(WordStarts(t)) /\ IsFiniteSet(WordStarts(t))
  <1>1. WordStarts(t) \in SUBSET (1..(Len(t) + 1))
    BY DEF WordStarts, Starts
  <1> QED
    BY <1>1, CutIsTexts DEF Words

(* A text of one word is a token with white space around it.               *)
LEMMA OneWordIsToken ==
    ASSUME NEW t \in Texts, Len(Words(t)) = 1
    PROVE  Token(TrimSpace(t))
  <1>1. Len(t) \in Nat /\ DOMAIN t = 1..Len(t)
    BY DEF Texts
  <1>2. PICK s : WordStarts(t) = {s}
    BY WordsAreTexts, FS_Singleton
  <1>3. s \in 1..Len(t) /\ t[s] \notin Blank
    <2>1. s \in WordStarts(t)
      BY <1>2
    <2> QED
      BY <1>1, <2>1 DEF WordStarts, Starts
  <1> DEFINE kept == {i \in DOMAIN t : t[i] \notin Blank}
             a == Min(kept)
             b == Max(kept)
  <1>4. kept # {} /\ kept \in SUBSET Nat /\ kept \in SUBSET (0..Len(t))
    BY <1>1, <1>3
  <1>5. a \in kept /\ b \in kept /\ (\A i \in kept : a <= i /\ i <= b)
    BY <1>1, <1>4, MinOfNumbers, MaxOfNumbers
  <1>6. TrimSpace(t) = SubSeq(t, a, b)
    BY <1>4 DEF TrimSpace
  <1> HIDE DEF a, b
  <1>7. a \in 1..Len(t) /\ b \in 1..Len(t) /\ a <= b
    BY <1>1, <1>5
  <1>8. \A k \in a..b : t[k] \notin Blank
    <2> SUFFICES ASSUME NEW k \in a..b, t[k] \in Blank PROVE FALSE
      OBVIOUS
    <2>1. a \in WordStarts(t)
      <3>1. a # 1 => t[a - 1] \in Blank
        <4> SUFFICES ASSUME a # 1, t[a - 1] \notin Blank PROVE FALSE
          OBVIOUS
        <4>1. a - 1 \in kept
          BY <1>1, <1>7
        <4> QED
          BY <1>5, <1>7, <4>1
      <3> QED
        BY <1>1, <1>5, <1>7, <3>1 DEF WordStarts, Starts
    <2> DEFINE later == {i \in kept : k < i}
    <2>2. k \in 1..Len(t) /\ k < b
      <3>1. k # b
        BY <1>5
      <3> QED
        BY <1>7, <3>1
    <2>3. later # {} /\ later \in SUBSET Nat
      BY <1>4, <1>5, <2>2
    <2> DEFINE c == Min(later)
    <2>4. c \in later /\ \A i \in later : c <= i
      BY <2>3, MinOfNumbers
    <2> HIDE DEF c
    <2>5. c \in 1..Len(t) /\ k < c /\ t[c] \notin Blank
      BY <1>1, <2>4
    <2>6. t[c - 1] \in Blank
      <3> SUFFICES ASSUME t[c - 1] \notin Blank PROVE FALSE
        OBVIOUS
      <3>1. c - 1 # k
        OBVIOUS
      <3>2. c - 1 \in 1..Len(t) /\ k < c - 1
        BY <1>1, <2>2, <2>5, <3>1
      <3>3. c - 1 \in later
        BY <1>1, <3>2
      <3>4. c <= c - 1
        BY <2>4, <3>3
      <3> QED
        BY <2>5, <3>4
    <2>7. c \in WordStarts(t)
      BY <1>1, <2>5, <2>6 DEF WordStarts, Starts
    <2> QED
      BY <1>2, <1>7, <2>1, <2>5, <2>7
  <1>9. /\ SubSeq(t, a, b) \in Seq(Symbols)
        /\ Len(SubSeq(t, a, b)) = (b - a) + 1
        /\ \A i \in 1..((b - a) + 1) : SubSeq(t, a, b)[i] = t[(a + i) - 1]
    <2>1. a \in Int /\ b \in Int /\ a <= b /\ \A i \in a..b : t[i] \in Symbols
      BY <1>1, <1>7 DEF Texts
    <2>2. /\ SubSeq(t, a, b) \in Seq(Symbols)
          /\ Len(SubSeq(t, a, b)) = IF a <= b THEN b - a + 1 ELSE 0
          /\ \A i \in 1..(b - a + 1) : SubSeq(t, a, b)[i] = t[a + i - 1]
      BY <2>1, SubSeqProperties
    <2> QED
      BY <2>1, <2>2
  <1>10. \A i \in 1..((b - a) + 1) : SubSeq(t, a, b)[i] \notin Blank
    <2> TAKE i \in 1..((b - a) + 1)
    <2>1. (a + i) - 1 \in a..b
      BY <1>7
    <2> QED
      BY <1>8, <1>9, <2>1
  <1>11. SubSeq(t, a, b) # <<>>
    BY <1>7, <1>9
  <1> QED
    BY <1>6, <1>9, <1>10, <1>11 DEF Token, Texts

-----------------------------------------------------------------------------
(* What is put together is taken apart again *)

Behind(before, mark, text) ==
    IF text = <<>> THEN before ELSE IF before = <<>> THEN text ELSE before \o <<mark>> \o text

Joins(texts, mark, join, m) ==
    join = [n \in 0..m |-> IF n = 0 THEN <<>>
                           ELSE IF texts[n] = <<>> THEN join[n - 1]
                           ELSE IF join[n - 1] = <<>> THEN texts[n]
                           ELSE join[n - 1] \o <<mark>> \o texts[n]]

(* The recursion of Joined has a solution for every length.                *)
LEMMA JoinsExist ==
    ASSUME NEW texts, NEW mark, NEW k \in Nat
    PROVE  \E join : Joins(texts, mark, join, k)
  <1> DEFINE S == {m \in Nat : ~ \E join : Joins(texts, mark, join, m)}
  <1>1. SUFFICES ASSUME S # {} PROVE FALSE
    OBVIOUS
  <1>2. PICK m \in S : \A y \in S : m <= y
    BY <1>1, LeastNumber
  <1>3. m \in Nat /\ ~ \E join : Joins(texts, mark, join, m)
    OBVIOUS
  <1>4. m # 0
    <2>1. Joins(texts, mark, [n \in 0..0 |-> <<>>], 0)
      BY DEF Joins
    <2> QED
      BY <1>3, <2>1
  <1>5. m - 1 \in Nat /\ m - 1 \notin S
    BY <1>2, <1>3, <1>4
  <1>6. PICK old : Joins(texts, mark, old, m - 1)
    BY <1>5
  <1> DEFINE new == [n \in 0..m |-> IF n = m THEN Behind(old[m - 1], mark, texts[m]) ELSE old[n]]
  <1> HIDE DEF S
  <1>7. Joins(texts, mark, new, m)
    <2>1. \A n \in 0..(m - 1) : new[n] = old[n]
      BY <1>3
    <2>2. \A n \in 0..m : new[n] = IF n = 0 THEN <<>>
                           ELSE IF texts[n] = <<>> THEN new[n - 1]
                           ELSE IF new[n - 1] = <<>> THEN texts[n]
                           ELSE new[n - 1] \o <<mark>> \o texts[n]
      <3> TAKE n \in 0..m
      <3>1. CASE n = m
        <4>1. new[n] = Behind(old[m - 1], mark, texts[m]) /\ new[m - 1] = old[m - 1]
          BY <1>3, <1>4, <2>1, <3>1
        <4> HIDE DEF new
        <4> QED
          BY <1>4, <3>1, <4>1 DEF Behind
      <3>2. CASE n # m
        <4>1. n \in 0..(m - 1) /\ (n # 0 => n - 1 \in 0..(m - 1))
          BY <1>3, <3>2
        <4>2. new[n] = old[n] /\ (n # 0 => new[n - 1] = old[n - 1])
          BY <2>1, <4>1
        <4> HIDE DEF new
        <4>3. old[n] = IF n = 0 THEN <<>>
                           ELSE IF texts[n] = <<>> THEN old[n - 1]
                           ELSE IF old[n - 1] = <<>> THEN texts[n]
                           ELSE old[n - 1] \o <<mark>> \o texts[n]
          BY <1>6, <4>1 DEF Joins
        <4> QED
          BY <4>1, <4>2, <4>3
      <3> QED
        BY <3>1, <3>2
    <2>3. new = [n \in 0..m |-> new[n]]
      OBVIOUS
    <2> HIDE DEF new
    <2> QED
      BY <2>2, <2>3 DEF Joins
  <1> QED
    BY <1>3, <1>7

(* So Joined is what its recursion says.                                   *)
LEMMA JoinedIs ==
    ASSUME NEW texts, Len(texts) \in Nat, NEW mark
    PROVE  \E join : /\ join[0] = <<>>
                     /\ \A n \in 1..Len(texts) : join[n] = Behind(join[n - 1], mark, texts[n])
                     /\ Joined(texts, mark) = join[Len(texts)]
  <1> DEFINE J == CHOOSE join : Joins(texts, mark, join, Len(texts))
  <1>1. Joins(texts, mark, J, Len(texts))
    BY JoinsExist, Zenon
  <1>2. Joined(texts, mark) = J[Len(texts)]
    BY Zenon DEF Joined, Joins
  <1> HIDE DEF J
  <1>3. J[0] = <<>>
    BY <1>1 DEF Joins
  <1>4. \A n \in 1..Len(texts) : J[n] = Behind(J[n - 1], mark, texts[n])
    <2> TAKE n \in 1..Len(texts)
    <2>1. n \in 0..Len(texts) /\ n # 0
      OBVIOUS
    <2>2. J[n] = IF n = 0 THEN <<>>
                           ELSE IF texts[n] = <<>> THEN J[n - 1]
                           ELSE IF J[n - 1] = <<>> THEN texts[n]
                           ELSE J[n - 1] \o <<mark>> \o texts[n]
      BY <1>1, <2>1 DEF Joins
    <2> QED
      BY <2>1, <2>2 DEF Behind
  <1> QED
    BY <1>2, <1>3, <1>4

(* One text is joined to itself.                                           *)
LEMMA JoinedOfOne ==
    ASSUME NEW a, NEW mark
    PROVE  Joined(<<a>>, mark) = a
  <1>1. Len(<<a>>) = 1 /\ <<a>>[1] = a /\ 1 - 1 = 0
    OBVIOUS
  <1>2. PICK join : /\ join[0] = <<>>
                    /\ \A n \in 1..1 : join[n] = Behind(join[n - 1], mark, <<a>>[n])
                    /\ Joined(<<a>>, mark) = join[1]
    BY <1>1, JoinedIs
  <1> QED
    BY <1>1, <1>2 DEF Behind

(* Two texts are joined with one mark.                                     *)
LEMMA JoinedOfTwo ==
    ASSUME NEW a, NEW b, NEW mark, a # <<>>, b # <<>>
    PROVE  Joined(<<a, b>>, mark) = a \o <<mark>> \o b
  <1> DEFINE t == <<a, b>>
  <1>1. Len(t) = 2 /\ t[1] = a /\ t[2] = b /\ Len(t) \in Nat
    OBVIOUS
  <1> HIDE DEF t
  <1>2. PICK join : /\ join[0] = <<>>
                    /\ \A n \in 1..Len(t) : join[n] = Behind(join[n - 1], mark, t[n])
                    /\ Joined(t, mark) = join[Len(t)]
    BY <1>1, JoinedIs
  <1>3. join[1] = Behind(join[0], mark, t[1]) /\ join[2] = Behind(join[1], mark, t[2])
    <2>1. 1 \in 1..Len(t) /\ 2 \in 1..Len(t) /\ 1 - 1 = 0 /\ 2 - 1 = 1
      BY <1>1
    <2> QED
      BY <1>2, <2>1
  <1>4. join[1] = a
    BY <1>1, <1>2, <1>3 DEF Behind
  <1>5. join[2] = a \o <<mark>> \o b
    BY <1>1, <1>3, <1>4 DEF Behind
  <1> QED
    BY <1>1, <1>2, <1>5 DEF t

(* ... and three with two.                                                 *)
LEMMA JoinedOfThree ==
    ASSUME NEW a, NEW b, NEW c, NEW mark, a # <<>>
    PROVE  Joined(<<a, b, c>>, mark) = Behind(Behind(a, mark, b), mark, c)
  <1> DEFINE t == <<a, b, c>>
  <1>1. Len(t) = 3 /\ t[1] = a /\ t[2] = b /\ t[3] = c /\ Len(t) \in Nat
    OBVIOUS
  <1> HIDE DEF t
  <1>2. PICK join : /\ join[0] = <<>>
                    /\ \A n \in 1..Len(t) : join[n] = Behind(join[n - 1], mark, t[n])
                    /\ Joined(t, mark) = join[Len(t)]
    BY <1>1, JoinedIs
  <1>3. /\ join[1] = Behind(join[0], mark, t[1]) /\ join[2] = Behind(join[1], mark, t[2])
        /\ join[3] = Behind(join[2], mark, t[3])
    <2>1. /\ 1 \in 1..Len(t) /\ 2 \in 1..Len(t) /\ 3 \in 1..Len(t)
          /\ 1 - 1 = 0 /\ 2 - 1 = 1 /\ 3 - 1 = 2
      BY <1>1
    <2> QED
      BY <1>2, <2>1
  <1>4. join[1] = a
    BY <1>1, <1>2, <1>3 DEF Behind
  <1>5. join[3] = Behind(Behind(a, mark, b), mark, c)
    BY <1>1, <1>3, <1>4
  <1> QED
    BY <1>1, <1>2, <1>5 DEF t

(* A comma is no white space.                                              *)
LEMMA CommaIsSymbol ==
    /\ "comma" \in Symbols /\ "space" \in Symbols
    /\ "comma" \notin Blank /\ "space" \in Blank
  BY DEF Symbols, Literals, Blank

(* What is joined by commas: a token that no comma ends, whose pieces are  *)
(* what was joined.                                                        *)
LEMMA JoinedOfList ==
    ASSUME NEW mark \in Symbols, mark \notin Blank, NEW list \in Seq(Texts), list # <<>>,
           \A i \in 1..Len(list) : Token(list[i]) /\ \A k \in 1..Len(list[i]) : list[i][k] # mark
    PROVE  /\ Token(Joined(list, mark))
           /\ Joined(list, mark)[Len(Joined(list, mark))] # mark
           /\ Pieces(Joined(list, mark), {mark}) = list
  <1>1. Len(list) \in Nat /\ Len(list) >= 1 /\ \A i \in 1..Len(list) : list[i] \in Texts
    OBVIOUS
  <1>2. PICK join : /\ join[0] = <<>>
                    /\ \A n \in 1..Len(list) : join[n] = Behind(join[n - 1], mark, list[n])
                    /\ Joined(list, mark) = join[Len(list)]
    BY <1>1, JoinedIs
  <1> DEFINE Good(n) == /\ Token(join[n]) /\ join[n][Len(join[n])] # mark
                        /\ Pieces(join[n], {mark}) \in Seq(Texts) /\ Len(Pieces(join[n], {mark})) = n
                        /\ \A i \in 1..n : Pieces(join[n], {mark})[i] = list[i]
             S == {n \in Nat : n \in 1..Len(list) /\ ~Good(n)}
  <1>3. ASSUME NEW n \in 1..Len(list)
        PROVE  /\ Pieces(list[n], {mark}) = <<list[n]>> /\ list[n] \in Texts /\ list[n] # <<>>
               /\ Len(list[n]) \in Nat /\ Len(list[n]) >= 1
               /\ \A k \in 1..Len(list[n]) : list[n][k] \notin Blank /\ list[n][k] # mark
    <2>1. list[n] \in Texts /\ \A k \in 1..Len(list[n]) : list[n][k] \notin {mark}
      BY <1>1
    <2>2. Pieces(list[n], {mark}) = <<list[n]>>
      BY <2>1, PiecesOfOne
    <2>3. Len(list[n]) \in Nat /\ list[n] # <<>> /\ Len(list[n]) >= 1
      BY <2>1 DEF Token, Texts
    <2> QED
      BY <2>1, <2>2, <2>3 DEF Token
  <1>4. Good(1)
    <2>1. 1 \in 1..Len(list) /\ 1 - 1 = 0
      BY <1>1
    <2>2. join[1] = list[1]
      BY <1>2, <2>1 DEF Behind
    <2>3. /\ Pieces(list[1], {mark}) = <<list[1]>> /\ list[1] \in Texts /\ list[1][Len(list[1])] # mark
      <3>1. Len(list[1]) \in 1..Len(list[1])
        BY <1>3, <2>1
      <3> QED
        BY <1>3, <2>1, <3>1
    <2>4. <<list[1]>> \in Seq(Texts) /\ Len(<<list[1]>>) = 1 /\ \A i \in 1..1 : <<list[1]>>[i] = list[i]
      BY <2>3
    <2> QED
      BY <2>1, <2>2, <2>3, <2>4
  <1>5. ASSUME NEW n \in 1..Len(list), n # 1, Good(n - 1)
        PROVE  Good(n)
    <2>1. n - 1 \in Nat /\ (n - 1) + 1 = n /\ n - 1 >= 1
      BY <1>1, <1>5
    <2> DEFINE x == join[n - 1]
               y == list[n]
    <2>2. /\ x \in Texts /\ x # <<>> /\ (\A i \in 1..Len(x) : x[i] \notin Blank)
          /\ Pieces(x, {mark}) \in Seq(Texts) /\ Len(Pieces(x, {mark})) = n - 1
          /\ \A i \in 1..(n - 1) : Pieces(x, {mark})[i] = list[i]
      BY <1>5 DEF Token
    <2>3. /\ y \in Texts /\ y # <<>> /\ Pieces(y, {mark}) = <<y>> /\ Len(y) \in Nat /\ Len(y) >= 1
          /\ \A k \in 1..Len(y) : y[k] \notin Blank /\ y[k] # mark
      BY <1>3
    <2>4. join[n] = Behind(x, mark, y)
      BY <1>2
    <2> HIDE DEF x, y
    <2>5. join[n] = x \o <<mark>> \o y
      BY <2>2, <2>3, <2>4 DEF Behind
    <2>6. /\ Len(x) \in Nat /\ x \o <<mark>> \o y \in Texts
          /\ Len(x \o <<mark>> \o y) = (Len(x) + 1) + Len(y)
          /\ \A i \in 1..Len(x) : (x \o <<mark>> \o y)[i] = x[i]
          /\ (x \o <<mark>> \o y)[Len(x) + 1] = mark
          /\ \A i \in 1..Len(y) : (x \o <<mark>> \o y)[(Len(x) + 1) + i] = y[i]
      <3>1. mark \in Symbols /\ x \in Texts /\ y \in Texts
        BY <2>2, <2>3
      <3>2. AroundMark(x \o <<mark>> \o y, x, mark, y)
        BY <3>1, MarkAround
      <3> DEFINE t == x \o <<mark>> \o y
      <3> HIDE DEF t
      <3>3. AroundMark(t, x, mark, y)
        BY <3>2 DEF t
      <3>4. /\ Len(x) \in Nat /\ t \in Texts /\ Len(t) = (Len(x) + 1) + Len(y)
            /\ \A i \in 1..Len(x) : t[i] = x[i]
            /\ t[Len(x) + 1] = mark
            /\ \A i \in 1..Len(y) : t[(Len(x) + 1) + i] = y[i]
        BY <3>3 DEF AroundMark
      <3> QED
        BY <3>4 DEF t
    <2>7. Pieces(x \o <<mark>> \o y, {mark}) = Pieces(x, {mark}) \o <<y>>
      <3>1. mark \in {mark} /\ mark \in Symbols /\ x \in Texts /\ y \in Texts
        BY <2>2, <2>3
      <3> DEFINE marks == {mark}
      <3> HIDE DEF marks
      <3>2. Pieces(x \o <<mark>> \o y, marks) = Pieces(x, marks) \o Pieces(y, marks)
        <4>1. mark \in marks
          BY DEF marks
        <4> QED
          BY <3>1, <4>1, PiecesAtMark
      <3>3. Pieces(x \o <<mark>> \o y, {mark}) = Pieces(x, {mark}) \o Pieces(y, {mark})
        BY <3>2 DEF marks
      <3> QED
        BY <2>3, <3>3
    <2> DEFINE t == x \o <<mark>> \o y
    <2> HIDE DEF t
    <2>8. Token(t) /\ t[Len(t)] # mark
      <3>1. Len(t) = (Len(x) + 1) + Len(y) /\ Len(x) \in Nat /\ t \in Texts
        BY <2>6 DEF t
      <3>2. \A i \in 1..Len(t) : t[i] \notin Blank
        <4> TAKE i \in 1..Len(t)
        <4>1. CASE i \in 1..Len(x)
          BY <2>2, <2>6, <4>1 DEF t
        <4>2. CASE i = Len(x) + 1
          BY <2>6, <4>2, CommaIsSymbol DEF t
        <4>3. CASE i > Len(x) + 1
          <5>1. i - (Len(x) + 1) \in 1..Len(y) /\ (Len(x) + 1) + (i - (Len(x) + 1)) = i
            BY <2>3, <3>1, <4>3
          <5> QED
            BY <2>3, <2>6, <5>1 DEF t
        <4> QED
          BY <3>1, <4>1, <4>2, <4>3
      <3>3. t[Len(t)] = y[Len(y)] /\ Len(y) \in 1..Len(y)
        BY <2>3, <2>6, <3>1 DEF t
      <3>4. t # <<>>
        BY <2>3, <3>1
      <3> QED
        BY <2>3, <3>1, <3>2, <3>3, <3>4 DEF Token
    <2>9. /\ Pieces(t, {mark}) \in Seq(Texts) /\ Len(Pieces(t, {mark})) = n
          /\ \A i \in 1..n : Pieces(t, {mark})[i] = list[i]
      <3> DEFINE p == Pieces(x, {mark})
      <3>1. p \in Seq(Texts) /\ Len(p) = n - 1 /\ \A i \in 1..(n - 1) : p[i] = list[i]
        BY <2>2
      <3>2. Pieces(t, {mark}) = p \o <<y>> /\ y \in Texts /\ y = list[n]
        BY <2>3, <2>7 DEF t, y
      <3> HIDE DEF p
      <3>3. p \o <<y>> \in Seq(Texts) /\ Len(p \o <<y>>) = n
        BY <2>1, <3>1, <3>2
      <3>4. \A i \in 1..n : (p \o <<y>>)[i] = list[i]
        <4> TAKE i \in 1..n
        <4>1. CASE i = n
          BY <2>1, <3>1, <3>2, <4>1
        <4>2. CASE i # n
          <5>1. i \in 1..(n - 1)
            BY <2>1, <4>2
          <5> QED
            BY <2>1, <3>1, <3>2, <5>1
        <4> QED
          BY <4>1, <4>2
      <3> QED
        BY <3>2, <3>3, <3>4
    <2> QED
      BY <2>5, <2>8, <2>9 DEF t
  <1> HIDE DEF Good
  <1>6. S = {}
    <2> SUFFICES ASSUME S # {} PROVE FALSE
      OBVIOUS
    <2>1. PICK n \in S : \A y \in S : n <= y
      <3>1. S \in SUBSET Nat
        OBVIOUS
      <3> QED
        BY <3>1, LeastNumber
    <2>2. n \in 1..Len(list) /\ ~Good(n)
      OBVIOUS
    <2>3. n # 1
      BY <1>4, <2>2
    <2>4. n - 1 \in 1..Len(list) /\ n - 1 \in Nat /\ ~ (n <= n - 1)
      BY <1>1, <2>2, <2>3
    <2>5. Good(n - 1)
      BY <2>1, <2>4
    <2> QED
      BY <1>5, <2>2, <2>3, <2>5
  <1>7. Good(Len(list))
    <2>1. Len(list) \in 1..Len(list)
      BY <1>1
    <2> QED
      BY <1>1, <1>6, <2>1
  <1> DEFINE J == Joined(list, mark)
  <1>8. /\ Token(J) /\ J[Len(J)] # mark
        /\ Pieces(J, {mark}) \in Seq(Texts) /\ Len(Pieces(J, {mark})) = Len(list)
        /\ \A i \in 1..Len(list) : Pieces(J, {mark})[i] = list[i]
    BY <1>2, <1>7 DEF Good
  <1> HIDE DEF J
  <1>9. Pieces(J, {mark}) = list
    BY <1>8, SeqEqual
  <1> QED
    BY <1>8, <1>9 DEF J

-----------------------------------------------------------------------------
(* The message that the gateway puts together *)

(* What a person or a model writes is a text.                              *)
LEMMA TextsGrow ==
    ASSUME NEW s \in Seq(STRING)
    PROVE  s \in Texts
  <1>1. \A i \in 1..Len(s) : s[i] \in Symbols
    BY DEF Symbols
  <1>2. Len(s) \in Nat /\ s \in [1..Len(s) -> Symbols]
    BY <1>1
  <1> QED
    BY <1>2, FunctionIsSequence DEF Texts

(* One symbol that is no white space is a token.                           *)
LEMMA OneSymbol ==
    ASSUME NEW m \in Symbols, m \notin Blank
    PROVE  Token(<<m>>)
  BY DEF Token, Texts

(* The tail of a sequence that begins with one more.                       *)
LEMMA TailBehindOne ==
    ASSUME NEW S, NEW x \in S, NEW s \in Seq(S)
    PROVE  Tail(<<x>> \o s) = s
  OBVIOUS

(* The name of a command is no white space.                                *)
LEMMA CommandIsSymbol == "command" \in Symbols /\ "command" \notin Blank
  BY DEF Symbols, Literals, Blank

(* A token before white space is split off.                                *)
LEMMA SplitAtBlank ==
    ASSUME NEW x, Token(x), NEW y \in Texts, NEW m \in Symbols, m \in Blank
    PROVE  SplitToken(x \o <<m>> \o y) = <<x, y>>
  <1> DEFINE t == x \o <<m>> \o y
  <1>1. /\ x \in Texts /\ Len(x) \in Nat /\ Len(y) \in Nat /\ Len(x) >= 1
        /\ \A i \in 1..Len(x) : x[i] \notin Blank
    BY DEF Token, Texts
  <1>2. /\ t \in Texts /\ Len(t) = (Len(x) + 1) + Len(y)
        /\ \A i \in 1..Len(x) : t[i] = x[i]
        /\ t[Len(x) + 1] = m
        /\ \A i \in 1..Len(y) : t[(Len(x) + 1) + i] = y[i]
    <2>1. AroundMark(t, x, m, y)
      BY <1>1, MarkAround
    <2> HIDE DEF t
    <2> QED
      BY <2>1 DEF AroundMark
  <1> HIDE DEF t
  <1>3. End(t, Blank, 1) = (Len(x) + 1) - 1
    <2>1. /\ 1 \in 1..(Len(t) + 1) /\ Len(x) + 1 \in 1..(Len(t) + 1) /\ t[Len(x) + 1] \in Blank
          /\ \A j \in 1..((Len(x) + 1) - 1) : t[j] \notin Blank
      BY <1>1, <1>2
    <2> QED
      BY <1>2, <2>1, EndIs
  <1>4. SplitToken(t) = <<SubSeq(t, 1, Len(x)), SubSeq(t, Len(x) + 2, Len(t))>>
    <2>1. End(t, Blank, 1) = Len(x)
      BY <1>1, <1>3
    <2> QED
      BY <2>1 DEF SplitToken
  <1>5. SubSeq(t, 1, Len(x)) = x
    <2>1. \A i \in 1..Len(x) : t[i] \in Symbols
      BY <1>1, <1>2 DEF Texts
    <2>2. /\ SubSeq(t, 1, Len(x)) \in Seq(Symbols)
          /\ Len(SubSeq(t, 1, Len(x))) = IF 1 <= Len(x) THEN Len(x) - 1 + 1 ELSE 0
          /\ \A i \in 1..(Len(x) - 1 + 1) : SubSeq(t, 1, Len(x))[i] = t[1 + i - 1]
      BY <1>1, <2>1, SubSeqProperties
    <2>3. Len(SubSeq(t, 1, Len(x))) = Len(x) /\ \A i \in 1..Len(x) : SubSeq(t, 1, Len(x))[i] = x[i]
      <3>1. Len(x) - 1 + 1 = Len(x) /\ \A i \in 1..Len(x) : 1 + i - 1 = i
        BY <1>1
      <3> QED
        BY <1>1, <1>2, <2>2, <3>1
    <2>4. x \in Seq(Symbols)
      BY <1>1 DEF Texts
    <2> QED
      BY <2>2, <2>3, <2>4, SeqEqual
  <1>6. SubSeq(t, Len(x) + 2, Len(t)) = y
    <2> DEFINE a == Len(x) + 2
               b == Len(t)
               s == SubSeq(t, a, b)
    <2>1. a \in Int /\ b \in Int /\ a \in Nat /\ a = (Len(x) + 1) + 1 /\ b = (Len(x) + 1) + Len(y)
          /\ (\A i \in a..b : t[i] \in Symbols)
      <3>1. \A i \in 1..Len(t) : t[i] \in Symbols
        BY <1>2 DEF Texts
      <3> QED
        BY <1>1, <1>2, <3>1
    <2>2. /\ s \in Seq(Symbols)
          /\ Len(s) = IF a <= b THEN b - a + 1 ELSE 0
          /\ \A i \in 1..(b - a + 1) : s[i] = t[a + i - 1]
      <3> HIDE DEF a, b
      <3> QED
        BY <2>1, SubSeqProperties
    <2> HIDE DEF a, b, s
    <2>3. Len(s) = Len(y) /\ b - a + 1 = Len(y)
      BY <1>1, <2>1, <2>2
    <2>4. \A i \in 1..Len(y) : s[i] = y[i]
      <3> TAKE i \in 1..Len(y)
      <3>1. a + i - 1 = (Len(x) + 1) + i
        BY <1>1, <2>1
      <3>2. s[i] = t[(Len(x) + 1) + i]
        BY <2>2, <2>3, <3>1
      <3> QED
        BY <1>2, <3>2
    <2>5. y \in Seq(Symbols)
      BY DEF Texts
    <2>6. s = y
      BY <2>2, <2>3, <2>4, <2>5, SeqEqual
    <2> QED
      BY <2>6 DEF s, a, b
  <1> QED
    BY <1>4, <1>5, <1>6 DEF t

(* A token alone has nothing behind it.                                    *)
LEMMA SplitWhole ==
    ASSUME NEW x, Token(x)
    PROVE  SplitToken(x) = <<x, <<>> >>
  <1>1. x \in Texts /\ x \in Seq(Symbols) /\ Len(x) \in Nat /\ \A i \in 1..Len(x) : x[i] \notin Blank
    BY DEF Token, Texts
  <1>2. End(x, Blank, 1) = (Len(x) + 1) - 1
    <2>1. /\ 1 \in 1..(Len(x) + 1) /\ Len(x) + 1 \in 1..(Len(x) + 1) /\ Len(x) + 1 > Len(x)
          /\ \A j \in 1..((Len(x) + 1) - 1) : x[j] \notin Blank
      BY <1>1
    <2> QED
      BY <1>1, <2>1, EndIs
  <1>3. SplitToken(x) = <<SubSeq(x, 1, Len(x)), SubSeq(x, Len(x) + 2, Len(x))>>
    <2>1. End(x, Blank, 1) = Len(x)
      BY <1>1, <1>2
    <2> QED
      BY <2>1 DEF SplitToken
  <1>4. SubSeq(x, 1, Len(x)) = x
    BY <1>1, SubSeqFull
  <1>5. SubSeq(x, Len(x) + 2, Len(x)) = <<>>
    BY <1>1
  <1> QED
    BY <1>3, <1>4, <1>5

(* The message of a neat tail has the words of the tail as its arguments.  *)
LEMMA MessageIs ==
    ASSUME NEW t, Neat(t)
    PROVE  Arguments(Message(t)) = Words(t) /\ CommandBody(Message(t)) = t
  <1> DEFINE c == <<"command">>
  <1>1. t \in Texts /\ Words(t) \in Seq(Texts) /\ "space" \in Symbols /\ "space" \in Blank
    BY WordsAreTexts, CommaIsSymbol DEF Neat
  <1>2. Token(c) /\ c \in Texts /\ Words(c) = <<c>>
    <2>1. Token(c)
      BY OneSymbol, CommandIsSymbol
    <2> HIDE DEF c
    <2> QED
      BY <2>1, WordsOfToken DEF Token
  <1>3. CASE t = <<>>
    <2>1. Message(t) = c
      BY <1>3 DEF Message
    <2> HIDE DEF c
    <2>2. Words(c) = <<c>> /\ Tail(<<c>>) = <<>> /\ Words(t) = <<>>
      BY <1>2, <1>3, WordsOfNothing
    <2>3. CommandBody(c) = TrimSpace(<<>>)
      BY <1>2, SplitWhole DEF CommandBody
    <2> QED
      BY <1>3, <2>1, <2>2, <2>3, NeatStays DEF Arguments
  <1>4. CASE t # <<>>
    <2>1. Message(t) = c \o <<"space">> \o t
      <3>1. <<"command", "space">> = c \o <<"space">>
        OBVIOUS
      <3> QED
        BY <1>4, <3>1 DEF Message
    <2> DEFINE m == "space"
    <2>2. Message(t) = c \o <<m>> \o t /\ m \in Symbols /\ m \in Blank
      BY <1>1, <2>1
    <2> HIDE DEF c, m
    <2>3. Words(Message(t)) = <<c>> \o Words(t)
      BY <1>1, <1>2, <2>2, WordsAtBlank
    <2>4. Tail(<<c>> \o Words(t)) = Words(t)
      BY <1>1, <1>2, TailBehindOne
    <2>5. SplitToken(Message(t)) = <<c, t>>
      BY <1>1, <1>2, <2>2, SplitAtBlank
    <2> QED
      BY <2>3, <2>4, <2>5, NeatStays DEF Arguments, CommandBody
  <1> QED
    BY <1>3, <1>4

(* A neat text that is not empty has words.                                *)
LEMMA NeatHasWords ==
    ASSUME NEW t, Neat(t), t # <<>>
    PROVE  Words(t) # <<>>
  <1>1. t \in Texts /\ Len(t) \in Nat /\ Len(t) >= 1 /\ t[1] \notin Blank
    BY DEF Neat, Texts
  <1>2. 1 \in WordStarts(t)
    BY <1>1 DEF WordStarts, Starts
  <1>3. Cardinality(WordStarts(t)) # 0
    BY <1>1, <1>2, WordsAreTexts, FS_EmptySet
  <1> QED
    BY <1>1, <1>3, WordsAreTexts

-----------------------------------------------------------------------------
(* The published arguments *)

TypedProperty(name, type) == [Property(name) EXCEPT !.type = type]

(* What each tool publishes.                                               *)
LEMMA CatalogIs ==
    /\ Catalog["list"] = <<RequiredToken("room")>>
    /\ Catalog["resurrect"] = <<RequiredToken("nick"), RequiredToken("source"),
                                RequiredToken("destination")>>
    /\ Catalog["messages"] = <<RequiredToken("trip"), RequiredInteger("count", 1, 30)>>
    /\ Catalog["mail"] = <<RequiredToken("recipient"), RequiredString("message")>>
    /\ Catalog["msgchannel"] = <<RequiredToken("room"), RequiredString("message")>>
    /\ Catalog["note"] = <<RequiredString("text")>>
    /\ Catalog["prefix"] = <<OptionalString("prefix")>>
    /\ Catalog["mute"] = <<RequiredToken("nick")>>
    /\ Catalog["kick"] = <<RequiredToken("nick")>>
    /\ Catalog["unshadowban"] = <<RequiredToken("identity")>>
    /\ Catalog["unbanall"] = <<>>
    /\ Catalog["captcha"] = <<TypedProperty("enabled", "boolean")>>
    /\ Catalog["lock"] = <<TypedProperty("locked", "boolean")>>
    /\ Catalog["access"] = <<TypedProperty("trips", "array"), EnumString("role", Roles)>>
    /\ Catalog["shadowban"] = <<EnumString("mode", {"exact", "contains"}), RequiredString("target")>>
    /\ Catalog["automove"] = <<EnumString("operation", {"enable", "disable", "configure"}),
                    OptionalString("source"), OptionalString("destination")>>
    /\ Catalog["notes"] = <<EnumString("operation", {"list", "purge"})>>
  BY DEF Catalog, TypedProperty

(* The tools there are.                                                    *)
LEMMA ToolsAre ==
    Tools = {"list", "resurrect", "messages", "mail", "msgchannel", "note", "prefix", "mute", "kick",
             "unshadowban", "unbanall", "captcha", "lock", "access", "shadowban", "automove", "notes"}
  BY DEF Tools, Catalog

(* The fields of each kind of property.                                    *)
LEMMA RequiredStringIs ==
    ASSUME NEW n
    PROVE  /\ RequiredString(n).name = n
           /\ RequiredString(n).type = "string"
           /\ RequiredString(n).required = TRUE
           /\ RequiredString(n).token = FALSE
           /\ RequiredString(n).enum = {}
  <1>1. RequiredString(n).name = n
    BY DEF Property, RequiredString
  <1>2. RequiredString(n).type = "string"
    BY DEF Property, RequiredString
  <1>3. RequiredString(n).required = TRUE
    BY DEF Property, RequiredString
  <1>4. RequiredString(n).token = FALSE
    BY DEF Property, RequiredString
  <1>5. RequiredString(n).enum = {}
    BY DEF Property, RequiredString
  <1> QED
    BY <1>1, <1>2, <1>3, <1>4, <1>5

(* ... a token,                                                            *)
LEMMA RequiredTokenIs ==
    ASSUME NEW n
    PROVE  /\ RequiredToken(n).name = n
           /\ RequiredToken(n).type = "string"
           /\ RequiredToken(n).required = TRUE
           /\ RequiredToken(n).token = TRUE
           /\ RequiredToken(n).enum = {}
  <1>1. RequiredToken(n).name = n
    BY DEF Property, RequiredToken
  <1>2. RequiredToken(n).type = "string"
    BY DEF Property, RequiredToken
  <1>3. RequiredToken(n).required = TRUE
    BY DEF Property, RequiredToken
  <1>4. RequiredToken(n).token = TRUE
    BY DEF Property, RequiredToken
  <1>5. RequiredToken(n).enum = {}
    BY DEF Property, RequiredToken
  <1> QED
    BY <1>1, <1>2, <1>3, <1>4, <1>5

(* ... a string that may be absent,                                        *)
LEMMA OptionalStringIs ==
    ASSUME NEW n
    PROVE  /\ OptionalString(n).name = n
           /\ OptionalString(n).type = "string"
           /\ OptionalString(n).required = FALSE
           /\ OptionalString(n).token = FALSE
           /\ OptionalString(n).enum = {}
  <1>1. OptionalString(n).name = n
    BY DEF Property, OptionalString
  <1>2. OptionalString(n).type = "string"
    BY DEF Property, OptionalString
  <1>3. OptionalString(n).required = FALSE
    BY DEF Property, OptionalString
  <1>4. OptionalString(n).token = FALSE
    BY DEF Property, OptionalString
  <1>5. OptionalString(n).enum = {}
    BY DEF Property, OptionalString
  <1> QED
    BY <1>1, <1>2, <1>3, <1>4, <1>5

(* ... a number,                                                           *)
LEMMA RequiredIntegerIs ==
    ASSUME NEW n, NEW a, NEW b
    PROVE  /\ RequiredInteger(n, a, b).name = n
           /\ RequiredInteger(n, a, b).type = "integer"
           /\ RequiredInteger(n, a, b).required = TRUE
           /\ RequiredInteger(n, a, b).token = FALSE
           /\ RequiredInteger(n, a, b).enum = {}
           /\ RequiredInteger(n, a, b).least = a
           /\ RequiredInteger(n, a, b).most = b
  <1>1. RequiredInteger(n, a, b).name = n
    BY DEF Property, RequiredInteger
  <1>2. RequiredInteger(n, a, b).type = "integer"
    BY DEF Property, RequiredInteger
  <1>3. RequiredInteger(n, a, b).required = TRUE
    BY DEF Property, RequiredInteger
  <1>4. RequiredInteger(n, a, b).token = FALSE
    BY DEF Property, RequiredInteger
  <1>5. RequiredInteger(n, a, b).enum = {}
    BY DEF Property, RequiredInteger
  <1>6. RequiredInteger(n, a, b).least = a
    BY DEF Property, RequiredInteger
  <1>7. RequiredInteger(n, a, b).most = b
    BY DEF Property, RequiredInteger
  <1> QED
    BY <1>1, <1>2, <1>3, <1>4, <1>5, <1>6, <1>7

(* ... a string of a closed set,                                           *)
LEMMA EnumStringIs ==
    ASSUME NEW n, NEW e
    PROVE  /\ EnumString(n, e).name = n
           /\ EnumString(n, e).type = "string"
           /\ EnumString(n, e).required = TRUE
           /\ EnumString(n, e).token = FALSE
           /\ EnumString(n, e).enum = {<<v>> : v \in e}
  <1>1. EnumString(n, e).name = n
    BY DEF Property, EnumString
  <1>2. EnumString(n, e).type = "string"
    BY DEF Property, EnumString
  <1>3. EnumString(n, e).required = TRUE
    BY DEF Property, EnumString
  <1>4. EnumString(n, e).token = FALSE
    BY DEF Property, EnumString
  <1>5. EnumString(n, e).enum = {<<v>> : v \in e}
    BY DEF Property, EnumString
  <1> QED
    BY <1>1, <1>2, <1>3, <1>4, <1>5

-----------------------------------------------------------------------------
(* Calls that a handler has carried out *)

FreeNames == {"room", "nick", "source", "destination", "trip", "recipient", "message", "text",
              "prefix", "identity", "target"}
OwnEncoding == {"captcha", "lock", "access", "shadowban", "automove", "notes"}

(* A call that a handler has carried out.                                  *)
Arrived ==
    /\ call.tool \in Tools /\ \A name \in DOMAIN call.given : call.given[name] \in Offered(name)
    /\ RequestAuthorized(call.tool) /\ ValidateArguments(call.tool, call.given)
    /\ Encode(call.tool, call.given).ok /\ tail = Encode(call.tool, call.given).tail
    /\ ~OwnList(call.tool, tail) /\ TargetInScope(call.tool, tail)
    /\ deed = Handled(call.tool, Message(TrimSpace(tail)))

Honest ==
    /\ Undivided /\ NotASwitch => deed \in {Wanted, Nothing}
    /\ Plain => deed = Wanted
    /\ UnderReview /\ deed # Nothing => deed = Do("mute", <<call.review>>)
    /\ deed # Do("list", <<OwnRoom>>)

(* A turn that reviews an author carries out nothing but mutes.            *)
LEMMA NotUnderReview ==
    ASSUME Arrived, call.tool # "mute"
    PROVE  ~UnderReview
  BY DEF Arrived, RequestAuthorized, ModerationReviewAllows

(* A property of a checked call: required ones are there, and every one    *)
(* fits.                                                                   *)
LEMMA FieldGiven ==
    ASSUME Arrived, NEW i \in DOMAIN Catalog[call.tool], NEW p, p = Catalog[call.tool][i]
    PROVE  /\ p \in Range(Catalog[call.tool])
           /\ p.required = TRUE => p.name \in DOMAIN call.given
           /\ p.name \in DOMAIN call.given => /\ Accepts(p, call.given[p.name])
                                              /\ call.given[p.name] \in Offered(p.name)
  <1>1. \A j \in DOMAIN Catalog[call.tool] :
            IF Catalog[call.tool][j].name \in DOMAIN call.given
            THEN Accepts(Catalog[call.tool][j], call.given[Catalog[call.tool][j].name])
            ELSE ~Catalog[call.tool][j].required
    BY Zenon DEF Arrived, ValidateArguments
  <1>2. IF p.name \in DOMAIN call.given THEN Accepts(p, call.given[p.name]) ELSE ~p.required
    BY <1>1, Zenon
  <1>3. p.name \in DOMAIN call.given => call.given[p.name] \in Offered(p.name)
    BY DEF Arrived
  <1>4. p \in Range(Catalog[call.tool])
    BY DEF Range
  <1> QED
    BY <1>2, <1>3, <1>4

(* A free string holds one wording.                                        *)
LEMMA FreeText ==
    ASSUME NEW name \in FreeNames, NEW value \in Offered(name), value.type = "string"
    PROVE  /\ Text(value) \in Texts /\ Text(value) \in Wordings /\ value.texts = <<Text(value)>>
           /\ Range(value.texts) = {Text(value)}
  <1>1. Offered(name) = {String(w) : w \in Wordings} \cup {Boolean(TRUE)}
    BY DEF FreeNames, Offered
  <1>2. Boolean(TRUE).type # "string"
    BY DEF Boolean
  <1>3. PICK w \in Wordings : value = String(w)
    BY <1>1, <1>2
  <1>4. value.texts = <<w>> /\ Text(value) = w
    BY <1>3 DEF String, Text
  <1>5. w \in Texts
    BY ArgumentsAssumption, TextsGrow
  <1>6. Range(<<w>>) = {w}
    BY DEF Range
  <1> QED
    BY <1>4, <1>5, <1>6

(* A tail that is not refused is the text it was made of.                  *)
LEMMA BoundedTailIs ==
    ASSUME NEW text
    PROVE  /\ BoundedTail(text).ok => BoundedTail(text).tail = TrimSpace(text)
           /\ Refusal.ok = FALSE
  BY DEF BoundedTail, Refusal

(* The arguments of a tool without an encoding of its own.                 *)
LEMMA PositionalCall ==
    ASSUME Arrived, call.tool \notin OwnEncoding
    PROVE  /\ \A i \in DOMAIN Catalog[call.tool] :
                 IF Catalog[call.tool][i].name \in DOMAIN call.given
                 THEN FieldIsEncoded(Catalog[call.tool][i], call.given[Catalog[call.tool][i].name])
                 ELSE ~Catalog[call.tool][i].required
           /\ tail = TrimSpace(Joined([i \in DOMAIN Catalog[call.tool] |->
                                          Trimmed(call.given, Catalog[call.tool][i].name)], "space"))
  <1>1. Encode(call.tool, call.given) = Positional(call.tool, call.given)
    BY DEF Encode, OwnEncoding
  <1>2. Positional(call.tool, call.given).ok /\ tail = Positional(call.tool, call.given).tail
    BY <1>1 DEF Arrived
  <1> DEFINE Fits == \A i \in DOMAIN Catalog[call.tool] :
                 IF Catalog[call.tool][i].name \in DOMAIN call.given
                 THEN FieldIsEncoded(Catalog[call.tool][i], call.given[Catalog[call.tool][i].name])
                 ELSE ~Catalog[call.tool][i].required
             J == Joined([i \in DOMAIN Catalog[call.tool] |->
                                          Trimmed(call.given, Catalog[call.tool][i].name)], "space")
  <1>3. Positional(call.tool, call.given) = IF Fits THEN BoundedTail(J) ELSE Refusal
    BY Zenon DEF Positional
  <1> HIDE DEF Fits, J
  <1>4. Fits /\ tail = TrimSpace(J)
    BY <1>2, <1>3, BoundedTailIs
  <1> QED
    BY <1>4 DEF Fits, J

(* A string that a positional call must have.                              *)
LEMMA StringArrives ==
    ASSUME Arrived, call.tool \notin OwnEncoding,
           NEW i \in DOMAIN Catalog[call.tool], NEW p, p = Catalog[call.tool][i],
           p.type = "string", p.required = TRUE, p.name \in FreeNames
    PROVE  /\ p \in Range(Catalog[call.tool])
           /\ Text(call.given[p.name]) \in Texts
           /\ Written(p) = {Text(call.given[p.name])}
           /\ Trimmed(call.given, p.name) = TrimSpace(Text(call.given[p.name]))
           /\ Neat(Trimmed(call.given, p.name)) /\ Trimmed(call.given, p.name) # <<>>
  <1> DEFINE v == call.given[p.name]
  <1>1. /\ p \in Range(Catalog[call.tool]) /\ p.name \in DOMAIN call.given
        /\ Accepts(p, v) /\ v \in Offered(p.name)
    BY FieldGiven
  <1>2. IF p.name \in DOMAIN call.given THEN FieldIsEncoded(p, call.given[p.name]) ELSE ~p.required
    BY PositionalCall, Zenon
  <1>3. FieldIsEncoded(p, v)
    BY <1>1, <1>2
  <1> HIDE DEF v
  <1>4. v.type = "string" /\ TrimSpace(Text(v)) # <<>>
    BY <1>1, <1>3 DEF FieldIsEncoded, Accepts, AcceptsType
  <1>5. Text(v) \in Texts /\ Range(v.texts) = {Text(v)}
    BY <1>1, <1>4, FreeText
  <1>6. Trimmed(call.given, p.name) = TrimSpace(Text(v)) /\ Written(p) = Range(v.texts)
    BY <1>1 DEF Trimmed, Written, v
  <1>7. Neat(TrimSpace(Text(v)))
    BY <1>5, TrimIsNeat
  <1> QED
    BY <1>1, <1>4, <1>5, <1>6, <1>7 DEF v

(* An undivided argument is a token with white space around it.            *)
LEMMA UndividedToken ==
    ASSUME Undivided, NEW p \in Range(Catalog[call.tool]), Bound(p),
           NEW w \in Texts, w \in Written(p)
    PROVE  Token(TrimSpace(w))
  BY OneWordIsToken DEF Undivided

(* Ordinary names are tokens that no parser takes apart.                   *)
LEMMA PlainText ==
    ASSUME NEW w, w \in {<<"a">>, <<"b">>}
    PROVE  /\ Token(w) /\ TrimSpace(w) = w /\ w # <<>> /\ RoomSelector(w) = w
           /\ NormalizeNickTarget(w) = w
  <1>1. PICK x \in {"a", "b"} : w = <<x>>
    OBVIOUS
  <1>2. x \in Symbols /\ x \notin Blank /\ x # "?" /\ x # "@"
    BY DEF Symbols, Literals, Blank
  <1>3. Token(w) /\ w # <<>>
    BY <1>1, <1>2, OneSymbol
  <1>4. TrimSpace(w) = w
    BY <1>3, TokenIsNeat, NeatStays
  <1>5. Head(w) = x
    BY <1>1
  <1> QED
    BY <1>2, <1>3, <1>4, <1>5 DEF RoomSelector, NormalizeNickTarget, TrimPrefix

(* A plain call has ordinary names only.                                   *)
LEMMA PlainGiven ==
    ASSUME Plain, NEW p \in Range(Catalog[call.tool]), Free(p), NEW w \in Written(p)
    PROVE  w \in {<<"a">>, <<"b">>}
  BY DEF Plain

-----------------------------------------------------------------------------
(* Tools with one argument *)

(* A message that is neat is read as it was written.                       *)
LEMMA NeatMessage ==
    ASSUME NEW t, Neat(t), tail = TrimSpace(t)
    PROVE  /\ tail = t /\ TrimSpace(tail) = t
           /\ Arguments(Message(TrimSpace(tail))) = Words(t)
           /\ CommandBody(Message(TrimSpace(tail))) = t
  <1>1. TrimSpace(t) = t
    BY NeatStays
  <1> QED
    BY <1>1, MessageIs

(* A tool of one free string: the handler reads the string as it was       *)
(* given.                                                                  *)
LEMMA OneField ==
    ASSUME Arrived, call.tool \notin OwnEncoding, NEW p, Catalog[call.tool] = <<p>>,
           p.type = "string", p.required = TRUE, p.name \in FreeNames, p.enum = {}
    PROVE  /\ tail = Trimmed(call.given, p.name) /\ TrimSpace(tail) = tail /\ Neat(tail) /\ tail # <<>>
           /\ Arguments(Message(TrimSpace(tail))) = Words(tail)
           /\ CommandBody(Message(TrimSpace(tail))) = tail
           /\ Undivided /\ Bound(p) => Token(tail)
           /\ Plain => tail \in {<<"a">>, <<"b">>}
  <1> DEFINE r == Trimmed(call.given, p.name)
             w == Text(call.given[p.name])
  <1>1. 1 \in DOMAIN Catalog[call.tool] /\ p = Catalog[call.tool][1] /\ DOMAIN Catalog[call.tool] = {1}
    OBVIOUS
  <1>2. /\ p \in Range(Catalog[call.tool]) /\ w \in Texts /\ Written(p) = {w}
        /\ r = TrimSpace(w) /\ Neat(r) /\ r # <<>>
    BY <1>1, StringArrives
  <1>3. tail = TrimSpace(Joined(<<r>>, "space"))
    <2>1. [i \in DOMAIN Catalog[call.tool] |-> Trimmed(call.given, Catalog[call.tool][i].name)] = <<r>>
      BY <1>1
    <2> HIDE DEF r
    <2> QED
      BY <2>1, PositionalCall
  <1> HIDE DEF r, w
  <1>4. tail = TrimSpace(r)
    BY <1>3, JoinedOfOne
  <1>5. /\ tail = r /\ TrimSpace(tail) = r
        /\ Arguments(Message(TrimSpace(tail))) = Words(r)
        /\ CommandBody(Message(TrimSpace(tail))) = r
    BY <1>2, <1>4, NeatMessage
  <1>6. ASSUME Undivided, Bound(p) PROVE Token(r)
    BY <1>2, <1>6, UndividedToken
  <1>7. ASSUME Plain PROVE r \in {<<"a">>, <<"b">>}
    <2>1. w \in {<<"a">>, <<"b">>}
      BY <1>2, <1>7, PlainGiven DEF Free
    <2> QED
      BY <1>2, <2>1, PlainText
  <1> QED
    BY <1>2, <1>5, <1>6, <1>7 DEF r

(* ... and a tool of one token.                                            *)
LEMMA OneToken ==
    ASSUME Arrived, call.tool \notin OwnEncoding, NEW name \in FreeNames,
           Catalog[call.tool] = <<RequiredToken(name)>>
    PROVE  /\ tail = Trimmed(call.given, name) /\ TrimSpace(tail) = tail /\ Neat(tail) /\ tail # <<>>
           /\ Arguments(Message(TrimSpace(tail))) = Words(tail)
           /\ Undivided => Token(tail)
           /\ Plain => tail \in {<<"a">>, <<"b">>}
  <1> DEFINE p == RequiredToken(name)
  <1>1. /\ Catalog[call.tool] = <<p>> /\ p.name = name
        /\ p.type = "string" /\ p.required = TRUE /\ p.enum = {} /\ p.token = TRUE
    BY RequiredTokenIs
  <1> HIDE DEF p
  <1>2. Bound(p)
    BY <1>1 DEF Bound
  <1>3. p.name \in FreeNames
    BY <1>1
  <1> QED
    BY <1>1, <1>2, <1>3, OneField

(* The command list lists the room it was asked for, never the caller's    *)
(* own.                                                                    *)
LEMMA ListIsHonest ==
    ASSUME Arrived, call.tool = "list"
    PROVE  Honest
  <1> DEFINE r == Trimmed(call.given, "room")
  <1>1. Catalog[call.tool] = <<RequiredToken("room")>>
    BY CatalogIs
  <1>2. /\ tail = r /\ Neat(tail) /\ tail # <<>> /\ TrimSpace(tail) = tail
        /\ Arguments(Message(TrimSpace(tail))) = Words(tail)
        /\ Plain => tail \in {<<"a">>, <<"b">>}
    BY <1>1, OneToken DEF OwnEncoding, FreeNames
  <1>3. deed = ReadList(Words(tail))
    BY <1>2 DEF Arrived, Handled
  <1>4. Wanted = Do("list", <<RoomSelector(tail)>>)
    BY <1>2 DEF Wanted
  <1>5. RoomSelector(tail) # OwnRoom
    BY DEF Arrived, OwnList, RoomSelector
  <1>6. Words(tail) # <<>> /\ (Len(Words(tail)) = 1 => Words(tail) = <<tail>>)
    <2>1. Words(tail) # <<>>
      BY <1>2, NeatHasWords
    <2>2. ASSUME Len(Words(tail)) = 1 PROVE Words(tail) = <<tail>>
      BY <1>2, <2>2, OneWordIsToken, WordsOfToken DEF Neat
    <2> QED
      BY <2>1, <2>2
  <1>7. deed = IF Len(Words(tail)) = 1 /\ RoomSelector(tail) # <<>> THEN Wanted ELSE Nothing
    BY <1>3, <1>4, <1>6 DEF ReadList
  <1>8. ~UnderReview
    BY NotUnderReview
  <1>9. Plain => deed = Wanted
    BY <1>2, <1>7, PlainText, WordsOfToken
  <1>10. deed # Do("list", <<OwnRoom>>)
    BY <1>4, <1>5, <1>7 DEF Do, Nothing
  <1> QED
    BY <1>7, <1>8, <1>9, <1>10 DEF Honest

(* A note is kept as it was written.                                       *)
LEMMA NoteIsHonest ==
    ASSUME Arrived, call.tool = "note"
    PROVE  Honest
  <1>1. Catalog[call.tool] = <<RequiredString("text")>>
    BY CatalogIs
  <1>2. tail = Trimmed(call.given, "text") /\ tail # <<>> /\ CommandBody(Message(TrimSpace(tail))) = tail
    <2> DEFINE p == RequiredString("text")
    <2>1. /\ Catalog[call.tool] = <<p>> /\ p.name = "text" /\ p.name \in FreeNames
          /\ p.type = "string" /\ p.required = TRUE /\ p.enum = {}
      BY <1>1, RequiredStringIs DEF FreeNames
    <2>2. call.tool \notin OwnEncoding
      BY DEF OwnEncoding
    <2> HIDE DEF p
    <2> QED
      BY <2>1, <2>2, OneField
  <1>3. deed = Do("note", <<tail>>)
    BY <1>2 DEF Arrived, Handled, ReadNote
  <1>4. Wanted = Do("note", <<tail>>)
    BY <1>2 DEF Wanted
  <1>5. ~UnderReview
    BY NotUnderReview
  <1>6. deed # Do("list", <<OwnRoom>>)
    BY <1>3 DEF Do
  <1> QED
    BY <1>3, <1>4, <1>5, <1>6 DEF Honest

(* A mute falls on the nick that was given, under review on the author's.  *)
LEMMA MuteIsHonest ==
    ASSUME Arrived, call.tool = "mute"
    PROVE  Honest
  <1> DEFINE a == Words(tail)
  <1>1. Catalog[call.tool] = <<RequiredToken("nick")>>
    BY CatalogIs
  <1>2. /\ tail = Trimmed(call.given, "nick") /\ Neat(tail) /\ tail # <<>>
        /\ Arguments(Message(TrimSpace(tail))) = Words(tail)
        /\ Undivided => Token(tail)
        /\ Plain => tail \in {<<"a">>, <<"b">>}
    BY <1>1, OneToken DEF OwnEncoding, FreeNames
  <1>3. deed = IF NormalizeNickTarget(a[1]) = <<>> THEN Nothing
               ELSE Do("mute", <<NormalizeNickTarget(a[1])>>)
    <2>1. a # <<>>
      BY <1>2, NeatHasWords
    <2>2. deed = ReadMute(a)
      BY <1>2 DEF Arrived, Handled
    <2> HIDE DEF a
    <2> QED
      BY <2>1, <2>2 DEF ReadMute
  <1>4. Wanted = Do("mute", <<NormalizeNickTarget(tail)>>)
    BY <1>2 DEF Wanted
  <1>5. Token(tail) => a[1] = tail
    BY WordsOfToken
  <1>6. Undivided => deed \in {Wanted, Nothing}
    BY <1>2, <1>3, <1>4, <1>5
  <1>7. Plain => deed = Wanted
    BY <1>2, <1>3, <1>4, <1>5, PlainText
  <1>8. UnderReview => NormalizeNickTarget(a[1]) = call.review
    BY DEF Arrived, TargetInScope, TargetsUser
  <1>9. deed # Do("list", <<OwnRoom>>)
    BY <1>3 DEF Do, Nothing
  <1> QED
    BY <1>3, <1>6, <1>7, <1>8, <1>9 DEF Honest

(* A kick does not become a kick of many.                                  *)
LEMMA KickIsHonest ==
    ASSUME Arrived, call.tool = "kick"
    PROVE  Honest
  <1>1. Catalog[call.tool] = <<RequiredToken("nick")>>
    BY CatalogIs
  <1>2. /\ tail = Trimmed(call.given, "nick")
        /\ Arguments(Message(TrimSpace(tail))) = Words(tail)
        /\ Undivided => Token(tail)
        /\ Plain => tail \in {<<"a">>, <<"b">>}
    BY <1>1, OneToken DEF OwnEncoding, FreeNames
  <1>3. deed = ReadKick(Words(tail))
    BY <1>2 DEF Arrived, Handled
  <1>4. Wanted = Do("kick", <<tail>>)
    BY <1>2 DEF Wanted
  <1>5. ASSUME Token(tail) PROVE deed = IF tail \in {<<"-m">>, <<"-c">>} THEN Nothing ELSE Wanted
    <2> DEFINE a == <<tail>>
    <2>1. deed = ReadKick(a)
      BY <1>3, <1>5, WordsOfToken
    <2>2. a # <<>> /\ Len(a) = 1 /\ a[1] = tail /\ DOMAIN a = {1}
      OBVIOUS
    <2>3. ArgumentModes(a) = IF tail \in {<<"-m">>, <<"-c">>} THEN {1} ELSE {}
      BY <2>2 DEF ArgumentModes
    <2> HIDE DEF a
    <2>4. CASE tail \in {<<"-m">>, <<"-c">>}
      <3>1. ArgumentModes(a) # {} /\ ~ (Len(a) > 1) /\ ~ (Len(a) = 2)
        BY <2>2, <2>3, <2>4
      <3>2. ReadKick(a) = Nothing
        BY <2>2, <3>1 DEF ReadKick
      <3> QED
        BY <2>1, <2>4, <3>2
    <2>5. CASE tail \notin {<<"-m">>, <<"-c">>}
      <3>1. ArgumentModes(a) = {} /\ a[1] # <<"-m">> /\ a[1] # <<"-c">>
        BY <2>2, <2>3, <2>5
      <3>2. ReadKick(a) = Do("kick", a)
        BY <2>2, <3>1 DEF ReadKick
      <3> QED
        BY <1>4, <2>1, <2>5, <3>2 DEF a
    <2> QED
      BY <2>4, <2>5
  <1>6. Plain => deed = Wanted
    <2>1. \A w \in {<<"a">>, <<"b">>} : w \notin {<<"-m">>, <<"-c">>}
      OBVIOUS
    <2> QED
      BY <1>2, <1>5, <2>1, PlainText
  <1>7. ~UnderReview
    BY NotUnderReview
  <1>8. deed # Do("list", <<OwnRoom>>)
    <2>1. deed.verb # "list"
      BY <1>3 DEF ReadKick, Do, Nothing
    <2> QED
      BY <2>1 DEF Do
  <1> QED
    BY <1>2, <1>5, <1>6, <1>7, <1>8 DEF Honest

(* Lifting a shadow ban lifts the one that was named.                      *)
LEMMA UnshadowbanIsHonest ==
    ASSUME Arrived, call.tool = "unshadowban"
    PROVE  Honest
  <1>1. Catalog[call.tool] = <<RequiredToken("identity")>>
    BY CatalogIs
  <1>2. /\ tail = Trimmed(call.given, "identity")
        /\ Arguments(Message(TrimSpace(tail))) = Words(tail)
        /\ Undivided => Token(tail)
        /\ Plain => tail \in {<<"a">>, <<"b">>}
    BY <1>1, OneToken DEF OwnEncoding, FreeNames
  <1>3. deed = ReadUnshadowban(Words(tail))
    BY <1>2 DEF Arrived, Handled
  <1>4. Wanted = IF tail = <<"-all">> THEN Do("forget-all", <<>>) ELSE Do("forget", <<tail>>)
    BY <1>2 DEF Wanted
  <1>5. ASSUME Token(tail) PROVE deed = Wanted
    <2>1. Words(tail) = <<tail>> /\ Len(<<tail>>) = 1 /\ <<tail>>[1] = tail
      BY <1>5, WordsOfToken
    <2> QED
      BY <1>3, <1>4, <2>1 DEF ReadUnshadowban
  <1>6. ~UnderReview
    BY NotUnderReview
  <1>7. deed # Do("list", <<OwnRoom>>)
    <2>1. deed.verb # "list"
      BY <1>3 DEF ReadUnshadowban, Do, Nothing
    <2> QED
      BY <2>1 DEF Do
  <1> QED
    BY <1>2, <1>5, <1>6, <1>7, PlainText DEF Honest

-----------------------------------------------------------------------------
(* A token and a text, and three tokens *)

(* Sequences of one, put together.                                         *)
LEMMA TwoInARow ==
    ASSUME NEW S, NEW a \in S, NEW b \in S
    PROVE  <<a>> \o <<b>> = <<a, b>>
  <1>1. <<a>> \o <<b>> \in Seq(S) /\ Len(<<a>> \o <<b>>) = 2
        /\ (<<a>> \o <<b>>)[1] = a /\ (<<a>> \o <<b>>)[2] = b
    OBVIOUS
  <1>2. <<a, b>> \in Seq(S) /\ Len(<<a, b>>) = 2 /\ <<a, b>>[1] = a /\ <<a, b>>[2] = b
    OBVIOUS
  <1>3. \A i \in 1..2 : i = 1 \/ i = 2
    OBVIOUS
  <1> QED
    BY <1>1, <1>2, <1>3, SeqEqual

(* ... and of three.                                                       *)
LEMMA ThreeInARow ==
    ASSUME NEW S, NEW a \in S, NEW b \in S, NEW c \in S
    PROVE  /\ Len((<<a>> \o <<b>>) \o <<c>>) = 3 /\ ((<<a>> \o <<b>>) \o <<c>>)[1] = a
           /\ ((<<a>> \o <<b>>) \o <<c>>)[2] = b /\ ((<<a>> \o <<b>>) \o <<c>>)[3] = c
  <1> DEFINE x == <<a>> \o <<b>>
  <1>1. x \in Seq(S) /\ Len(x) = 2 /\ x[1] = a /\ x[2] = b
    OBVIOUS
  <1> HIDE DEF x
  <1>2. Len(x \o <<c>>) = 3 /\ (x \o <<c>>)[1] = a /\ (x \o <<c>>)[2] = b /\ (x \o <<c>>)[3] = c
    <2>1. <<c>> \in Seq(S) /\ Len(<<c>>) = 1 /\ <<c>>[1] = c
      OBVIOUS
    <2>2. /\ Len(x \o <<c>>) = Len(x) + Len(<<c>>)
          /\ \A i \in 1..(Len(x) + Len(<<c>>)) :
                (x \o <<c>>)[i] = IF i <= Len(x) THEN x[i] ELSE <<c>>[i - Len(x)]
      BY <1>1, <2>1, ConcatProperties
    <2>3. 1 \in 1..3 /\ 2 \in 1..3 /\ 3 \in 1..3 /\ 3 - 2 = 1 /\ 2 + 1 = 3
      OBVIOUS
    <2> QED
      BY <1>1, <2>1, <2>2, <2>3
  <1> QED
    BY <1>2 DEF x

(* A token and a text behind it are read back as the two.                  *)
LEMMA TokenAndText ==
    ASSUME Arrived, call.tool \notin OwnEncoding, NEW name \in FreeNames, NEW other \in FreeNames,
           Catalog[call.tool] = <<RequiredToken(name), RequiredString(other)>>
    PROVE  /\ Neat(Trimmed(call.given, other))
           /\ Undivided => Token(Trimmed(call.given, name))
           /\ Plain => Trimmed(call.given, name) \in {<<"a">>, <<"b">>}
           /\ Plain => Trimmed(call.given, other) \in {<<"a">>, <<"b">>}
           /\ CommandBody(Message(TrimSpace(tail))) # <<>>
           /\ Token(Trimmed(call.given, name)) =>
                SplitToken(CommandBody(Message(TrimSpace(tail)))) =
                    <<Trimmed(call.given, name), Trimmed(call.given, other)>>
  <1> DEFINE p == RequiredToken(name)
             q == RequiredString(other)
             r == Trimmed(call.given, name)
             m == Trimmed(call.given, other)
             v == Text(call.given[name])
             w == Text(call.given[other])
  <1>1. /\ Catalog[call.tool] = <<p, q>>
        /\ p.name = name /\ p.type = "string" /\ p.required = TRUE /\ p.enum = {} /\ p.token = TRUE
        /\ q.name = other /\ q.type = "string" /\ q.required = TRUE /\ q.enum = {}
    BY RequiredTokenIs, RequiredStringIs
  <1> HIDE DEF p, q
  <1>2. /\ DOMAIN Catalog[call.tool] = {1, 2} /\ Catalog[call.tool][1] = p /\ Catalog[call.tool][2] = q
        /\ Bound(p) /\ Free(p) /\ Free(q)
    BY <1>1 DEF Bound, Free
  <1>3. /\ p \in Range(Catalog[call.tool]) /\ v \in Texts /\ Written(p) = {v}
        /\ r = TrimSpace(v) /\ Neat(r) /\ r # <<>>
    <2>1. 1 \in DOMAIN Catalog[call.tool] /\ p = Catalog[call.tool][1] /\ p.name \in FreeNames
      BY <1>1, <1>2
    <2> QED
      BY <1>1, <2>1, StringArrives
  <1>4. /\ q \in Range(Catalog[call.tool]) /\ w \in Texts /\ Written(q) = {w}
        /\ m = TrimSpace(w) /\ Neat(m) /\ m # <<>>
    <2>1. 2 \in DOMAIN Catalog[call.tool] /\ q = Catalog[call.tool][2] /\ q.name \in FreeNames
      BY <1>1, <1>2
    <2> QED
      BY <1>1, <2>1, StringArrives
  <1>5. tail = TrimSpace(Joined(<<r, m>>, "space"))
    <2>1. [i \in DOMAIN Catalog[call.tool] |-> Trimmed(call.given, Catalog[call.tool][i].name)] = <<r, m>>
      BY <1>1, <1>2
    <2> HIDE DEF r, m
    <2> QED
      BY <2>1, PositionalCall
  <1> DEFINE s == "space"
  <1>6. s \in Symbols /\ s \in Blank
    BY CommaIsSymbol
  <1>7. tail = TrimSpace(r \o <<s>> \o m)
    BY <1>3, <1>4, <1>5, JoinedOfTwo
  <1> HIDE DEF r, m, s, v, w
  <1>8. Neat(r \o <<s>> \o m) /\ r \o <<s>> \o m # <<>>
    BY <1>3, <1>4, <1>6, NeatTogether
  <1>9. CommandBody(Message(TrimSpace(tail))) = r \o <<s>> \o m
    BY <1>7, <1>8, NeatMessage
  <1>10. Token(r) => SplitToken(r \o <<s>> \o m) = <<r, m>>
    BY <1>4, <1>6, SplitAtBlank DEF Neat
  <1>11. ASSUME Undivided PROVE Token(r)
    BY <1>2, <1>3, <1>11, UndividedToken
  <1>12. ASSUME Plain PROVE r \in {<<"a">>, <<"b">>} /\ m \in {<<"a">>, <<"b">>}
    <2>1. v \in {<<"a">>, <<"b">>} /\ w \in {<<"a">>, <<"b">>}
      BY <1>2, <1>3, <1>4, <1>12, PlainGiven
    <2> QED
      BY <1>3, <1>4, <2>1, PlainText
  <1>13. /\ Neat(m) /\ (Undivided => Token(r))
         /\ (Plain => r \in {<<"a">>, <<"b">>}) /\ (Plain => m \in {<<"a">>, <<"b">>})
         /\ CommandBody(Message(TrimSpace(tail))) # <<>>
         /\ Token(r) => SplitToken(CommandBody(Message(TrimSpace(tail)))) = <<r, m>>
    BY <1>4, <1>8, <1>9, <1>10, <1>11, <1>12
  <1> QED
    BY <1>13 DEF r, m

(* Mail goes to the recipient that was given, word for word.               *)
LEMMA MailIsHonest ==
    ASSUME Arrived, call.tool = "mail"
    PROVE  Honest
  <1> DEFINE r == Trimmed(call.given, "recipient")
             m == Trimmed(call.given, "message")
             body == CommandBody(Message(TrimSpace(tail)))
  <1>1. Catalog[call.tool] = <<RequiredToken("recipient"), RequiredString("message")>>
    BY CatalogIs
  <1>2. /\ Neat(m) /\ (Undivided => Token(r)) /\ (Plain => r \in {<<"a">>, <<"b">>})
        /\ body # <<>> /\ (Token(r) => SplitToken(body) = <<r, m>>)
    BY <1>1, TokenAndText DEF OwnEncoding, FreeNames
  <1>3. deed = ReadMail(body)
    BY DEF Arrived, Handled
  <1>4. Wanted = Do("mail", <<r, m>>)
    BY DEF Wanted
  <1> HIDE DEF r, m, body
  <1>5. deed = Do("mail", <<SplitToken(body)[1], TrimSpace(SplitToken(body)[2])>>)
    BY <1>2, <1>3 DEF ReadMail
  <1>6. Token(r) => deed = Wanted
    <2>1. TrimSpace(m) = m
      BY <1>2, NeatStays
    <2> QED
      BY <1>2, <1>4, <1>5, <2>1
  <1>7. ~UnderReview
    BY NotUnderReview
  <1>8. deed # Do("list", <<OwnRoom>>)
    BY <1>5 DEF Do
  <1> QED
    BY <1>2, <1>6, <1>7, <1>8, PlainText DEF Honest

(* A message goes to the room that was given, word for word.               *)
LEMMA MsgchannelIsHonest ==
    ASSUME Arrived, call.tool = "msgchannel"
    PROVE  Honest
  <1> DEFINE r == Trimmed(call.given, "room")
             m == Trimmed(call.given, "message")
             body == CommandBody(Message(TrimSpace(tail)))
  <1>1. Catalog[call.tool] = <<RequiredToken("room"), RequiredString("message")>>
    BY CatalogIs
  <1>2. /\ Neat(m) /\ (Undivided => Token(r)) /\ (Plain => r \in {<<"a">>, <<"b">>})
        /\ (Plain => m \in {<<"a">>, <<"b">>}) /\ (Token(r) => SplitToken(body) = <<r, m>>)
    BY <1>1, TokenAndText DEF OwnEncoding, FreeNames
  <1>3. deed = ReadRelay(body)
    BY DEF Arrived, Handled
  <1>4. Wanted = Do("relay", <<RoomSelector(r), m>>)
    BY DEF Wanted
  <1> HIDE DEF r, m, body
  <1>5. Token(r) => deed = IF RoomSelector(r) = <<>> \/ m = <<>> THEN Nothing ELSE Wanted
    <2>1. TrimSpace(m) = m
      BY <1>2, NeatStays
    <2> QED
      BY <1>2, <1>3, <1>4, <2>1 DEF ReadRelay
  <1>6. Plain => deed = Wanted
    BY <1>2, <1>5, PlainText
  <1>7. ~UnderReview
    BY NotUnderReview
  <1>8. deed # Do("list", <<OwnRoom>>)
    <2>1. deed.verb # "list"
      BY <1>3 DEF ReadRelay, Do, Nothing
    <2> QED
      BY <2>1 DEF Do
  <1> QED
    BY <1>2, <1>5, <1>6, <1>7, <1>8 DEF Honest

(* The nick that was given moves between the rooms that were given.        *)
LEMMA ResurrectIsHonest ==
    ASSUME Arrived, call.tool = "resurrect"
    PROVE  Honest
  <1> DEFINE p1 == RequiredToken("nick")
             p2 == RequiredToken("source")
             p3 == RequiredToken("destination")
             t1 == Trimmed(call.given, "nick")
             t2 == Trimmed(call.given, "source")
             t3 == Trimmed(call.given, "destination")
  <1>1. Catalog[call.tool] = <<p1, p2, p3>>
    BY CatalogIs
  <1>2. /\ p1.name = "nick" /\ p1.type = "string" /\ p1.required = TRUE /\ p1.enum = {} /\ p1.token = TRUE
        /\ p2.name = "source" /\ p2.type = "string" /\ p2.required = TRUE /\ p2.enum = {} /\ p2.token = TRUE
        /\ p3.name = "destination" /\ p3.type = "string" /\ p3.required = TRUE /\ p3.enum = {}
        /\ p3.token = TRUE
    BY RequiredTokenIs
  <1> HIDE DEF p1, p2, p3
  <1>3. /\ DOMAIN Catalog[call.tool] = {1, 2, 3} /\ Catalog[call.tool][1] = p1
        /\ Catalog[call.tool][2] = p2 /\ Catalog[call.tool][3] = p3
        /\ call.tool \notin OwnEncoding
    BY <1>1 DEF OwnEncoding
  <1>4. ASSUME NEW i \in {1, 2, 3}, NEW p, p = Catalog[call.tool][i],
               NEW t, t = Trimmed(call.given, p.name)
        PROVE  /\ Neat(t) /\ t # <<>> /\ (Undivided => Token(t)) /\ (Plain => t \in {<<"a">>, <<"b">>})
    <2>1. /\ i \in DOMAIN Catalog[call.tool] /\ p.type = "string" /\ p.required = TRUE /\ p.enum = {}
          /\ p.token = TRUE /\ p.name \in FreeNames
      BY <1>2, <1>3, <1>4 DEF FreeNames
    <2> DEFINE w == Text(call.given[p.name])
    <2>2. /\ p \in Range(Catalog[call.tool]) /\ w \in Texts /\ Written(p) = {w}
          /\ t = TrimSpace(w) /\ Neat(t) /\ t # <<>>
      BY <1>3, <1>4, <2>1, StringArrives
    <2>3. Bound(p) /\ Free(p)
      BY <2>1 DEF Bound, Free
    <2> HIDE DEF w
    <2>4. ASSUME Undivided PROVE Token(t)
      BY <2>2, <2>3, <2>4, UndividedToken
    <2>5. ASSUME Plain PROVE t \in {<<"a">>, <<"b">>}
      <3>1. w \in {<<"a">>, <<"b">>}
        BY <2>2, <2>3, <2>5, PlainGiven
      <3> QED
        BY <2>2, <3>1, PlainText
    <2> QED
      BY <2>2, <2>4, <2>5
  <1>5. /\ Neat(t1) /\ t1 # <<>> /\ (Undivided => Token(t1)) /\ (Plain => t1 \in {<<"a">>, <<"b">>})
        /\ Neat(t2) /\ t2 # <<>> /\ (Undivided => Token(t2)) /\ (Plain => t2 \in {<<"a">>, <<"b">>})
        /\ Neat(t3) /\ t3 # <<>> /\ (Undivided => Token(t3)) /\ (Plain => t3 \in {<<"a">>, <<"b">>})
    BY <1>2, <1>3, <1>4
  <1>6. tail = TrimSpace(Joined(<<t1, t2, t3>>, "space"))
    <2>1. [i \in DOMAIN Catalog[call.tool] |-> Trimmed(call.given, Catalog[call.tool][i].name)]
            = <<t1, t2, t3>>
      BY <1>2, <1>3
    <2> HIDE DEF t1, t2, t3
    <2> QED
      BY <1>3, <2>1, PositionalCall
  <1>7. Wanted = Do("move", <<NormalizeNickTarget(t1), t2, t3>>)
    BY DEF Wanted
  <1> DEFINE s == "space"
             x == t1 \o <<s>> \o t2
             y == x \o <<s>> \o t3
  <1>8. s \in Symbols /\ s \in Blank
    BY CommaIsSymbol
  <1>9. Neat(x) /\ x # <<>>
    <2> HIDE DEF t1, t2, t3, s
    <2> QED
      BY <1>5, <1>8, NeatTogether
  <1>10. Joined(<<t1, t2, t3>>, s) = y
    <2> HIDE DEF t1, t2, t3, s
    <2>1. Joined(<<t1, t2, t3>>, s) = Behind(Behind(t1, s, t2), s, t3)
      BY <1>5, JoinedOfThree
    <2>2. Behind(t1, s, t2) = x
      BY <1>5 DEF Behind
    <2> HIDE DEF x
    <2>3. Behind(x, s, t3) = y
      BY <1>5, <1>9 DEF Behind
    <2> QED
      BY <2>1, <2>2, <2>3
  <1>11. Neat(y)
    <2> HIDE DEF t3, s, x
    <2> QED
      BY <1>5, <1>8, <1>9, NeatTogether
  <1>12. Arguments(Message(TrimSpace(tail))) = Words(y)
    <2>1. tail = TrimSpace(y)
      BY <1>6, <1>10
    <2> HIDE DEF y
    <2> QED
      BY <1>11, <2>1, NeatMessage
  <1>13. Words(y) = Words(x) \o Words(t3) /\ Words(x) = Words(t1) \o Words(t2)
    <2>1. x \in Texts /\ t1 \in Texts /\ t2 \in Texts /\ t3 \in Texts
      BY <1>5, <1>9 DEF Neat
    <2>2. Words(y) = Words(x) \o Words(t3)
      <3> HIDE DEF x, t3, s
      <3> QED
        BY <1>8, <2>1, WordsAtBlank
    <2>3. Words(x) = Words(t1) \o Words(t2)
      <3> HIDE DEF t1, t2, s
      <3> QED
        BY <1>8, <2>1, WordsAtBlank
    <2> QED
      BY <2>2, <2>3
  <1>14. deed = ReadResurrect(Words(y))
    BY <1>12 DEF Arrived, Handled
  <1> HIDE DEF x, y, t1, t2, t3
  <1>15. ASSUME Token(t1), Token(t2), Token(t3)
         PROVE  deed = IF NormalizeNickTarget(t1) = <<>> THEN Nothing ELSE Wanted
    <2>1. Words(t1) = <<t1>> /\ Words(t2) = <<t2>> /\ Words(t3) = <<t3>>
      BY <1>15, WordsOfToken
    <2> DEFINE a == Words(y)
    <2>2. Len(a) = 3 /\ a[1] = t1 /\ a[2] = t2 /\ a[3] = t3
      <3>1. a = (<<t1>> \o <<t2>>) \o <<t3>>
        BY <1>13, <2>1
      <3>2. t1 \in Texts /\ t2 \in Texts /\ t3 \in Texts
        BY <1>5 DEF Neat
      <3> HIDE DEF a
      <3>3. /\ Len((<<t1>> \o <<t2>>) \o <<t3>>) = 3 /\ ((<<t1>> \o <<t2>>) \o <<t3>>)[1] = t1
            /\ ((<<t1>> \o <<t2>>) \o <<t3>>)[2] = t2 /\ ((<<t1>> \o <<t2>>) \o <<t3>>)[3] = t3
        BY <3>2, ThreeInARow
      <3> QED
        BY <3>1, <3>3, Zenon
    <2>3. deed = ReadResurrect(a)
      BY <1>14
    <2> HIDE DEF a
    <2> QED
      BY <1>7, <2>2, <2>3 DEF ReadResurrect
  <1>16. Plain => deed = Wanted
    BY <1>5, <1>15, PlainText
  <1>17. ~UnderReview
    BY NotUnderReview
  <1>18. deed # Do("list", <<OwnRoom>>)
    <2>1. deed.verb # "list"
      BY <1>14 DEF ReadResurrect, Do, Nothing
    <2> QED
      BY <2>1 DEF Do
  <1> QED
    BY <1>5, <1>15, <1>16, <1>17, <1>18 DEF Honest

-----------------------------------------------------------------------------
(* A prefix, no argument, and a number *)

(* The prefixes are the words that were given.                             *)
LEMMA PrefixIsHonest ==
    ASSUME Arrived, call.tool = "prefix"
    PROVE  Honest
  <1> DEFINE p == OptionalString("prefix")
             r == Trimmed(call.given, "prefix")
  <1>1. Catalog[call.tool] = <<p>> /\ call.tool \notin OwnEncoding
    BY CatalogIs DEF OwnEncoding
  <1>2. p.name = "prefix" /\ p.type = "string" /\ p.enum = {} /\ p.required = FALSE
    BY OptionalStringIs
  <1> HIDE DEF p
  <1>3. DOMAIN Catalog[call.tool] = {1} /\ Catalog[call.tool][1] = p /\ p \in Range(Catalog[call.tool])
    BY <1>1 DEF Range
  <1>4. tail = TrimSpace(Joined(<<r>>, "space"))
    <2>1. [i \in DOMAIN Catalog[call.tool] |-> Trimmed(call.given, Catalog[call.tool][i].name)] = <<r>>
      BY <1>1, <1>2
    <2> HIDE DEF r
    <2> QED
      BY <1>1, <2>1, PositionalCall
  <1>5. /\ Neat(r)
        /\ Plain => r = <<>> \/ r \in {<<"a">>, <<"b">>}
    <2>1. CASE "prefix" \notin DOMAIN call.given
      <3>1. r = <<>>
        BY <2>1 DEF Trimmed
      <3>2. <<>> \in Texts
        BY DEF Texts
      <3> HIDE DEF r
      <3> QED
        BY <3>1, <3>2 DEF Neat
    <2>2. CASE "prefix" \in DOMAIN call.given
      <3> DEFINE v == call.given["prefix"]
      <3>1. Accepts(p, v) /\ v \in Offered("prefix")
        <4>1. 1 \in DOMAIN Catalog[call.tool] /\ p = Catalog[call.tool][1]
          BY <1>3
        <4> QED
          BY <1>2, <2>2, <4>1, FieldGiven
      <3>2. Written(p) = Range(v.texts) /\ r = TrimSpace(Text(v))
        BY <1>2, <2>2 DEF Written, Trimmed
      <3> HIDE DEF v, r
      <3>3. v.type = "string"
        BY <1>2, <3>1 DEF Accepts, AcceptsType
      <3>4. Text(v) \in Texts /\ Range(v.texts) = {Text(v)}
        <4>1. "prefix" \in FreeNames
          BY DEF FreeNames
        <4> QED
          BY <3>1, <3>3, <4>1, FreeText
      <3>5. Neat(r)
        BY <3>2, <3>4, TrimIsNeat
      <3>6. ASSUME Plain PROVE r \in {<<"a">>, <<"b">>}
        <4>1. Text(v) \in {<<"a">>, <<"b">>}
          BY <1>2, <1>3, <3>2, <3>4, <3>6, PlainGiven DEF Free
        <4> QED
          BY <3>2, <4>1, PlainText
      <3> QED
        BY <3>5, <3>6
    <2> QED
      BY <2>1, <2>2
  <1>6. Wanted = Do("prefix", Distinct(Words(r)))
    BY DEF Wanted
  <1> HIDE DEF r
  <1>7. Arguments(Message(TrimSpace(tail))) = Words(r)
    BY <1>4, <1>5, JoinedOfOne, NeatMessage
  <1>8. deed = ReadPrefix(Words(r))
    BY <1>7 DEF Arrived, Handled
  <1>9. deed \in {Wanted, Nothing}
    BY <1>6, <1>8 DEF ReadPrefix
  <1>10. ASSUME Plain PROVE deed = Wanted
    <2>1. CASE r = <<>>
      <3>1. Words(r) = <<>> /\ DOMAIN <<>> = {}
        BY <2>1, WordsOfNothing
      <3> QED
        BY <1>6, <1>8, <3>1 DEF ReadPrefix
    <2>2. CASE r \in {<<"a">>, <<"b">>}
      <3>1. Words(r) = <<r>>
        BY <2>2, PlainText, WordsOfToken
      <3>2. DOMAIN <<r>> = {1} /\ <<r>>[1] = r
        OBVIOUS
      <3>3. "control" \notin Range(r)
        BY <2>2 DEF Range
      <3> QED
        BY <1>6, <1>8, <3>1, <3>2, <3>3 DEF ReadPrefix
    <2> QED
      BY <1>5, <1>10, <2>1, <2>2
  <1>11. ~UnderReview
    BY NotUnderReview
  <1>12. deed # Do("list", <<OwnRoom>>)
    BY <1>6, <1>9 DEF Do, Nothing
  <1> QED
    BY <1>9, <1>10, <1>11, <1>12 DEF Honest

(* A command without arguments.                                            *)
LEMMA UnbanallIsHonest ==
    ASSUME Arrived, call.tool = "unbanall"
    PROVE  Honest
  <1>1. deed = Do("unban-all", <<>>) /\ Wanted = Do("unban-all", <<>>)
    BY DEF Arrived, Handled, Wanted
  <1>2. ~UnderReview
    BY NotUnderReview
  <1>3. deed # Do("list", <<OwnRoom>>)
    BY <1>1 DEF Do
  <1> QED
    BY <1>1, <1>2, <1>3 DEF Honest

(* The number of messages is the number that was given.                    *)
LEMMA MessagesIsHonest ==
    ASSUME Arrived, call.tool = "messages"
    PROVE  Honest
  <1> DEFINE p == RequiredToken("trip")
             q == RequiredInteger("count", 1, 30)
             t == Trimmed(call.given, "trip")
             v == call.given["count"]
             c == Trimmed(call.given, "count")
             w == Text(call.given["trip"])
             k == Number(v)
  <1>1. Catalog[call.tool] = <<p, q>> /\ call.tool \notin OwnEncoding
    BY CatalogIs DEF OwnEncoding
  <1>2. /\ p.name = "trip" /\ p.type = "string" /\ p.required = TRUE /\ p.enum = {} /\ p.token = TRUE
        /\ q.name = "count" /\ q.type = "integer" /\ q.required = TRUE /\ q.least = 1 /\ q.most = 30
    <2>1. p.name = "trip" /\ p.type = "string" /\ p.required = TRUE /\ p.enum = {} /\ p.token = TRUE
      BY RequiredTokenIs
    <2>2. /\ q.name = "count" /\ q.type = "integer" /\ q.required = TRUE
          /\ q.least = 1 /\ q.most = 30
      <3>1. q.name = "count" /\ q.type = "integer"
        BY DEF RequiredInteger, Property
      <3>2. q.required = TRUE
        BY DEF RequiredInteger, Property
      <3>3. q.least = 1 /\ q.most = 30
        BY DEF RequiredInteger, Property
      <3> QED
        BY <3>1, <3>2, <3>3
    <2> HIDE DEF p, q
    <2> QED
      BY <2>1, <2>2
  <1> HIDE DEF p, q
  <1>3. /\ DOMAIN Catalog[call.tool] = {1, 2} /\ Catalog[call.tool][1] = p /\ Catalog[call.tool][2] = q
        /\ Bound(p) /\ Free(p)
    BY <1>1, <1>2 DEF Bound, Free
  <1>4. /\ p \in Range(Catalog[call.tool]) /\ w \in Texts /\ Written(p) = {w}
        /\ t = TrimSpace(w) /\ Neat(t) /\ t # <<>>
    <2>1. 1 \in DOMAIN Catalog[call.tool] /\ p = Catalog[call.tool][1] /\ p.name \in FreeNames
      BY <1>2, <1>3 DEF FreeNames
    <2>2. /\ p \in Range(Catalog[call.tool]) /\ Text(call.given[p.name]) \in Texts
          /\ Written(p) = {Text(call.given[p.name])}
          /\ Trimmed(call.given, p.name) = TrimSpace(Text(call.given[p.name]))
          /\ Neat(Trimmed(call.given, p.name)) /\ Trimmed(call.given, p.name) # <<>>
      BY <1>1, <1>2, <2>1, StringArrives
    <2> QED
      BY <1>2, <2>2
  <1>5. q.name \in DOMAIN call.given /\ Accepts(q, v) /\ v \in Offered("count")
    <2>1. 2 \in DOMAIN Catalog[call.tool] /\ q = Catalog[call.tool][2]
      BY <1>3
    <2> QED
      BY <1>2, <2>1, FieldGiven
  <1>6. v.type = "integer"
    <2>1. IF q.name \in DOMAIN call.given THEN FieldIsEncoded(q, call.given[q.name]) ELSE ~q.required
      BY <1>1, <1>3, PositionalCall
    <2>2. FieldIsEncoded(q, v)
      BY <1>2, <1>5, <2>1
    <2> HIDE DEF v
    <2> QED
      BY <1>2, <2>2 DEF FieldIsEncoded
  <1>7. k \in 1..30
    BY <1>2, <1>5 DEF Accepts
  <1>8. PICK n \in Integrals : Text(v) = Numeral(n)
    <2> HIDE DEF v
    <2>1. v \in {Integer(n) : n \in Integrals} \cup {Decimal(n) : n \in Integrals}
      BY <1>5 DEF Offered
    <2>2. PICK n \in Integrals : v = Integer(n) \/ v = Decimal(n)
      BY <2>1
    <2>3. Text(v) = Numeral(n)
      BY <2>2 DEF Integer, Decimal, Text
    <2> QED
      BY <2>3
  <1>9. k \in Integrals /\ Numeral(k) = Text(v)
    BY <1>8 DEF Number
  <1>10. Token(Text(v))
    <2>1. ToString(k) \in STRING /\ ToString(k) \notin {"space", "nbsp"}
      BY <1>9, ArgumentsAssumption
    <2>2. ToString(k) \in Symbols /\ ToString(k) \notin Blank
      BY <2>1 DEF Symbols, Blank
    <2> QED
      BY <1>9, <2>2, OneSymbol DEF Numeral
  <1>11. c = Text(v)
    <2>1. c = TrimSpace(Text(v))
      BY <1>2, <1>5 DEF Trimmed
    <2> QED
      BY <1>10, <2>1, TokenIsNeat, NeatStays
  <1>12. Wanted = Do("messages", <<t, c>>)
    BY DEF Wanted
  <1>13. tail = TrimSpace(Joined(<<t, c>>, "space"))
    <2>1. [i \in DOMAIN Catalog[call.tool] |-> Trimmed(call.given, Catalog[call.tool][i].name)] = <<t, c>>
      BY <1>2, <1>3
    <2> HIDE DEF t, c
    <2> QED
      BY <1>1, <2>1, PositionalCall
  <1>14. Token(c) /\ Neat(c) /\ c # <<>> /\ c \in Texts
    BY <1>10, <1>11, TokenIsNeat DEF Token
  <1> DEFINE s == "space"
  <1>15. s \in Symbols /\ s \in Blank
    BY CommaIsSymbol
  <1>16. tail = TrimSpace(t \o <<s>> \o c)
    BY <1>4, <1>13, <1>14, JoinedOfTwo
  <1> HIDE DEF t, c, s, v, w, k
  <1>17. Neat(t \o <<s>> \o c)
    BY <1>4, <1>14, <1>15, NeatTogether
  <1>18. Arguments(Message(TrimSpace(tail))) = Words(t) \o <<c>>
    <2>1. Arguments(Message(TrimSpace(tail))) = Words(t \o <<s>> \o c)
      BY <1>16, <1>17, NeatMessage
    <2>2. t \in Texts
      BY <1>4 DEF Neat
    <2>3. Words(t \o <<s>> \o c) = Words(t) \o Words(c)
      BY <1>14, <1>15, <2>2, WordsAtBlank
    <2>4. Words(c) = <<c>>
      BY <1>14, WordsOfToken
    <2> QED
      BY <2>1, <2>3, <2>4
  <1>19. deed = ReadMessages(Words(t) \o <<c>>)
    BY <1>18 DEF Arrived, Handled
  <1>20. ASSUME Token(t) PROVE deed = Wanted
    <2>1. Words(t) \o <<c>> = <<t, c>>
      <3>1. Words(t) = <<t>> /\ t \in Texts
        BY <1>20, WordsOfToken DEF Token
      <3> QED
        BY <1>14, <3>1, TwoInARow
    <2> DEFINE a == <<t, c>>
    <2>2. deed = ReadMessages(a) /\ a[1] = t /\ a[2] = c /\ Len(a) = 2
      BY <1>19, <2>1
    <2> HIDE DEF a
    <2>3. \E j \in Integrals : j > 0 /\ Numeral(j) = a[2]
      BY <1>7, <1>9, <1>11, <2>2
    <2>4. (CHOOSE j \in Integrals : Numeral(j) = a[2]) = k
      BY <1>11, <2>2 DEF k, Number
    <2>5. Min({30, k}) = k
      <3>1. {30, k} \in SUBSET Nat /\ {30, k} # {}
        BY <1>7
      <3>2. Min({30, k}) \in {30, k} /\ \A y \in {30, k} : Min({30, k}) <= y
        <4> DEFINE S == {30, k}
        <4>1. S \in SUBSET Nat /\ S # {}
          BY <3>1
        <4> HIDE DEF S
        <4>2. Min(S) \in S /\ \A y \in S : Min(S) <= y
          BY <4>1, MinOfNumbers
        <4> QED
          BY <4>2 DEF S
      <3> QED
        BY <1>7, <3>2
    <2>6. ReadMessages(a) = Do("messages", <<a[1], Numeral(k)>>)
      <3>1. ~ (Len(a) < 2)
        BY <2>2
      <3> QED
        BY <2>3, <2>4, <2>5, <3>1 DEF ReadMessages
    <2> QED
      BY <1>9, <1>11, <1>12, <2>2, <2>6
  <1>21. Undivided => Token(t)
    BY <1>3, <1>4, UndividedToken
  <1>22. Plain => Token(t)
    BY <1>3, <1>4, PlainGiven, PlainText
  <1>23. ~UnderReview
    BY NotUnderReview
  <1>24. deed # Do("list", <<OwnRoom>>)
    <2>1. deed.verb # "list"
      BY <1>19 DEF ReadMessages, Do, Nothing
    <2> QED
      BY <2>1 DEF Do
  <1> QED
    BY <1>20, <1>21, <1>22, <1>23, <1>24 DEF Honest

-----------------------------------------------------------------------------
(* Switches and choices *)

(* What a switch becomes is one word.                                      *)
LEMMA OnAndOff ==
    ASSUME NEW x, x \in {"on", "off"}
    PROVE  Token(<<x>>) /\ TrimSpace(<<x>>) = <<x>> /\ Words(<<x>>) = << <<x>> >>
  <1>1. x \in Symbols /\ x \notin Blank
    BY DEF Symbols, Literals, Blank
  <1>2. Token(<<x>>)
    BY <1>1, OneSymbol
  <1> DEFINE t == <<x>>
  <1> HIDE DEF t
  <1>3. TrimSpace(t) = t /\ Words(t) = <<t>>
    BY <1>2, TokenIsNeat, NeatStays, WordsOfToken DEF t
  <1> QED
    BY <1>2, <1>3 DEF t

(* A switch: its argument becomes "on" or "off".                           *)
LEMMA SwitchArrives ==
    ASSUME Arrived, NEW name \in {"enabled", "locked"},
           Catalog[call.tool] = <<TypedProperty(name, "boolean")>>,
           Encode(call.tool, call.given) = BooleanState(call.given[name])
    PROVE  Arguments(Message(TrimSpace(tail)))
             = IF Enabled(call.given[name]) THEN << <<"on">> >> ELSE << <<"off">> >>
  <1> DEFINE x == IF Enabled(call.given[name]) THEN "on" ELSE "off"
  <1>1. x \in {"on", "off"}
    OBVIOUS
  <1>2. BooleanState(call.given[name]) = BoundedTail(<<x>>)
    BY DEF BooleanState
  <1>3. << <<x>> >> = IF Enabled(call.given[name]) THEN << <<"on">> >> ELSE << <<"off">> >>
    OBVIOUS
  <1> HIDE DEF x
  <1>4. tail = TrimSpace(<<x>>)
    BY <1>2, BoundedTailIs DEF Arrived
  <1>5. Neat(<<x>>) /\ Words(<<x>>) = << <<x>> >>
    BY <1>1, OnAndOff, TokenIsNeat
  <1>6. Arguments(Message(TrimSpace(tail))) = Words(<<x>>)
    BY <1>4, <1>5, NeatMessage
  <1> QED
    BY <1>3, <1>5, <1>6

(* The captcha is switched as it was asked.                                *)
LEMMA CaptchaIsHonest ==
    ASSUME Arrived, call.tool = "captcha"
    PROVE  Honest
  <1> DEFINE v == call.given["enabled"]
  <1>1. Arguments(Message(TrimSpace(tail))) = IF Enabled(v) THEN << <<"on">> >> ELSE << <<"off">> >>
    <2>1. Catalog[call.tool] = <<TypedProperty("enabled", "boolean")>>
      BY CatalogIs
    <2>2. Encode(call.tool, call.given) = BooleanState(call.given["enabled"])
      BY DEF Encode
    <2> QED
      BY <2>1, <2>2, SwitchArrives
  <1>2. deed = ReadCaptcha(Arguments(Message(TrimSpace(tail))))
    BY DEF Arrived, Handled
  <1>3. Wanted = Do(IF Enabled(v) THEN "captcha-on" ELSE "captcha-off", <<>>)
    BY DEF Wanted
  <1> HIDE DEF v
  <1>4. << <<"on">> >> # <<>> /\ << <<"on">> >>[1] = <<"on">> /\ << <<"off">> >> # <<>>
        /\ << <<"off">> >>[1] = <<"off">> /\ <<"off">> # <<"on">>
    OBVIOUS
  <1>5. deed = Wanted
    BY <1>1, <1>2, <1>3, <1>4 DEF ReadCaptcha
  <1>6. ~UnderReview
    BY NotUnderReview
  <1>7. deed # Do("list", <<OwnRoom>>)
    BY <1>3, <1>5 DEF Do
  <1> QED
    BY <1>5, <1>6, <1>7 DEF Honest

(* The room is locked as it was asked.                                     *)
LEMMA LockIsHonest ==
    ASSUME Arrived, call.tool = "lock"
    PROVE  Honest
  <1> DEFINE v == call.given["locked"]
  <1>1. Arguments(Message(TrimSpace(tail))) = IF Enabled(v) THEN << <<"on">> >> ELSE << <<"off">> >>
    <2>1. Catalog[call.tool] = <<TypedProperty("locked", "boolean")>>
      BY CatalogIs
    <2>2. Encode(call.tool, call.given) = BooleanState(call.given["locked"])
      BY DEF Encode
    <2> QED
      BY <2>1, <2>2, SwitchArrives
  <1>2. deed = ReadLock(Arguments(Message(TrimSpace(tail))))
    BY DEF Arrived, Handled
  <1>3. Wanted = Do(IF Enabled(v) THEN "lock" ELSE "unlock", <<>>)
    BY DEF Wanted
  <1> HIDE DEF v
  <1>4. << <<"on">> >> # <<>> /\ << <<"on">> >>[1] = <<"on">> /\ << <<"off">> >> # <<>>
        /\ << <<"off">> >>[1] = <<"off">> /\ <<"off">> # <<"on">>
    OBVIOUS
  <1>5. deed = Wanted
    BY <1>1, <1>2, <1>3, <1>4 DEF ReadLock
  <1>6. ~UnderReview
    BY NotUnderReview
  <1>7. deed # Do("list", <<OwnRoom>>)
    BY <1>3, <1>5 DEF Do
  <1> QED
    BY <1>5, <1>6, <1>7 DEF Honest

(* A string of a closed set that a call must have.                         *)
LEMMA EnumArrives ==
    ASSUME Arrived, NEW i \in DOMAIN Catalog[call.tool], NEW name, NEW values \in SUBSET Literals,
           values # {}, values \cap Blank = {}, Catalog[call.tool][i] = EnumString(name, values),
           name \in {"operation", "mode", "role"}
    PROVE  \E x \in values : /\ Text(call.given[name]) = <<x>> /\ Trimmed(call.given, name) = <<x>>
                             /\ Token(<<x>>)
  <1> DEFINE p == EnumString(name, values)
             v == call.given[name]
  <1>1. p.name = name /\ p.required = TRUE /\ p.enum = {<<x>> : x \in values} /\ p = Catalog[call.tool][i]
    BY EnumStringIs
  <1> HIDE DEF p
  <1>2. p.name \in DOMAIN call.given /\ Accepts(p, v) /\ v \in Offered(p.name)
    BY <1>1, FieldGiven
  <1>3. Trimmed(call.given, name) = TrimSpace(Text(v))
    BY <1>1, <1>2 DEF Trimmed
  <1> HIDE DEF v
  <1>4. Text(v) \in p.enum
    <2>1. p.enum # {}
      BY <1>1
    <2> QED
      BY <1>2, <2>1 DEF Accepts
  <1>5. PICK x \in values : Text(v) = <<x>>
    BY <1>1, <1>4
  <1>6. x \in Symbols /\ x \notin Blank
    BY DEF Symbols
  <1>7. Token(<<x>>)
    BY <1>6, OneSymbol
  <1>8. TrimSpace(<<x>>) = <<x>>
    BY <1>7, TokenIsNeat, NeatStays
  <1> QED
    BY <1>3, <1>5, <1>7, <1>8 DEF v

(* A string that need not be there.                                        *)
LEMMA OptionalArrives ==
    ASSUME Arrived, NEW i \in DOMAIN Catalog[call.tool], NEW name \in FreeNames,
           NEW p, p = Catalog[call.tool][i], p.name = name, p.type = "string", p.enum = {}, Bound(p)
    PROVE  /\ Neat(Trimmed(call.given, name))
           /\ Undivided /\ Trimmed(call.given, name) # <<>> => Token(Trimmed(call.given, name))
           /\ Plain /\ Trimmed(call.given, name) # <<>>
                => Trimmed(call.given, name) \in {<<"a">>, <<"b">>}
  <1> DEFINE r == Trimmed(call.given, name)
  <1>1. CASE name \notin DOMAIN call.given
    <2>1. r = <<>>
      BY <1>1 DEF Trimmed
    <2>2. <<>> \in Texts
      BY DEF Texts
    <2> HIDE DEF r
    <2>3. Neat(r) /\ r = <<>>
      BY <2>1, <2>2 DEF Neat
    <2> QED
      BY <2>3 DEF r
  <1>2. CASE name \in DOMAIN call.given
    <2> DEFINE v == call.given[name]
    <2>1. p \in Range(Catalog[call.tool]) /\ Accepts(p, v) /\ v \in Offered(name)
      BY <1>2, FieldGiven
    <2>2. Written(p) = Range(v.texts) /\ r = TrimSpace(Text(v))
      BY <1>2 DEF Written, Trimmed
    <2> HIDE DEF v, r
    <2>3. v.type = "string"
      BY <2>1 DEF Accepts, AcceptsType
    <2>4. Text(v) \in Texts /\ Range(v.texts) = {Text(v)}
      BY <2>1, <2>3, FreeText
    <2>5. Neat(r)
      BY <2>2, <2>4, TrimIsNeat
    <2>6. ASSUME Undivided PROVE Token(r)
      BY <2>1, <2>2, <2>4, <2>6, UndividedToken
    <2>7. ASSUME Plain PROVE r \in {<<"a">>, <<"b">>}
      <3>1. Text(v) \in {<<"a">>, <<"b">>}
        BY <2>1, <2>2, <2>4, <2>7, PlainGiven DEF Free
      <3> QED
        BY <2>2, <3>1, PlainText
    <2> QED
      BY <2>5, <2>6, <2>7 DEF r
  <1> QED
    BY <1>1, <1>2

(* Listing notes does not purge them.                                      *)
LEMMA NotesIsHonest ==
    ASSUME Arrived, call.tool = "notes"
    PROVE  Honest
  <1>1. PICK x \in {"list", "purge"} :
            Text(call.given["operation"]) = <<x>> /\ Trimmed(call.given, "operation") = <<x>>
    <2> DEFINE values == {"list", "purge"}
    <2>1. /\ values \in SUBSET Literals /\ values # {} /\ values \cap Blank = {}
          /\ 1 \in DOMAIN Catalog[call.tool] /\ Catalog[call.tool][1] = EnumString("operation", values)
      BY CatalogIs DEF Literals, Blank
    <2> HIDE DEF values
    <2>2. \E x \in values :
            Text(call.given["operation"]) = <<x>> /\ Trimmed(call.given, "operation") = <<x>>
      BY <2>1, EnumArrives
    <2> QED
      BY <2>2 DEF values
  <1> DEFINE t == IF x = "purge" THEN <<"purge">> ELSE <<>>
  <1>2. tail = t
    BY <1>1 DEF Arrived, Encode, NotesArguments
  <1>3. Neat(t) /\ Words(t) = IF x = "purge" THEN << <<"purge">> >> ELSE <<>>
    <2>1. CASE x = "purge"
      <3> DEFINE y == <<"purge">>
      <3>1. "purge" \in Symbols /\ "purge" \notin Blank
        BY DEF Symbols, Literals, Blank
      <3>2. Token(y) /\ t = y
        BY <2>1, <3>1, OneSymbol
      <3> HIDE DEF y, t
      <3>3. Neat(y) /\ Words(y) = <<y>>
        BY <3>2, TokenIsNeat, WordsOfToken
      <3> QED
        BY <2>1, <3>2, <3>3 DEF y
    <2>2. CASE x # "purge"
      <3>1. <<>> \in Texts /\ t = <<>>
        BY <2>2 DEF Texts
      <3> HIDE DEF t
      <3> QED
        BY <2>2, <3>1, WordsOfNothing DEF Neat
    <2> QED
      BY <2>1, <2>2
  <1> HIDE DEF t
  <1>4. Arguments(Message(TrimSpace(tail))) = Words(t)
    BY <1>2, <1>3, NeatStays, NeatMessage
  <1>5. deed = ReadNotes(Words(t))
    BY <1>4 DEF Arrived, Handled
  <1>6. Wanted = Do(IF x = "purge" THEN "purge-notes" ELSE "list-notes", <<>>)
    BY <1>1 DEF Wanted
  <1>7. deed = Wanted
    <2>1. << <<"purge">> >> # <<>>
      OBVIOUS
    <2> QED
      BY <1>3, <1>5, <1>6, <2>1 DEF ReadNotes
  <1>8. ~UnderReview
    BY NotUnderReview
  <1>9. deed # Do("list", <<OwnRoom>>)
    BY <1>6, <1>7 DEF Do
  <1> QED
    BY <1>7, <1>8, <1>9 DEF Honest

-----------------------------------------------------------------------------
(* A choice with free texts *)

(* An exact shadow ban does not become one of every nick that holds the    *)
(* target.                                                                 *)
LEMMA ShadowbanIsHonest ==
    ASSUME Arrived, call.tool = "shadowban"
    PROVE  Honest
  <1> DEFINE p == RequiredString("target")
             t == Trimmed(call.given, "target")
             mode == Text(call.given["mode"])
  <1>1. PICK x \in {"exact", "contains"} : mode = <<x>> /\ Trimmed(call.given, "mode") = <<x>>
    <2> DEFINE values == {"exact", "contains"}
    <2>1. /\ values \in SUBSET Literals /\ values # {} /\ values \cap Blank = {}
          /\ 1 \in DOMAIN Catalog[call.tool] /\ Catalog[call.tool][1] = EnumString("mode", values)
      BY CatalogIs DEF Literals, Blank
    <2> HIDE DEF values
    <2>2. \E x \in values : mode = <<x>> /\ Trimmed(call.given, "mode") = <<x>>
      BY <2>1, EnumArrives
    <2> QED
      BY <2>2 DEF values
  <1>2. /\ 2 \in DOMAIN Catalog[call.tool] /\ p = Catalog[call.tool][2]
    BY CatalogIs
  <1>3. p.name = "target" /\ p.type = "string" /\ p.enum = {} /\ "target" \in FreeNames
    BY RequiredStringIs DEF FreeNames
  <1> HIDE DEF p
  <1>4. Neat(t) /\ (Undivided /\ t # <<>> => Token(t)) /\ (Plain /\ t # <<>> => t \in {<<"a">>, <<"b">>})
    <2>1. Bound(p)
      BY <1>3 DEF Bound
    <2> QED
      BY <1>2, <1>3, <2>1, OptionalArrives
  <1>5. ShadowBanArguments(mode, t).ok /\ tail = ShadowBanArguments(mode, t).tail
    BY DEF Arrived, Encode
  <1>6. Wanted = Do(IF x = "exact" THEN "shadow" ELSE "shadow-those-with", <<t>>)
    BY <1>1 DEF Wanted
  <1>7. deed = ReadShadowban(Arguments(Message(TrimSpace(tail))))
    BY DEF Arrived, Handled
  <1> HIDE DEF t, mode
  <1>8. t # <<>>
    BY <1>5, BoundedTailIs DEF ShadowBanArguments, ValidToken
  <1>9. ASSUME Token(t) PROVE deed \in {Wanted, Nothing} /\ (t # <<"-c">> => deed = Wanted)
    <2>1. CASE x = "exact"
      <3>1. t # <<"-c">> /\ tail = TrimSpace(t)
        BY <1>1, <1>5, <2>1, BoundedTailIs DEF ShadowBanArguments
      <3>2. Arguments(Message(TrimSpace(tail))) = <<t>>
        BY <1>4, <1>9, <3>1, NeatMessage, WordsOfToken
      <3>3. Len(<<t>>) = 1 /\ <<t>>[1] = t
        OBVIOUS
      <3>4. deed = Do("shadow", <<t>>)
        BY <1>7, <3>1, <3>2, <3>3 DEF ReadShadowban
      <3> QED
        BY <1>6, <2>1, <3>4
    <2>2. CASE x = "contains"
      <3> DEFINE c == <<"-c">>
                 s == "space"
      <3>1. Token(c) /\ c \in Texts /\ c # <<>> /\ s \in Symbols /\ s \in Blank
        <4>1. "-c" \in Symbols /\ "-c" \notin Blank
          BY DEF Symbols, Literals, Blank
        <4> QED
          BY <4>1, OneSymbol, CommaIsSymbol DEF Token
      <3>2. tail = TrimSpace(c \o <<s>> \o t)
        <4>1. <<"-c", "space">> = c \o <<s>>
          BY TwoInARow
        <4>2. mode = <<"contains">>
          BY <1>1, <2>2
        <4>3. ShadowBanArguments(mode, t) = BoundedTail(<<"-c", "space">> \o t)
          BY <1>5, <4>2, BoundedTailIs DEF ShadowBanArguments
        <4> QED
          BY <1>5, <4>1, <4>3, BoundedTailIs
      <3>3. Neat(c \o <<s>> \o t)
        <4> HIDE DEF c, s
        <4> QED
          BY <1>4, <1>8, <3>1, NeatTogether, TokenIsNeat
      <3>4. Words(c \o <<s>> \o t) = Words(c) \o Words(t)
        <4> HIDE DEF c, s
        <4> QED
          BY <1>4, <3>1, WordsAtBlank DEF Neat
      <3>5. Words(c) = <<c>> /\ Words(t) = <<t>> /\ t \in Texts
        <4> HIDE DEF c
        <4> QED
          BY <1>9, <3>1, WordsOfToken DEF Token
      <3> HIDE DEF c, s
      <3>6. Arguments(Message(TrimSpace(tail))) = <<c, t>>
        <4>1. Arguments(Message(TrimSpace(tail))) = <<c>> \o <<t>>
          BY <3>2, <3>3, <3>4, <3>5, NeatMessage
        <4> QED
          BY <3>1, <3>5, <4>1, TwoInARow
      <3>7. Len(<<c, t>>) = 2 /\ <<c, t>>[1] = <<"-c">> /\ <<c, t>>[2] = t /\ Tail(<<c, t>>) = <<t>>
        <4>1. Tail(<<c>> \o <<t>>) = <<t>>
          <5>1. <<t>> \in Seq(Texts) /\ c \in Texts
            BY <3>1, <3>5
          <5> QED
            BY <5>1, TailBehindOne
        <4>2. <<c>> \o <<t>> = <<c, t>>
          BY <3>1, <3>5, TwoInARow
        <4> QED
          BY <4>1, <4>2 DEF c
      <3> DEFINE a == <<c, t>>
      <3>8. deed = ReadShadowban(a) /\ Len(a) = 2 /\ a[1] = <<"-c">> /\ a[2] = t /\ Tail(a) = <<t>>
        BY <1>7, <3>6, <3>7
      <3> HIDE DEF a
      <3>9. deed = IF t # <<"-c">> THEN Do("shadow-those-with", <<t>>) ELSE Nothing
        BY <3>8 DEF ReadShadowban
      <3> QED
        BY <1>6, <2>2, <3>9
    <2> QED
      BY <2>1, <2>2
  <1>10. Undivided => deed \in {Wanted, Nothing}
    BY <1>4, <1>8, <1>9
  <1>11. Plain => deed = Wanted
    <2>1. \A w \in {<<"a">>, <<"b">>} : w # <<"-c">>
      OBVIOUS
    <2> QED
      BY <1>4, <1>8, <1>9, <2>1, PlainText
  <1>12. ~UnderReview
    BY NotUnderReview
  <1>13. deed # Do("list", <<OwnRoom>>)
    <2>1. deed.verb # "list"
      BY <1>7 DEF ReadShadowban, Do, Nothing
    <2> QED
      BY <2>1 DEF Do
  <1> QED
    BY <1>10, <1>11, <1>12, <1>13 DEF Honest

(* Automove is switched or given its two rooms, as it was asked.           *)
LEMMA AutomoveIsHonest ==
    ASSUME Arrived, call.tool = "automove"
    PROVE  Honest
  <1> DEFINE p == OptionalString("source")
             q == OptionalString("destination")
             s == Trimmed(call.given, "source")
             d == Trimmed(call.given, "destination")
             op == Text(call.given["operation"])
  <1>1. PICK x \in {"enable", "disable", "configure"} :
            op = <<x>> /\ Trimmed(call.given, "operation") = <<x>>
    <2> DEFINE values == {"enable", "disable", "configure"}
    <2>1. /\ values \in SUBSET Literals /\ values # {} /\ values \cap Blank = {}
          /\ 1 \in DOMAIN Catalog[call.tool] /\ Catalog[call.tool][1] = EnumString("operation", values)
      BY CatalogIs DEF Literals, Blank
    <2> HIDE DEF values
    <2>2. \E x \in values : op = <<x>> /\ Trimmed(call.given, "operation") = <<x>>
      BY <2>1, EnumArrives
    <2> QED
      BY <2>2 DEF values
  <1>2. /\ 2 \in DOMAIN Catalog[call.tool] /\ p = Catalog[call.tool][2]
        /\ 3 \in DOMAIN Catalog[call.tool] /\ q = Catalog[call.tool][3]
    BY CatalogIs
  <1>3. /\ p.name = "source" /\ p.type = "string" /\ p.enum = {} /\ "source" \in FreeNames
        /\ q.name = "destination" /\ q.type = "string" /\ q.enum = {} /\ "destination" \in FreeNames
    BY OptionalStringIs DEF FreeNames
  <1> HIDE DEF p, q
  <1>4. /\ Neat(s) /\ (Undivided /\ s # <<>> => Token(s)) /\ (Plain /\ s # <<>> => s \in {<<"a">>, <<"b">>})
        /\ Neat(d) /\ (Undivided /\ d # <<>> => Token(d)) /\ (Plain /\ d # <<>> => d \in {<<"a">>, <<"b">>})
    <2>1. Bound(p) /\ Bound(q)
      BY <1>3 DEF Bound
    <2>2. Neat(s) /\ (Undivided /\ s # <<>> => Token(s)) /\ (Plain /\ s # <<>> => s \in {<<"a">>, <<"b">>})
      BY <1>2, <1>3, <2>1, OptionalArrives
    <2>3. Neat(d) /\ (Undivided /\ d # <<>> => Token(d)) /\ (Plain /\ d # <<>> => d \in {<<"a">>, <<"b">>})
      BY <1>2, <1>3, <2>1, OptionalArrives
    <2> QED
      BY <2>2, <2>3
  <1>5. AutomoveArguments(op, s, d).ok /\ tail = AutomoveArguments(op, s, d).tail
    BY DEF Arrived, Encode
  <1>6. Wanted = IF x = "configure" THEN Do("automove-rooms", <<s, d>>)
                 ELSE Do(IF x = "enable" THEN "automove-on" ELSE "automove-off", <<>>)
    BY <1>1 DEF Wanted
  <1>7. deed = ReadAutomove(Arguments(Message(TrimSpace(tail))))
    BY DEF Arrived, Handled
  <1>8. NotASwitch => s \notin {<<"on">>, <<"off">>}
    BY DEF NotASwitch
  <1> HIDE DEF s, d, op
  <1>9. ASSUME x # "configure" PROVE deed = Wanted
    <2> DEFINE y == IF x = "enable" THEN "on" ELSE "off"
    <2>1. tail = <<y>>
      BY <1>1, <1>5, <1>9, BoundedTailIs DEF AutomoveArguments
    <2>2. y \in {"on", "off"}
      OBVIOUS
    <2> HIDE DEF y
    <2>3. Arguments(Message(TrimSpace(tail))) = << <<y>> >>
      <3>1. Token(<<y>>) /\ TrimSpace(<<y>>) = <<y>> /\ Words(<<y>>) = << <<y>> >>
        BY <2>2, OnAndOff
      <3> QED
        BY <2>1, <3>1, TokenIsNeat, NeatMessage
    <2>4. << <<y>> >> # <<>> /\ << <<y>> >>[1] = <<y>>
      OBVIOUS
    <2>5. deed = Do(IF y = "on" THEN "automove-on" ELSE "automove-off", <<>>)
      BY <1>7, <2>2, <2>3, <2>4 DEF ReadAutomove
    <2> QED
      BY <1>6, <1>9, <2>5 DEF y
  <1>10. ASSUME x = "configure"
         PROVE  (Undivided /\ NotASwitch => deed = Wanted) /\ (Plain => deed = Wanted)
    <2> DEFINE m == "space"
    <2>1. s # <<>> /\ d # <<>> /\ tail = TrimSpace(s \o <<m>> \o d)
      BY <1>1, <1>5, <1>10, BoundedTailIs DEF AutomoveArguments, ValidToken
    <2>2. m \in Symbols /\ m \in Blank
      BY CommaIsSymbol
    <2> HIDE DEF m
    <2>3. ASSUME Token(s), Token(d)
          PROVE  s \notin {<<"on">>, <<"off">>} => deed = Wanted
      <3>1. Neat(s \o <<m>> \o d)
        BY <1>4, <2>1, <2>2, NeatTogether
      <3>2. s \in Texts /\ d \in Texts
        BY <1>4 DEF Neat
      <3>3. Words(s \o <<m>> \o d) = Words(s) \o Words(d)
        BY <2>2, <3>2, WordsAtBlank
      <3>4. Words(s) = <<s>> /\ Words(d) = <<d>>
        BY <2>3, WordsOfToken
      <3>5. <<s>> \o <<d>> = <<s, d>>
        BY <3>2, TwoInARow
      <3>6. Arguments(Message(TrimSpace(tail))) = <<s, d>>
        BY <2>1, <3>1, <3>3, <3>4, <3>5, NeatMessage
      <3> DEFINE a == <<s, d>>
      <3>7. deed = ReadAutomove(a) /\ Len(a) = 2 /\ a[1] = s /\ a # <<>>
        BY <1>7, <3>6
      <3>8. Wanted = Do("automove-rooms", a)
        BY <1>6, <1>10
      <3> HIDE DEF a
      <3> QED
        BY <3>7, <3>8 DEF ReadAutomove
    <2>4. Undivided /\ NotASwitch => deed = Wanted
      BY <1>4, <1>8, <2>1, <2>3
    <2>5. ASSUME Plain PROVE deed = Wanted
      <3>1. s \in {<<"a">>, <<"b">>} /\ d \in {<<"a">>, <<"b">>}
        BY <1>4, <2>1, <2>5
      <3>2. s \notin {<<"on">>, <<"off">>}
        BY <3>1
      <3> QED
        BY <2>3, <3>1, <3>2, PlainText
    <2> QED
      BY <2>4, <2>5
  <1>11. Undivided /\ NotASwitch => deed = Wanted
    BY <1>9, <1>10
  <1>12. Plain => deed = Wanted
    BY <1>9, <1>10
  <1>13. ~UnderReview
    BY NotUnderReview
  <1>14. deed # Do("list", <<OwnRoom>>)
    <2>1. deed.verb # "list"
      BY <1>7 DEF ReadAutomove, Do, Nothing
    <2> QED
      BY <2>1 DEF Do
  <1> QED
    BY <1>11, <1>12, <1>13, <1>14 DEF Honest

-----------------------------------------------------------------------------
(* A list and a role *)

(* A text that no comma ends keeps all of it.                              *)
LEMMA NoEndComma ==
    ASSUME NEW t \in Texts, t # <<>>, t[Len(t)] # "comma"
    PROVE  WithoutEndCommas(t) = t
  <1> DEFINE kept == {i \in DOMAIN t : t[i] # "comma"}
  <1>1. t \in Seq(Symbols) /\ Len(t) \in Nat /\ Len(t) >= 1 /\ DOMAIN t = 1..Len(t)
    BY DEF Texts
  <1>2. Len(t) \in kept /\ kept \in SUBSET (0..Len(t))
    BY <1>1
  <1>3. Max(kept) = Len(t)
    <2>1. Max(kept) \in kept /\ Len(t) <= Max(kept)
      BY <1>1, <1>2, MaxOfNumbers
    <2> QED
      BY <1>1, <1>2, <2>1
  <1>4. kept # {}
    BY <1>2
  <1>5. WithoutEndCommas(t) = SubSeq(t, 1, Max(kept))
    BY <1>4 DEF WithoutEndCommas
  <1> QED
    BY <1>1, <1>3, <1>5, SubSeqFull

(* The lists of an array that the schema accepts.                          *)
LEMMA ListArrives ==
    ASSUME Arrived, call.tool = "access"
    PROVE  LET v == call.given["trips"]
               p == TypedProperty("trips", "array")
           IN  /\ v.texts \in Seq(Seq(STRING)) /\ v.texts # <<>>
               /\ p \in Range(Catalog[call.tool]) /\ Bound(p) /\ Free(p) /\ Written(p) = Range(v.texts)
  <1> DEFINE v == call.given["trips"]
             p == TypedProperty("trips", "array")
  <1>1. 1 \in DOMAIN Catalog[call.tool] /\ p = Catalog[call.tool][1]
    BY CatalogIs
  <1>2. p.name = "trips" /\ p.type = "array" /\ p.required = TRUE /\ p.enum = {}
    BY DEF TypedProperty, Property
  <1> HIDE DEF p
  <1>3. /\ p \in Range(Catalog[call.tool]) /\ "trips" \in DOMAIN call.given
        /\ Accepts(p, v) /\ v \in Offered("trips")
    BY <1>1, <1>2, FieldGiven
  <1>4. Written(p) = Range(v.texts)
    BY <1>2, <1>3 DEF Written
  <1> HIDE DEF v
  <1>5. v.type = "array" /\ v.texts # <<>>
    BY <1>2, <1>3 DEF Accepts, AcceptsType
  <1>6. v.texts \in Seq(Seq(STRING))
    <2>1. v \in {Strings(list) : list \in WordLists} \cup {String(<<"a">>)}
      BY <1>3 DEF Offered
    <2>2. String(<<"a">>).type # "array"
      BY DEF String
    <2>3. PICK list \in WordLists : v = Strings(list)
      BY <1>5, <2>1, <2>2
    <2>4. v.texts = list
      BY <2>3 DEF Strings
    <2> QED
      BY <2>4, ArgumentsAssumption
  <1>7. Bound(p) /\ Free(p)
    BY <1>2 DEF Bound, Free
  <1> QED
    BY <1>3, <1>4, <1>5, <1>6, <1>7 DEF v, p

(* The members of a plain list are tokens.                                 *)
LEMMA PlainList ==
    ASSUME Plain, NEW p \in Range(Catalog[call.tool]), Free(p), NEW w \in Written(p)
    PROVE  Token(TrimSpace(w))
  <1>1. w \in {<<"a">>, <<"b">>}
    BY PlainGiven
  <1> QED
    BY <1>1, PlainText

(* A role is granted to the trips of the list, and to no part of one.      *)
LEMMA AccessIsHonest ==
    ASSUME Arrived, call.tool = "access"
    PROVE  Honest
  <1> DEFINE p == TypedProperty("trips", "array")
             v == call.given["trips"]
             list == v.texts
             role == Text(call.given["role"])
             values == [i \in DOMAIN list |-> TrimSpace(list[i])]
             m == "comma"
             s == "space"
             J == Joined(values, m)
  <1>1. PICK x \in Roles : role = <<x>> /\ Trimmed(call.given, "role") = <<x>> /\ Token(<<x>>)
    <2>1. /\ Roles \in SUBSET Literals /\ Roles # {} /\ Roles \cap Blank = {}
          /\ 2 \in DOMAIN Catalog[call.tool] /\ Catalog[call.tool][2] = EnumString("role", Roles)
      <3>1. 2 \in DOMAIN Catalog[call.tool] /\ Catalog[call.tool][2] = EnumString("role", Roles)
        BY CatalogIs
      <3>2. Roles \in SUBSET Literals /\ Roles # {} /\ Roles \cap Blank = {}
        BY DEF Literals, Blank, Roles
      <3> QED
        BY <3>1, <3>2
    <2> QED
      BY <2>1, EnumArrives
  <1>2. /\ list \in Seq(Seq(STRING)) /\ list # <<>>
        /\ p \in Range(Catalog[call.tool]) /\ Bound(p) /\ Free(p) /\ Written(p) = Range(list)
    BY ListArrives
  <1>3. CommaList(v, call.given["role"]).ok /\ tail = CommaList(v, call.given["role"]).tail
    BY DEF Arrived, Encode
  <1>4. (\A i \in DOMAIN values : ValidToken(values[i])) /\ tail = TrimSpace(J \o <<s>> \o role)
    <2>1. CommaList(v, call.given["role"]) =
            IF \A i \in DOMAIN values : ValidToken(values[i])
            THEN BoundedTail(J \o <<s>> \o role) ELSE Refusal
      BY Zenon DEF CommaList
    <2> HIDE DEF J, s, role, v, values
    <2> QED
      BY <1>3, <2>1, BoundedTailIs
  <1>5. Wanted = Do("grant", <<role>> \o Distinct(values))
    BY <1>1 DEF Wanted
  <1>6. deed = ReadAccess(Arguments(Message(TrimSpace(tail))))
    BY DEF Arrived, Handled
  <1>7. /\ m \in Symbols /\ m \notin Blank /\ s \in Symbols /\ s \in Blank
    BY CommaIsSymbol
  <1> HIDE DEF p, list, role, v
  <1>8. /\ Len(list) \in Nat /\ DOMAIN list = 1..Len(list)
        /\ \A i \in 1..Len(list) : list[i] \in Seq(STRING)
    BY <1>2
  <1>9. \A i \in DOMAIN list : list[i] \in Texts /\ list[i] \in Written(p)
    BY <1>2, <1>8, TextsGrow DEF Range
  <1>10. values \in Seq(Texts) /\ Len(values) = Len(list) /\ values # <<>> /\ DOMAIN values = 1..Len(list)
         /\ \A i \in 1..Len(list) : values[i] = TrimSpace(list[i])
    <2>1. \A i \in 1..Len(list) : TrimSpace(list[i]) \in Texts
      BY <1>8, <1>9, TrimIsNeat DEF Neat
    <2>2. values \in [1..Len(list) -> Texts]
      BY <1>8, <2>1
    <2>3. \A i \in 1..Len(list) : values[i] = TrimSpace(list[i])
      BY <1>8
    <2> HIDE DEF values
    <2>4. values \in Seq(Texts) /\ Len(values) = Len(list)
      BY <1>8, <2>2, FunctionIsSequence
    <2>5. Len(list) # 0
      BY <1>2, <1>8
    <2> QED
      BY <2>2, <2>3, <2>4, <2>5
  <1> HIDE DEF values
  <1>11. ASSUME \A i \in 1..Len(list) : Token(values[i])
         PROVE  deed = Wanted
    <2>1. \A i \in 1..Len(values) : Token(values[i]) /\ \A k \in 1..Len(values[i]) : values[i][k] # m
      <3> TAKE i \in 1..Len(values)
      <3>1. Token(values[i]) /\ ValidToken(values[i])
        BY <1>4, <1>10, <1>11
      <3>2. DOMAIN values[i] = 1..Len(values[i])
        BY <3>1 DEF Token, Texts
      <3> QED
        BY <3>1, <3>2 DEF ValidToken
    <2> HIDE DEF m
    <2>2. Token(J) /\ J[Len(J)] # m /\ Pieces(J, {m}) = values
      BY <1>7, <1>10, <2>1, JoinedOfList
    <2>3. Token(role)
      BY <1>1
    <2> HIDE DEF J, s
    <2>4. Arguments(Message(TrimSpace(tail))) = <<J, role>>
      <3>1. Neat(J) /\ Neat(role) /\ J # <<>> /\ role # <<>> /\ J \in Texts /\ role \in Texts
        BY <2>2, <2>3, TokenIsNeat DEF Token
      <3>2. Neat(J \o <<s>> \o role)
        BY <1>7, <3>1, NeatTogether
      <3>3. Words(J \o <<s>> \o role) = Words(J) \o Words(role)
        BY <1>7, <3>1, WordsAtBlank
      <3>4. Words(J) = <<J>> /\ Words(role) = <<role>>
        BY <2>2, <2>3, WordsOfToken
      <3>5. <<J>> \o <<role>> = <<J, role>>
        BY <3>1, TwoInARow
      <3> QED
        BY <1>4, <3>2, <3>3, <3>4, <3>5, NeatMessage
    <2> DEFINE a == <<J, role>>
    <2>5. deed = ReadAccess(a) /\ Len(a) = 2 /\ a[1] = J /\ a[2] = role
      BY <1>6, <2>4
    <2> HIDE DEF a
    <2>6. WithoutEndCommas(J) = J
      <3>1. J \in Texts /\ J # <<>> /\ J[Len(J)] # "comma"
        BY <2>2 DEF Token, m
      <3> QED
        BY <3>1, NoEndComma
    <2>7. Pieces(WithoutEndCommas(a[1]), {"comma"}) = values
      BY <2>2, <2>5, <2>6 DEF m
    <2>8. \A i \in DOMAIN values : TrimSpace(values[i]) = values[i] /\ values[i] # <<>>
      BY <1>10, <1>11, TokenIsNeat, NeatStays DEF Token
    <2>9. [i \in DOMAIN values |-> TrimSpace(values[i])] = values
      <3>1. values = [i \in DOMAIN values |-> values[i]]
        BY <1>10
      <3> QED
        BY <2>8, <3>1
    <2> DEFINE targets == [i \in DOMAIN values |-> TrimSpace(values[i])]
    <2>10. ReadAccess(a) =
               IF a[2] \notin {<<r>> : r \in Roles} \/ (\E i \in DOMAIN targets : targets[i] = <<>>)
                           THEN Nothing ELSE Do("grant", <<a[2]>> \o Distinct(targets))
      <3>1. ~ (Len(a) # 2)
        BY <2>5
      <3> QED
        BY <2>7, <3>1, Zenon DEF ReadAccess
    <2>11. a[2] \in {<<r>> : r \in Roles}
      BY <1>1, <2>5
    <2>12. targets = values /\ ~ \E i \in DOMAIN targets : targets[i] = <<>>
      BY <2>8, <2>9
    <2> HIDE DEF targets
    <2> QED
      BY <1>5, <2>5, <2>10, <2>11, <2>12
  <1>12. Undivided => deed = Wanted
    <2> SUFFICES ASSUME Undivided PROVE \A i \in 1..Len(list) : Token(values[i])
      BY <1>11
    <2> QED
      BY <1>2, <1>8, <1>9, <1>10, UndividedToken
  <1>13. Plain => deed = Wanted
    <2> SUFFICES ASSUME Plain PROVE \A i \in 1..Len(list) : Token(values[i])
      BY <1>11
    <2> QED
      BY <1>2, <1>8, <1>9, <1>10, PlainList
  <1>14. ~UnderReview
    BY NotUnderReview
  <1>15. deed # Do("list", <<OwnRoom>>)
    <2>1. deed.verb # "list"
      BY <1>6 DEF ReadAccess, Do, Nothing
    <2> QED
      BY <2>1 DEF Do
  <1> QED
    BY <1>12, <1>13, <1>14, <1>15 DEF Honest

-----------------------------------------------------------------------------
(* Encoded tails are bounded *)

(* What is joined from texts is a text.                                    *)
LEMMA JoinedIsText ==
    ASSUME NEW mark \in Symbols, NEW list \in Seq(Texts)
    PROVE  Joined(list, mark) \in Texts
  <1>1. Len(list) \in Nat /\ \A i \in 1..Len(list) : list[i] \in Texts
    OBVIOUS
  <1>2. PICK join : /\ join[0] = <<>>
                    /\ \A n \in 1..Len(list) : join[n] = Behind(join[n - 1], mark, list[n])
                    /\ Joined(list, mark) = join[Len(list)]
    BY <1>1, JoinedIs
  <1> DEFINE S == {n \in Nat : n \in 0..Len(list) /\ join[n] \notin Texts}
  <1>3. join[0] \in Texts
    BY <1>2 DEF Texts
  <1>4. ASSUME NEW n \in 1..Len(list), join[n - 1] \in Texts
        PROVE  join[n] \in Texts
    <2> DEFINE x == join[n - 1]
               y == list[n]
    <2>1. x \in Texts /\ y \in Texts /\ join[n] = Behind(x, mark, y)
      BY <1>1, <1>2, <1>4
    <2> HIDE DEF x, y
    <2>2. x \o <<mark>> \o y \in Texts
      BY <2>1, MarkInside
    <2> QED
      BY <2>1, <2>2 DEF Behind
  <1>5. S = {}
    <2> SUFFICES ASSUME S # {} PROVE FALSE
      OBVIOUS
    <2>1. PICK n \in S : \A y \in S : n <= y
      <3>1. S \in SUBSET Nat
        OBVIOUS
      <3> QED
        BY <3>1, LeastNumber
    <2>2. n \in 0..Len(list) /\ join[n] \notin Texts
      OBVIOUS
    <2>3. n # 0
      BY <1>3, <2>2
    <2>4. n \in 1..Len(list) /\ n - 1 \in 0..Len(list) /\ n - 1 \in Nat /\ ~ (n <= n - 1)
      BY <1>1, <2>2, <2>3
    <2>5. join[n - 1] \in Texts
      BY <2>1, <2>4
    <2> QED
      BY <1>4, <2>2, <2>4, <2>5
  <1> QED
    BY <1>1, <1>2, <1>5

(* A tail that the encoding makes fits the bound, and so does a refusal.   *)
LEMMA TailIsBounded ==
    ASSUME NEW text \in Texts
    PROVE  Len(BoundedTail(text).tail) <= MaxTail
  <1>1. Len(TrimSpace(text)) \in Nat /\ MaxTail \in Nat
    BY TrimIsNeat, ArgumentsAssumption DEF Neat, Texts
  <1>2. Refusal.tail = <<>> /\ Len(<<>>) = 0
    BY DEF Refusal
  <1> QED
    BY <1>1, <1>2 DEF BoundedTail

(* ... which has none.                                                     *)
LEMMA RefusalIsBounded == Len(Refusal.tail) <= MaxTail
  BY ArgumentsAssumption DEF Refusal

(* Whatever a call may give for a name, its first text is one.             *)
LEMMA OfferedText ==
    ASSUME NEW name, name # "trips", NEW value \in Offered(name)
    PROVE  Text(value) \in Texts
  <1>1. \A w \in Texts : Text(String(w)) \in Texts
    BY DEF Text, String
  <1>2. \A b \in BOOLEAN : Text(Boolean(b)) \in Texts
    <2>1. <<"true">> \in Texts /\ <<"false">> \in Texts
      BY DEF Texts, Symbols, Literals
    <2>2. Text(Boolean(TRUE)) = <<"true">> /\ Text(Boolean(FALSE)) = <<"false">>
      BY DEF Text, Boolean
    <2> QED
      BY <2>1, <2>2
  <1>3. CASE name = "unknown"
    <2>1. value = Boolean(TRUE)
      BY <1>3 DEF Offered
    <2> QED
      BY <1>2, <2>1
  <1>4. CASE name \in {"operation", "mode", "role"}
    <2>1. PICK v \in {"enable", "disable", "configure", "exact", "contains", "list", "purge",
                      "ADMIN", "admin"} : value = String(<<v>>)
      BY <1>4 DEF Offered
    <2>2. <<v>> \in Texts
      BY DEF Texts, Symbols, Literals, Roles
    <2> QED
      BY <1>1, <2>1, <2>2
  <1>5. CASE name \in {"enabled", "locked"}
    <2>1. value \in {Boolean(TRUE), Boolean(FALSE), String(<<"on">>)}
      BY <1>5 DEF Offered
    <2>2. <<"on">> \in Texts
      BY DEF Texts, Symbols, Literals
    <2> QED
      BY <1>1, <1>2, <2>1, <2>2
  <1>6. CASE name = "count"
    <2>1. Offered(name) = {Integer(n) : n \in Integrals} \cup {Decimal(n) : n \in Integrals}
      BY <1>6 DEF Offered
    <2>2. PICK n \in Integrals : value = Integer(n) \/ value = Decimal(n)
      BY <2>1
    <2>3. Text(value) = <<ToString(n)>>
      BY <2>2 DEF Integer, Decimal, Text, Numeral
    <2>4. ToString(n) \in Symbols
      BY ArgumentsAssumption DEF Symbols
    <2> QED
      BY <2>3, <2>4 DEF Texts
  <1>7. CASE name \notin {"unknown", "operation", "mode", "role", "enabled", "locked", "trips", "count"}
    <2>1. Offered(name) = {String(w) : w \in Wordings} \cup {Boolean(TRUE)}
      BY <1>7 DEF Offered
    <2>2. \A w \in Wordings : w \in Texts
      BY ArgumentsAssumption, TextsGrow
    <2>3. value = Boolean(TRUE) \/ \E w \in Wordings : value = String(w)
      BY <2>1
    <2> QED
      BY <1>1, <1>2, <2>2, <2>3
  <1> QED
    BY <1>3, <1>4, <1>5, <1>6, <1>7

(* An argument without the white space around it is a text.                *)
LEMMA TrimmedIsText ==
    ASSUME NEW given, \A name \in DOMAIN given : given[name] \in Offered(name),
           NEW name, name # "trips"
    PROVE  Trimmed(given, name) \in Texts
  <1>1. CASE name \in DOMAIN given
    <2>1. Text(given[name]) \in Texts
      BY <1>1, OfferedText
    <2> QED
      BY <1>1, <2>1, TrimIsNeat DEF Trimmed, Neat
  <1>2. CASE name \notin DOMAIN given
    BY <1>2 DEF Trimmed, Texts
  <1> QED
    BY <1>1, <1>2

(* Only the tool access takes a list.                                      *)
LEMMA PositionalNames ==
    ASSUME NEW tool \in Tools, tool \notin OwnEncoding
    PROVE  /\ \E n \in Nat : DOMAIN Catalog[tool] = 1..n
           /\ \A i \in DOMAIN Catalog[tool] : Catalog[tool][i].name # "trips"
  <1> DEFINE Good(fields) == /\ \E n \in Nat : DOMAIN fields = 1..n
                             /\ \A i \in DOMAIN fields : fields[i].name # "trips"
  <1>1. tool \in {"list", "resurrect", "messages", "mail", "msgchannel", "note", "prefix", "mute",
                  "kick", "unshadowban", "unbanall"}
    BY ToolsAre DEF OwnEncoding
  <1>2. /\ Good(<<>>)
        /\ \A p : p.name # "trips" => Good(<<p>>)
        /\ \A p, q : p.name # "trips" /\ q.name # "trips" => Good(<<p, q>>)
        /\ \A p, q, r : p.name # "trips" /\ q.name # "trips" /\ r.name # "trips" => Good(<<p, q, r>>)
    <2>1. Good(<<>>)
      <3>1. DOMAIN <<>> = 1..0 /\ \A i \in DOMAIN <<>> : FALSE
        OBVIOUS
      <3> QED
        BY <3>1
    <2>2. ASSUME NEW p, p.name # "trips" PROVE Good(<<p>>)
      <3>1. DOMAIN <<p>> = 1..1 /\ <<p>>[1] = p /\ 1 \in Nat
        OBVIOUS
      <3> QED
        BY <2>2, <3>1
    <2>3. ASSUME NEW p, NEW q, p.name # "trips", q.name # "trips" PROVE Good(<<p, q>>)
      <3>1. DOMAIN <<p, q>> = 1..2 /\ <<p, q>>[1] = p /\ <<p, q>>[2] = q /\ 2 \in Nat
        OBVIOUS
      <3> QED
        BY <2>3, <3>1
    <2>4. ASSUME NEW p, NEW q, NEW r, p.name # "trips", q.name # "trips", r.name # "trips"
          PROVE Good(<<p, q, r>>)
      <3>1. DOMAIN <<p, q, r>> = 1..3 /\ <<p, q, r>>[1] = p /\ <<p, q, r>>[2] = q
            /\ <<p, q, r>>[3] = r /\ 3 \in Nat
        OBVIOUS
      <3> QED
        BY <2>4, <3>1
    <2> HIDE DEF Good
    <2> QED
      BY <2>1, <2>2, <2>3, <2>4
  <1> SUFFICES Good(Catalog[tool])
    OBVIOUS
  <1> HIDE DEF Good
  <1>3. /\ \A n : n # "trips" => RequiredToken(n).name # "trips" /\ RequiredString(n).name # "trips"
                              /\ OptionalString(n).name # "trips"
        /\ RequiredInteger("count", 1, 30).name # "trips"
    <2>1. \A n : RequiredToken(n).name = n /\ RequiredString(n).name = n /\ OptionalString(n).name = n
      <3> TAKE n
      <3> QED
        BY RequiredTokenIs, RequiredStringIs, OptionalStringIs
    <2>2. RequiredInteger("count", 1, 30).name = "count"
      BY DEF RequiredInteger, Property
    <2> QED
      BY <2>1, <2>2
  <1>4. CASE tool \in {"list", "note", "prefix", "mute", "kick", "unshadowban"}
    <2>1. \E p : p.name # "trips" /\ Catalog[tool] = <<p>>
      BY <1>3, <1>4, CatalogIs
    <2> QED
      BY <1>2, <2>1
  <1>5. CASE tool \in {"messages", "mail", "msgchannel"}
    <2>1. \E p, q : p.name # "trips" /\ q.name # "trips" /\ Catalog[tool] = <<p, q>>
      BY <1>3, <1>5, CatalogIs
    <2> QED
      BY <1>2, <2>1
  <1>6. CASE tool = "resurrect"
    BY <1>2, <1>3, <1>6, CatalogIs
  <1>7. CASE tool = "unbanall"
    BY <1>2, <1>7, CatalogIs
  <1> QED
    BY <1>1, <1>4, <1>5, <1>6, <1>7

(* No encoding yields a tail beyond its bound.                             *)
LEMMA EncodeIsBounded ==
    ASSUME NEW tool \in Tools, NEW given, ValidateArguments(tool, given),
           \A name \in DOMAIN given : given[name] \in Offered(name)
    PROVE  Len(Encode(tool, given).tail) <= MaxTail
  <1>1. Len(<< >>) <= MaxTail /\ \A x : Len(<<x>>) <= MaxTail
    BY ArgumentsAssumption
  <1>2. "space" \in Symbols /\ <<"space">> \in Texts /\ "comma" \in Symbols
    BY CommaIsSymbol DEF Texts
  <1>3. CASE tool \notin OwnEncoding
    <2> DEFINE fields == Catalog[tool]
               list == [i \in DOMAIN fields |-> Trimmed(given, fields[i].name)]
    <2>1. PICK n \in Nat : DOMAIN fields = 1..n
      BY <1>3, PositionalNames
    <2>2. \A i \in DOMAIN fields : Trimmed(given, fields[i].name) \in Texts
      BY <1>3, PositionalNames, TrimmedIsText
    <2>3. list \in Seq(Texts)
      <3>1. list \in [1..n -> Texts]
        BY <2>1, <2>2
      <3> HIDE DEF list
      <3> QED
        BY <3>1, FunctionIsSequence
    <2>4. Len(BoundedTail(Joined(list, "space")).tail) <= MaxTail
      <3> HIDE DEF list
      <3> QED
        BY <1>2, <2>3, JoinedIsText, TailIsBounded
    <2>5. Positional(tool, given) \in {BoundedTail(Joined(list, "space")), Refusal}
      BY Zenon DEF Positional
    <2>6. Encode(tool, given) = Positional(tool, given)
      BY <1>3 DEF Encode, OwnEncoding
    <2> HIDE DEF list
    <2> QED
      BY <2>4, <2>5, <2>6, RefusalIsBounded
  <1>4. CASE tool \in {"captcha", "lock"}
    <2>1. \A value : Len(BooleanState(value).tail) <= MaxTail
      <3> TAKE value
      <3>1. <<"on">> \in Texts /\ <<"off">> \in Texts
        BY OnAndOff DEF Token
      <3> QED
        BY <3>1, TailIsBounded DEF BooleanState
    <2>2. \E value : Encode(tool, given) = BooleanState(value)
      BY <1>4 DEF Encode
    <2> QED
      BY <2>1, <2>2
  <1>5. CASE tool = "shadowban"
    <2> DEFINE target == Trimmed(given, "target")
    <2>1. target \in Texts /\ <<"-c", "space">> \in Texts
      BY TrimmedIsText DEF Texts, Symbols, Literals
    <2>2. Encode(tool, given) = ShadowBanArguments(Text(given["mode"]), target)
      BY <1>5 DEF Encode
    <2> HIDE DEF target
    <2>3. <<"-c", "space">> \o target \in Texts
      BY <2>1 DEF Texts
    <2>4. Encode(tool, given) \in {Refusal, BoundedTail(<<"-c", "space">> \o target), BoundedTail(target)}
      BY <2>2 DEF ShadowBanArguments
    <2> QED
      BY <2>1, <2>3, <2>4, TailIsBounded, RefusalIsBounded
  <1>6. CASE tool = "automove"
    <2> DEFINE source == Trimmed(given, "source")
               destination == Trimmed(given, "destination")
    <2>1. source \in Texts /\ destination \in Texts
      BY TrimmedIsText
    <2>2. Encode(tool, given) = AutomoveArguments(Text(given["operation"]), source, destination)
      BY <1>6 DEF Encode
    <2> HIDE DEF source, destination
    <2>3. source \o <<"space">> \o destination \in Texts
      BY <1>2, <2>1, MarkInside
    <2>4. \/ Encode(tool, given) = Refusal
          \/ Encode(tool, given) = BoundedTail(source \o <<"space">> \o destination)
          \/ Encode(tool, given).tail \in {<<"on">>, <<"off">>}
      BY <2>2 DEF AutomoveArguments
    <2> QED
      BY <1>1, <2>3, <2>4, TailIsBounded, RefusalIsBounded
  <1>7. CASE tool = "notes"
    <2>1. Encode(tool, given).tail \in {<<"purge">>, <<>>}
      BY <1>7 DEF Encode, NotesArguments
    <2> QED
      BY <1>1, <2>1
  <1>8. CASE tool = "access"
    <2> DEFINE v == given["trips"]
               values == [i \in DOMAIN v.texts |-> TrimSpace(v.texts[i])]
               role == Text(given["role"])
    <2>1. Catalog[tool][1] = TypedProperty("trips", "array") /\ 1 \in DOMAIN Catalog[tool]
          /\ Catalog[tool][2] = EnumString("role", Roles) /\ 2 \in DOMAIN Catalog[tool]
      BY <1>8, CatalogIs
    <2>2. /\ "trips" \in DOMAIN given /\ v.type = "array"
          /\ "role" \in DOMAIN given
      <3>1. \A i \in DOMAIN Catalog[tool] :
                IF Catalog[tool][i].name \in DOMAIN given
                THEN Accepts(Catalog[tool][i], given[Catalog[tool][i].name])
                ELSE ~Catalog[tool][i].required
        BY Zenon DEF ValidateArguments
      <3>2. IF Catalog[tool][1].name \in DOMAIN given
            THEN Accepts(Catalog[tool][1], given[Catalog[tool][1].name])
            ELSE ~Catalog[tool][1].required
        BY <2>1, <3>1
      <3>3. IF Catalog[tool][2].name \in DOMAIN given
            THEN Accepts(Catalog[tool][2], given[Catalog[tool][2].name])
            ELSE ~Catalog[tool][2].required
        BY <2>1, <3>1
      <3>4. /\ Catalog[tool][1].name = "trips" /\ Catalog[tool][1].type = "array"
            /\ Catalog[tool][1].required = TRUE
        <4> DEFINE p == TypedProperty("trips", "array")
        <4>1. p.name = "trips" /\ p.type = "array" /\ p.required = TRUE
          BY DEF TypedProperty, Property
        <4> HIDE DEF p
        <4> QED
          BY <2>1, <4>1 DEF p
      <3>5. Catalog[tool][2].name = "role" /\ Catalog[tool][2].required = TRUE
        <4> DEFINE p == EnumString("role", Roles)
        <4>1. p.name = "role" /\ p.required = TRUE
          BY EnumStringIs
        <4> HIDE DEF p
        <4> QED
          BY <2>1, <4>1 DEF p
      <3> QED
        BY <3>2, <3>3, <3>4, <3>5 DEF Accepts, AcceptsType
    <2>3. Text(given["role"]) \in Texts
      <3>1. given["role"] \in Offered("role")
        BY <2>2
      <3> QED
        BY <3>1, OfferedText
    <2>4. v.texts \in Seq(Seq(STRING))
      <3>1. v \in {Strings(list) : list \in WordLists} \cup {String(<<"a">>)}
        BY <2>2 DEF Offered
      <3>2. String(<<"a">>).type # "array"
        BY DEF String
      <3>3. PICK list \in WordLists : v = Strings(list)
        BY <2>2, <3>1, <3>2
      <3>4. v.texts = list
        BY <3>3 DEF Strings
      <3> QED
        BY <3>4, ArgumentsAssumption
    <2>5. Encode(tool, given) = CommaList(v, given["role"])
      BY <1>8 DEF Encode
    <2> DEFINE J == Joined(values, "comma")
    <2>6. Encode(tool, given) \in {BoundedTail(J \o <<"space">> \o role), Refusal}
      BY <2>5, Zenon DEF CommaList
    <2> HIDE DEF v
    <2>7. values \in Seq(Texts)
      <3>1. Len(v.texts) \in Nat /\ DOMAIN v.texts = 1..Len(v.texts)
            /\ \A i \in 1..Len(v.texts) : v.texts[i] \in Texts
        BY <2>4, TextsGrow
      <3>2. \A i \in 1..Len(v.texts) : TrimSpace(v.texts[i]) \in Texts
        BY <3>1, TrimIsNeat DEF Neat
      <3>3. values \in [1..Len(v.texts) -> Texts]
        BY <3>1, <3>2
      <3> HIDE DEF values
      <3> QED
        BY <3>1, <3>3, FunctionIsSequence
    <2> HIDE DEF values
    <2>8. J \in Texts
      BY <1>2, <2>7, JoinedIsText
    <2> HIDE DEF J
    <2>9. J \o <<"space">> \o role \in Texts
      BY <1>2, <2>3, <2>8, MarkInside
    <2> QED
      BY <2>6, <2>9, TailIsBounded, RefusalIsBounded
  <1> QED
    BY <1>3, <1>4, <1>5, <1>6, <1>7, <1>8, ToolsAre DEF OwnEncoding

-----------------------------------------------------------------------------
(* The way of a call *)

(* A call that has come this far has passed every check before.            *)
ArgumentsInv ==
    /\ /\ call.tool \in Tools /\ DOMAIN call.given \subseteq Named(call.tool) \cup {"unknown"}
       /\ call.review \in {<<>>} \cup Reviewed
       /\ \A name \in DOMAIN call.given : call.given[name] \in Offered(name)
    /\ stage \in {"idle", "asked", "checked", "encoded", "sent", "handled", "refused"}
    /\ Len(tail) <= MaxTail
    /\ stage \in {"checked", "encoded", "sent", "handled"} =>
           RequestAuthorized(call.tool) /\ ValidateArguments(call.tool, call.given)
    /\ stage \in {"encoded", "sent", "handled"} =>
           Encode(call.tool, call.given).ok /\ tail = Encode(call.tool, call.given).tail
    /\ stage \in {"sent", "handled"} => ~OwnList(call.tool, tail) /\ TargetInScope(call.tool, tail)
    /\ deed = IF stage = "handled" THEN Handled(call.tool, Message(TrimSpace(tail))) ELSE Nothing

(* Before a call there is nothing to check.                                *)
LEMMA ArgumentsStart ==
    ASSUME ArgumentsInit
    PROVE  ArgumentsInv
  <1>1. call.tool = "notes" /\ call.given = <<>> /\ call.review = <<>> /\ DOMAIN call.given = {}
    BY DEF ArgumentsInit, NoCall
  <1>2. stage = "idle" /\ tail = <<>> /\ deed = Nothing /\ Len(tail) = 0
    BY DEF ArgumentsInit
  <1>3. call.tool \in Tools /\ Len(tail) <= MaxTail
    BY <1>1, <1>2, ToolsAre, ArgumentsAssumption
  <1> QED
    BY <1>1, <1>2, <1>3 DEF ArgumentsInv

(* A new call has passed no check yet.                                     *)
LEMMA AskKeeps ==
    ASSUME ArgumentsInv, Ask
    PROVE  ArgumentsInv'
  <1>1. PICK tool \in Tools, review \in {<<>>} \cup Reviewed :
            \E names \in SUBSET (Named(tool) \cup {"unknown"}) : \E given \in Values(names) :
                call' = [tool |-> tool, review |-> review, given |-> given]
    BY DEF Ask
  <1> PICK names \in SUBSET (Named(tool) \cup {"unknown"}) : \E given \in Values(names) :
                call' = [tool |-> tool, review |-> review, given |-> given]
    BY <1>1
  <1> PICK given \in Values(names) : call' = [tool |-> tool, review |-> review, given |-> given]
    OBVIOUS
  <1>2. call'.tool = tool /\ call'.review = review /\ call'.given = given
    OBVIOUS
  <1>3. DOMAIN given = names /\ \A name \in DOMAIN given : given[name] \in Offered(name)
    BY DEF Values
  <1>4. stage = "idle" /\ stage' = "asked" /\ tail' = tail /\ deed' = deed /\ deed = Nothing
    BY DEF Ask, ArgumentsInv
  <1>5. DOMAIN call'.given \subseteq Named(call'.tool) \cup {"unknown"}
    BY <1>2, <1>3
  <1>6. Len(tail') <= MaxTail
    BY <1>4 DEF ArgumentsInv
  <1> QED
    BY <1>2, <1>3, <1>4, <1>5, <1>6 DEF ArgumentsInv, Named, Offered

(* CheckCall passes what is authorized and fits the schema.                *)
LEMMA CheckCallKeeps ==
    ASSUME ArgumentsInv, CheckCall
    PROVE  ArgumentsInv'
  <1>1. call' = call /\ tail' = tail /\ deed' = deed /\ stage = "asked" /\ deed = Nothing
    BY DEF CheckCall, ArgumentsInv
  <1>2. \/ stage' = "checked" /\ RequestAuthorized(call.tool) /\ ValidateArguments(call.tool, call.given)
        \/ stage' = "refused"
    BY DEF CheckCall
  <1>3. RequestAuthorized(call.tool)' <=> RequestAuthorized(call.tool)
    BY <1>1 DEF RequestAuthorized, UnderReview
  <1>4. ValidateArguments(call.tool, call.given)' <=> ValidateArguments(call.tool, call.given)
    BY <1>1
  <1>5. \A name : Offered(name)' = Offered(name)
    OBVIOUS
  <1> QED
    BY <1>1, <1>2, <1>3, <1>4, <1>5 DEF ArgumentsInv

(* EncodeCall makes the tail of the arguments.                             *)
LEMMA EncodeCallKeeps ==
    ASSUME ArgumentsInv, EncodeCall
    PROVE  ArgumentsInv'
  <1> DEFINE encoded == Encode(call.tool, call.given)
  <1>1. call' = call /\ deed' = deed /\ stage = "checked" /\ deed = Nothing
    BY DEF EncodeCall, ArgumentsInv
  <1>2. tail' = encoded.tail /\ stage' = IF encoded.ok THEN "encoded" ELSE "refused"
    BY DEF EncodeCall
  <1>3. RequestAuthorized(call.tool) /\ ValidateArguments(call.tool, call.given)
    BY <1>1 DEF ArgumentsInv
  <1>4. Len(encoded.tail) <= MaxTail
    BY <1>3, EncodeIsBounded DEF ArgumentsInv
  <1>5. RequestAuthorized(call.tool)' <=> RequestAuthorized(call.tool)
    BY <1>1 DEF RequestAuthorized, UnderReview
  <1>6. encoded' = encoded
    BY <1>1
  <1> HIDE DEF encoded
  <1> QED
    BY <1>1, <1>2, <1>3, <1>4, <1>5, <1>6 DEF ArgumentsInv, encoded

(* SendCommand sends what is within the scope of the turn.                 *)
LEMMA SendCommandKeeps ==
    ASSUME ArgumentsInv, SendCommand
    PROVE  ArgumentsInv'
  <1>1. call' = call /\ tail' = tail /\ deed' = deed /\ stage = "encoded" /\ deed = Nothing
    BY DEF SendCommand, ArgumentsInv
  <1>2. \/ stage' = "sent" /\ ~OwnList(call.tool, tail) /\ TargetInScope(call.tool, tail)
        \/ stage' = "refused"
    BY DEF SendCommand
  <1>3. RequestAuthorized(call.tool)' <=> RequestAuthorized(call.tool)
    BY <1>1 DEF RequestAuthorized, UnderReview
  <1>4. TargetInScope(call.tool, tail)' <=> TargetInScope(call.tool, tail)
    BY <1>1 DEF TargetInScope, UnderReview
  <1> QED
    BY <1>1, <1>2, <1>3, <1>4 DEF ArgumentsInv

(* HandleCommand does what the handler makes of the message.               *)
LEMMA HandleCommandKeeps ==
    ASSUME ArgumentsInv, HandleCommand
    PROVE  ArgumentsInv'
  <1>1. call' = call /\ tail' = tail /\ stage = "sent" /\ stage' = "handled"
        /\ deed' = Handled(call.tool, Message(TrimSpace(tail)))
    BY DEF HandleCommand
  <1>2. RequestAuthorized(call.tool)' <=> RequestAuthorized(call.tool)
    BY <1>1 DEF RequestAuthorized, UnderReview
  <1>3. TargetInScope(call.tool, tail)' <=> TargetInScope(call.tool, tail)
    BY <1>1 DEF TargetInScope, UnderReview
  <1> QED
    BY <1>1, <1>2, <1>3 DEF ArgumentsInv

(* Every call that is carried out has passed every check, with its own     *)
(* tail.                                                                   *)
THEOREM ArgumentsInductive == ArgumentsSpec => []ArgumentsInv
  <1>1. ArgumentsInit => ArgumentsInv
    BY ArgumentsStart
  <1>2. ArgumentsInv /\ [ArgumentsNext]_argumentVars => ArgumentsInv'
    <2> SUFFICES ASSUME ArgumentsInv, [ArgumentsNext]_argumentVars PROVE ArgumentsInv'
      OBVIOUS
    <2>1. CASE UNCHANGED argumentVars
      <3>1. call' = call /\ tail' = tail /\ stage' = stage /\ deed' = deed
        BY <2>1 DEF argumentVars
      <3>2. RequestAuthorized(call.tool)' <=> RequestAuthorized(call.tool)
        BY <3>1 DEF RequestAuthorized, UnderReview
      <3>3. TargetInScope(call.tool, tail)' <=> TargetInScope(call.tool, tail)
        BY <3>1 DEF TargetInScope, UnderReview
      <3> QED
        BY <3>1, <3>2, <3>3 DEF ArgumentsInv
    <2> QED
      BY <2>1, AskKeeps, CheckCallKeeps, EncodeCallKeeps, SendCommandKeeps, HandleCommandKeeps
      DEF ArgumentsNext
  <1> QED
    BY <1>1, <1>2, PTL DEF ArgumentsSpec

(* Whatever the tool, a call that a handler carries out is honest.         *)
LEMMA ArrivedIsHonest ==
    ASSUME Arrived
    PROVE  Honest
  <1>1. call.tool \in Tools
    BY DEF Arrived
  <1> QED
    BY <1>1, ToolsAre, ListIsHonest, ResurrectIsHonest, MessagesIsHonest, MailIsHonest,
       MsgchannelIsHonest, NoteIsHonest, PrefixIsHonest, MuteIsHonest, KickIsHonest,
       UnshadowbanIsHonest, UnbanallIsHonest, CaptchaIsHonest, LockIsHonest, AccessIsHonest,
       ShadowbanIsHonest, AutomoveIsHonest, NotesIsHonest

(* The invariant is enough: what was not carried out did nothing.          *)
LEMMA InvIsHonest ==
    ASSUME ArgumentsInv
    PROVE  ArgumentsAreHonest
  <1>1. stage = "handled" => Honest
    <2> SUFFICES ASSUME stage = "handled" PROVE Arrived
      BY ArrivedIsHonest
    <2> QED
      BY DEF ArgumentsInv, Arrived
  <1>2. stage # "handled" => deed = Nothing
    BY DEF ArgumentsInv
  <1>3. Nothing # Do("list", <<OwnRoom>>)
    <2>1. Nothing.verb = "nothing" /\ Do("list", <<OwnRoom>>).verb = "list"
      BY DEF Nothing, Do
    <2> QED
      BY <2>1
  <1>4. ArgumentsTypeOK
    BY <1>2 DEF ArgumentsTypeOK, ArgumentsInv
  <1>5. AskedOrNothing
    BY <1>1 DEF AskedOrNothing, Honest
  <1>6. StaysInItsScope
    BY <1>1, <1>2, <1>3 DEF StaysInItsScope, Honest
  <1> QED
    BY <1>4, <1>5, <1>6 DEF ArgumentsAreHonest

(* For any wordings, lists, numbers, rooms and authors: the encoding of a  *)
(* call and the parsers of the handlers agree. A call is carried out as it *)
(* was asked or not at all, one of ordinary names is carried out, a turn   *)
(* under review mutes its author and no one else, and no call lists the    *)
(* caller's own room.                                                      *)
THEOREM ArgumentsHonest == ArgumentsSpec => []ArgumentsAreHonest
  <1>1. ArgumentsInv => ArgumentsAreHonest
    BY InvIsHonest
  <1> QED
    BY <1>1, ArgumentsInductive, PTL

(***************************************************************************)
(* The requests of a turn (TurnContext)                                    *)
(***************************************************************************)

(* A function that is computed step by step.                               *)
Unrolls(f, base, k, step) ==
    /\ f = [n \in 0..k |-> f[n]] /\ f[0] = base
    /\ \A n \in 1..k : f[n] = step[<<n, f[n - 1]>>]

(* A recursion over the numbers up to k has a solution.                    *)
LEMMA RecursionExists ==
  ASSUME NEW S, NEW base \in S, NEW k \in Nat, NEW step \in [(1..k) \X S -> S]
  PROVE  \E f : Unrolls(f, base, k, step)
<1> DEFINE Solves(f, m) == /\ f \in [0..m -> S] /\ f[0] = base
                           /\ \A n \in 1..m : f[n] = step[<<n, f[n - 1]>>]
           Failing == {m \in 0..k : \A f \in [0..m -> S] : ~Solves(f, m)}
<1>1. Failing = {}
  <2>1. SUFFICES ASSUME Failing # {} PROVE FALSE
    OBVIOUS
  <2>2. Failing \in SUBSET Nat
    OBVIOUS
  <2>3. PICK m \in Failing : \A y \in Failing : m <= y
    BY <2>1, <2>2, LeastNumber
  <2>4. m \in 0..k /\ \A f \in [0..m -> S] : ~Solves(f, m)
    OBVIOUS
  <2>5. m # 0
    <3>1. Solves([n \in 0..0 |-> base], 0)
      OBVIOUS
    <3> QED BY <2>4, <3>1
  <2>6. m - 1 \in 0..k /\ m - 1 \notin Failing
    BY <2>3, <2>4, <2>5
  <2>7. PICK f \in [0..m - 1 -> S] : Solves(f, m - 1)
    BY <2>6
  <2> DEFINE g == [n \in 0..m |-> IF n = m THEN step[<<m, f[m - 1]>>] ELSE f[n]]
  <2>8. f[m - 1] \in S /\ <<m, f[m - 1]>> \in (1..k) \X S
    BY <2>4, <2>5, <2>6, <2>7
  <2>9. step[<<m, f[m - 1]>>] \in S
    BY <2>8
  <2>10. g \in [0..m -> S]
    BY <2>4, <2>7, <2>9
  <2>11. g[0] = base
    BY <2>4, <2>5, <2>7
  <2>12. \A n \in 1..m : g[n] = step[<<n, g[n - 1]>>]
    <3> TAKE n \in 1..m
    <3>1. CASE n = m
      <4>1. m \in 0..m /\ m - 1 \in 0..m /\ m - 1 # m
        BY <2>4, <2>5
      <4>2. g[m] = step[<<m, f[m - 1]>>] /\ g[m - 1] = f[m - 1]
        BY <4>1
      <4> HIDE DEF g
      <4> QED BY <3>1, <4>2
    <3>2. CASE n # m
      <4>1. n \in 1..m - 1 /\ n - 1 \in 0..m - 1 /\ n \in 0..m /\ n - 1 \in 0..m /\ n - 1 # m
        BY <2>4, <3>2
      <4>2. g[n] = f[n] /\ g[n - 1] = f[n - 1]
        BY <3>2, <4>1
      <4>3. f[n] = step[<<n, f[n - 1]>>]
        BY <2>7, <4>1
      <4> HIDE DEF g
      <4> QED BY <4>2, <4>3
    <3> QED BY <3>1, <3>2
  <2> QED BY <2>4, <2>10, <2>11, <2>12
<1>2. PICK f \in [0..k -> S] : Solves(f, k)
  <2>1. k \in 0..k /\ k \notin Failing
    BY <1>1
  <2> QED BY <2>1
<1>3. f = [n \in 0..k |-> f[n]]
  OBVIOUS
<1> QED BY <1>2, <1>3 DEF Unrolls

(* Numbers that are reached from 0 step by step.                           *)
LEMMA Climbing ==
  ASSUME NEW k \in Nat, NEW Good, 0 \in Good, \A n \in 1..k : n - 1 \in Good => n \in Good
  PROVE  \A n \in 0..k : n \in Good
<1> DEFINE Failing == {m \in 0..k : m \notin Good}
<1>1. SUFFICES ASSUME Failing # {} PROVE FALSE
  OBVIOUS
<1>2. Failing \in SUBSET Nat
  OBVIOUS
<1>3. PICK m \in Failing : \A y \in Failing : m <= y
  BY <1>1, <1>2, LeastNumber
<1>4. m \in 1..k /\ m - 1 \in 0..k /\ m - 1 \notin Failing
  BY <1>3
<1> QED BY <1>4

(* What every step of a recursion keeps holds for all its values.          *)
LEMMA RecursionStays ==
  ASSUME NEW S, NEW k \in Nat, NEW f, f[0] \in S,
         \A n \in 1..k : f[n - 1] \in S => f[n] \in S
  PROVE  \A n \in 0..k : f[n] \in S
<1> DEFINE Good == {n \in 0..k : f[n] \in S}
<1>1. 0 \in Good
  OBVIOUS
<1>2. \A n \in 1..k : n - 1 \in Good => n \in Good
  OBVIOUS
<1>3. \A n \in 0..k : n \in Good
  <2> HIDE DEF Good
  <2> QED BY <1>1, <1>2, Climbing
<1> QED BY <1>3

-----------------------------------------------------------------------------
(* Sums *)

(* Total adds up.                                                          *)
LEMMA TotalIs ==
  ASSUME NEW numbers, Len(numbers) \in Nat, \A n \in 1..Len(numbers) : numbers[n] \in Nat
  PROVE  \E sum : /\ sum[0] = 0 /\ Total(numbers) = sum[Len(numbers)]
                  /\ \A n \in 1..Len(numbers) : sum[n] = sum[n - 1] + numbers[n]
<1> DEFINE k == Len(numbers)
           Sums(f) == f = [n \in 0..k |-> IF n = 0 THEN 0 ELSE f[n - 1] + numbers[n]]
           step == [p \in (1..k) \X Nat |-> p[2] + numbers[p[1]]]
<1>1. \E f : Sums(f)
  <2>1. step \in [(1..k) \X Nat -> Nat]
    OBVIOUS
  <2> HIDE DEF step
  <2>2. PICK f : Unrolls(f, 0, k, step)
    <3>1. 0 \in Nat /\ k \in Nat
      OBVIOUS
    <3> HIDE DEF k
    <3> QED BY <2>1, <3>1, RecursionExists, Zenon
  <2>3. \A n \in 0..k : f[n] \in Nat
    <3>1. ASSUME NEW n \in 1..k, f[n - 1] \in Nat PROVE f[n] \in Nat
      BY <2>1, <2>2, <3>1 DEF Unrolls
    <3>2. f[0] \in Nat
      BY <2>2 DEF Unrolls
    <3> QED BY <3>1, <3>2, RecursionStays, Zenon
  <2>4. \A n \in 1..k : f[n] = f[n - 1] + numbers[n]
    <3> TAKE n \in 1..k
    <3>1. f[n - 1] \in Nat
      BY <2>3
    <3> QED BY <2>2, <3>1 DEF Unrolls, step
  <2>5. \A n \in 0..k : f[n] = IF n = 0 THEN 0 ELSE f[n - 1] + numbers[n]
    <3> TAKE n \in 0..k
    <3>1. n = 0 \/ n \in 1..k
      OBVIOUS
    <3> QED BY <2>2, <2>4, <3>1 DEF Unrolls
  <2>6. f = [n \in 0..k |-> f[n]]
    BY <2>2 DEF Unrolls
  <2> QED BY <2>5, <2>6
<1> DEFINE sum == CHOOSE f : Sums(f)
<1>2. Sums(sum)
  BY <1>1, Zenon
<1>3. Total(numbers) = sum[k]
  BY Zenon DEF Total
<1> HIDE DEF sum
<1>4. sum[0] = 0 /\ \A n \in 1..k : sum[n] = sum[n - 1] + numbers[n]
  BY <1>2
<1> QED BY <1>3, <1>4

(* A sum of numbers is one, and grows with each of them.                   *)
LEMMA TotalIsNat ==
  ASSUME NEW numbers, Len(numbers) \in Nat, \A n \in 1..Len(numbers) : numbers[n] \in Nat
  PROVE  Total(numbers) \in Nat
<1>1. PICK sum : /\ sum[0] = 0 /\ Total(numbers) = sum[Len(numbers)]
                 /\ \A n \in 1..Len(numbers) : sum[n] = sum[n - 1] + numbers[n]
  BY TotalIs
<1>2. ASSUME NEW n \in 1..Len(numbers), sum[n - 1] \in Nat PROVE sum[n] \in Nat
  BY <1>1, <1>2
<1>3. \A n \in 0..Len(numbers) : sum[n] \in Nat
  <2>1. sum[0] \in Nat
    BY <1>1
  <2> QED BY <1>2, <2>1, RecursionStays, Zenon
<1> QED BY <1>1, <1>3

(* Larger numbers have a larger sum.                                       *)
LEMMA TotalGrows ==
  ASSUME NEW low, NEW high, Len(low) \in Nat, Len(high) = Len(low),
         \A n \in 1..Len(low) : low[n] \in Nat /\ high[n] \in Nat /\ low[n] <= high[n]
  PROVE  Total(low) <= Total(high)
<1> DEFINE k == Len(low)
<1>1. PICK a : a[0] = 0 /\ Total(low) = a[k] /\ \A n \in 1..k : a[n] = a[n - 1] + low[n]
  BY TotalIs
<1>2. PICK b : b[0] = 0 /\ Total(high) = b[k] /\ \A n \in 1..k : b[n] = b[n - 1] + high[n]
  BY TotalIs
<1> DEFINE S == {p \in Nat \X Nat : p[1] <= p[2]}
           f == [n \in 0..k |-> <<a[n], b[n]>>]
<1>3. f[0] \in S
  BY <1>1, <1>2
<1>4. ASSUME NEW n \in 1..k, f[n - 1] \in S PROVE f[n] \in S
  <2>1. f[n - 1] = <<a[n - 1], b[n - 1]>> /\ f[n] = <<a[n], b[n]>>
    OBVIOUS
  <2>2. a[n - 1] \in Nat /\ b[n - 1] \in Nat /\ a[n - 1] <= b[n - 1]
    BY <1>4, <2>1
  <2>3. a[n] = a[n - 1] + low[n] /\ b[n] = b[n - 1] + high[n]
    BY <1>1, <1>2
  <2>4. low[n] \in Nat /\ high[n] \in Nat /\ low[n] <= high[n]
    OBVIOUS
  <2>5. a[n] \in Nat /\ b[n] \in Nat /\ a[n] <= b[n]
    BY <2>2, <2>3, <2>4
  <2> QED BY <2>1, <2>5
<1>5. f[k] \in S
  <2> HIDE DEF f, S
  <2>1. \A n \in 0..k : f[n] \in S
    BY <1>3, <1>4, RecursionStays
  <2> QED BY <2>1
<1> QED BY <1>1, <1>2, <1>5

-----------------------------------------------------------------------------
(* Greatest and least numbers, and numbers in order *)

(* A bounded set of numbers has a greatest one.                            *)
LEMMA GreatestOfNumbers ==
  ASSUME NEW S \in SUBSET Nat, NEW top \in Nat, \A x \in S : x <= top, S # {}
  PROVE  \E x \in S : \A y \in S : y <= x
<1>1. PICK T : T = {top - x : x \in S}
  OBVIOUS
<1>2. T \in SUBSET Nat /\ T # {}
  <2>1. \A x \in S : x \in Nat /\ top - x \in Nat
    OBVIOUS
  <2> QED BY <1>1, <2>1
<1>3. PICK d \in T : \A e \in T : d <= e
  BY <1>2, LeastNumber
<1>4. PICK x \in S : d = top - x
  BY <1>1, <1>3
<1>5. ASSUME NEW y \in S PROVE y <= x
  <2>1. top - y \in T /\ top - x <= top - y
    BY <1>1, <1>3, <1>4
  <2> QED BY <2>1
<1> QED BY <1>5

(* Max of such a set is what its name says.                                *)
LEMMA GreatestIs ==
  ASSUME NEW top \in Nat, NEW S \in SUBSET (0..top), S # {}
  PROVE  Max(S) \in S /\ \A y \in S : y <= Max(S)
<1>1. \E x \in S : \A y \in S : y <= x
  <2>1. S \in SUBSET Nat /\ \A x \in S : x <= top
    OBVIOUS
  <2> QED BY <2>1, GreatestOfNumbers
<1>2. \E x \in S : \A y \in S : x >= y
  BY <1>1
<1>3. /\ (CHOOSE x \in S : \A y \in S : x >= y) \in S
      /\ \A y \in S : (CHOOSE x \in S : \A y2 \in S : x >= y2) >= y
  BY <1>2, Zenon
<1>4. Max(S) \in S /\ \A y \in S : Max(S) >= y
  BY <1>3, Zenon DEF Max
<1> QED BY <1>4

(* So is Min.                                                              *)
LEMMA LeastIs ==
  ASSUME NEW S \in SUBSET Nat, S # {}
  PROVE  Min(S) \in S /\ \A y \in S : Min(S) <= y
<1>1. \E x \in S : \A y \in S : x <= y
  BY LeastNumber
<1> QED BY <1>1, Zenon DEF Min

(* The smaller of two numbers.                                             *)
LEMMA LeastOfTwo ==
  ASSUME NEW a \in Int, NEW b \in Int
  PROVE  Min({a, b}) = IF a <= b THEN a ELSE b
<1>1. \E x \in {a, b} : \A y \in {a, b} : x <= y
  OBVIOUS
<1>2. Min({a, b}) \in {a, b} /\ \A y \in {a, b} : Min({a, b}) <= y
  BY <1>1, Zenon DEF Min
<1> QED BY <1>2

(* o lists the positions from the first to the last.                       *)
Orders(o, positions, last) ==
    /\ o \in Seq(1..last)
    /\ \A n \in 1..Len(o) : o[n] \in positions
    /\ \A p \in positions : \E n \in 1..Len(o) : o[n] = p
    /\ \A i, j \in 1..Len(o) : i < j => o[i] < o[j]

(* Positions in order stay in order when a later one is put behind them.   *)
LEMMA OrderGrows ==
  ASSUME NEW last \in Nat, NEW n \in 1..last, NEW old \in SUBSET (1..n - 1), NEW o,
         Orders(o, old, last)
  PROVE  Orders(Append(o, n), old \cup {n}, last)
<1> DEFINE new == Append(o, n)
<1>1. o \in Seq(1..last) /\ Len(o) \in Nat
  BY DEF Orders
<1>2. new \in Seq(1..last) /\ Len(new) = Len(o) + 1 /\ new[Len(o) + 1] = n
      /\ \A i \in 1..Len(o) : new[i] = o[i]
  BY <1>1
<1> HIDE DEF new
<1>3. \A i \in 1..Len(new) : i \in 1..Len(o) \/ i = Len(o) + 1
  BY <1>1, <1>2
<1>4. \A i \in 1..Len(new) : new[i] \in old \cup {n}
  BY <1>2, <1>3 DEF Orders
<1>5. \A p \in old \cup {n} : \E i \in 1..Len(new) : new[i] = p
  <2> TAKE p \in old \cup {n}
  <2>1. CASE p = n
    <3>1. Len(o) + 1 \in 1..Len(new)
      BY <1>1, <1>2
    <3> QED BY <1>2, <2>1, <3>1
  <2>2. CASE p \in old
    <3>1. PICK i \in 1..Len(o) : o[i] = p
      BY <2>2 DEF Orders
    <3>2. i \in 1..Len(new)
      BY <1>1, <1>2
    <3> QED BY <1>2, <3>1, <3>2
  <2> QED BY <2>1, <2>2
<1>6. \A i, j \in 1..Len(new) : i < j => new[i] < new[j]
  <2> TAKE i, j \in 1..Len(new)
  <2> HAVE i < j
  <2>1. i \in 1..Len(o)
    BY <1>1, <1>2
  <2>2. o[i] \in 1..n - 1
    BY <2>1 DEF Orders
  <2>3. CASE j \in 1..Len(o)
    BY <1>2, <2>1, <2>3 DEF Orders
  <2>4. CASE j = Len(o) + 1
    BY <1>2, <2>1, <2>2, <2>4
  <2> QED BY <1>3, <2>3, <2>4
<1>7. Orders(new, old \cup {n}, last)
  BY <1>2, <1>4, <1>5, <1>6 DEF Orders
<1> QED BY <1>7 DEF new

(* InOrder lists the positions it is given.                                *)
LEMMA InOrderIs ==
  ASSUME NEW last \in Nat, NEW positions \in SUBSET (1..last)
  PROVE  Orders(InOrder(positions, last), positions, last)
<1> DEFINE Finds(f) == f = [n \in 0..last |-> IF n = 0 THEN <<>>
                                ELSE IF n \in positions THEN Append(f[n - 1], n)
                                ELSE f[n - 1]]
           S == Seq(1..last)
           step == [p \in (1..last) \X S |-> IF p[1] \in positions THEN Append(p[2], p[1]) ELSE p[2]]
<1>1. \E f : Finds(f)
  <2>1. step \in [(1..last) \X S -> S]
    <3>1. ASSUME NEW p \in (1..last) \X S
          PROVE  (IF p[1] \in positions THEN Append(p[2], p[1]) ELSE p[2]) \in S
      <4>1. p[1] \in 1..last /\ p[2] \in Seq(1..last)
        OBVIOUS
      <4>2. Append(p[2], p[1]) \in Seq(1..last)
        BY <4>1, AppendProperties
      <4> QED BY <4>1, <4>2
    <3> HIDE DEF S
    <3> QED BY <3>1
  <2>2. <<>> \in S
    OBVIOUS
  <2>3. PICK f : Unrolls(f, <<>>, last, step)
    <3> HIDE DEF S, step
    <3> QED BY <2>1, <2>2, RecursionExists, Zenon
  <2>4. \A n \in 0..last : f[n] \in S
    <3>1. ASSUME NEW n \in 1..last, f[n - 1] \in S PROVE f[n] \in S
      <4>1. <<n, f[n - 1]>> \in (1..last) \X S
        BY <3>1
      <4> HIDE DEF S, step
      <4> QED BY <2>1, <2>3, <4>1 DEF Unrolls
    <3>2. f[0] \in S
      BY <2>2, <2>3 DEF Unrolls
    <3> HIDE DEF S, step
    <3> QED BY <3>1, <3>2, RecursionStays, Zenon
  <2>5. \A n \in 1..last : f[n] = IF n \in positions THEN Append(f[n - 1], n) ELSE f[n - 1]
    <3> TAKE n \in 1..last
    <3>1. <<n, f[n - 1]>> \in (1..last) \X S
      <4>1. n - 1 \in 0..last
        OBVIOUS
      <4> HIDE DEF S, step
      <4>2. f[n - 1] \in S
        BY <2>4, <4>1
      <4> QED BY <4>2
    <3>2. f[n] = step[<<n, f[n - 1]>>]
      BY <2>3 DEF Unrolls
    <3>3. step[<<n, f[n - 1]>>] = IF n \in positions THEN Append(f[n - 1], n) ELSE f[n - 1]
      <4> HIDE DEF S
      <4> QED BY <3>1
    <3> QED BY <3>2, <3>3
  <2>6. \A n \in 0..last : f[n] = IF n = 0 THEN <<>> ELSE IF n \in positions
                                  THEN Append(f[n - 1], n) ELSE f[n - 1]
    <3> TAKE n \in 0..last
    <3>1. n = 0 \/ n \in 1..last
      OBVIOUS
    <3>2. f[0] = <<>>
      BY <2>3 DEF Unrolls
    <3> HIDE DEF S, step
    <3> QED BY <2>5, <3>1, <3>2
  <2>7. f = [n \in 0..last |-> f[n]]
    BY <2>3 DEF Unrolls
  <2> HIDE DEF S, step
  <2> QED BY <2>6, <2>7
<1> DEFINE found == CHOOSE f : Finds(f)
<1>2. Finds(found)
  BY <1>1, Zenon
<1>3. InOrder(positions, last) = found[last]
  BY Zenon DEF InOrder
<1> HIDE DEF found
<1>4. found[0] = <<>> /\ \A n \in 1..last : found[n] = IF n \in positions
                             THEN Append(found[n - 1], n) ELSE found[n - 1]
  <2>1. \A n \in 0..last : found[n] = IF n = 0 THEN <<>>
                             ELSE IF n \in positions THEN Append(found[n - 1], n)
                             ELSE found[n - 1]
    BY <1>2
  <2>2. 0 \in 0..last /\ \A n \in 1..last : n \in 0..last /\ n # 0
    OBVIOUS
  <2> QED BY <2>1, <2>2
<1> DEFINE upTo(n) == {p \in positions : p <= n}
           Good == {n \in 0..last : Orders(found[n], upTo(n), last)}
<1>5. 0 \in Good
  <2>1. upTo(0) = {}
    <3>1. \A p \in positions : p \in 1..last
      OBVIOUS
    <3>2. \A p \in positions : ~(p <= 0)
      BY <3>1
    <3> QED BY <3>2
  <2>2. Orders(found[0], upTo(0), last)
    <3> HIDE DEF upTo
    <3> QED BY <1>4, <2>1 DEF Orders
  <2> QED BY <2>2
<1>6. ASSUME NEW n \in 1..last, n - 1 \in Good PROVE n \in Good
  <2>1. Orders(found[n - 1], upTo(n - 1), last)
    BY <1>6
  <2>2. CASE n \in positions
    <3>1. upTo(n) = upTo(n - 1) \cup {n} /\ upTo(n - 1) \in SUBSET (1..n - 1)
      <4>1. \A p \in positions : p \in 1..last
        OBVIOUS
      <4>2. \A p \in positions : p <= n <=> p <= n - 1 \/ p = n
        BY <4>1
      <4>3. upTo(n) = upTo(n - 1) \cup {n}
        BY <2>2, <4>2
      <4>4. \A p \in upTo(n - 1) : p \in 1..n - 1
        BY <4>1
      <4> HIDE DEF upTo
      <4> QED BY <4>3, <4>4
    <3>2. Orders(found[n], upTo(n), last)
      <4> HIDE DEF upTo, Good
      <4> QED BY <1>4, <2>1, <2>2, <3>1, OrderGrows
    <3> QED BY <3>2
  <2>3. CASE n \notin positions
    <3>1. upTo(n) = upTo(n - 1)
      <4>1. \A p \in positions : p \in 1..last /\ p # n
        BY <2>3
      <4>2. \A p \in positions : p <= n <=> p <= n - 1
        BY <4>1
      <4> QED BY <4>2
    <3>2. Orders(found[n], upTo(n), last)
      <4> HIDE DEF upTo, Good
      <4> QED BY <1>4, <2>1, <2>3, <3>1
    <3> QED BY <3>2
  <2> QED BY <2>2, <2>3
<1>7. last \in Good
  <2>1. \A n \in 0..last : n \in Good
    <3> HIDE DEF Good
    <3> QED BY <1>5, <1>6, Climbing
  <2> QED BY <2>1
<1>8. upTo(last) = positions
  <2>1. \A p \in positions : p \in 1..last
    OBVIOUS
  <2>2. \A p \in positions : p <= last
    BY <2>1
  <2> QED BY <2>2
<1>9. Orders(found[last], positions, last)
  BY <1>7, <1>8
<1> QED BY <1>3, <1>9

(* Messages of a transcript, at positions of it.                           *)
LEMMA PickIs ==
  ASSUME NEW M \in Seq(Messages), NEW at \in SUBSET (1..Len(M))
  PROVE  \E o : /\ Orders(o, at, Len(M)) /\ Pick(M, at) \in Seq(Messages)
                /\ Len(Pick(M, at)) = Len(o)
                /\ \A n \in 1..Len(o) : Pick(M, at)[n] = M[o[n]]
<1> DEFINE o == InOrder(at, Len(M))
<1>1. Len(M) \in Nat
  OBVIOUS
<1>2. Orders(o, at, Len(M))
  BY <1>1, InOrderIs
<1>3. o \in Seq(1..Len(M)) /\ DOMAIN o = 1..Len(o) /\ Len(o) \in Nat
  BY <1>2 DEF Orders
<1>4. Pick(M, at) = [n \in 1..Len(o) |-> M[o[n]]]
  BY <1>3, Zenon DEF Pick
<1> HIDE DEF o
<1>5. \A n \in 1..Len(o) : M[o[n]] \in Messages
  BY <1>3
<1> HIDE DEF Messages
<1>6. [n \in 1..Len(o) |-> M[o[n]]] \in Seq(Messages)
  BY <1>3, <1>5, IsASeq
<1> QED BY <1>2, <1>3, <1>4, <1>6

-----------------------------------------------------------------------------
(* Calls and their results *)

Simple(m) == m.role # "tool" /\ m.calls = <<>>

(* A call comes with its results, and a result with its call.              *)
Closed(M, at) ==
    /\ \A p \in at : M[p].calls # <<>> =>
         M[p].role # "tool" /\ AnsweredCalls(M, p) /\ AnswersOf(M, p) \subseteq at
    /\ \A p \in at : M[p].role = "tool" => \E i \in at : p \in AnswersOf(M, i)

(* W has the messages of M at the positions of B from off on, and no other *)
(* call or result.                                                         *)
Layout(W, M, off, b, B) ==
    /\ W \in Seq(Messages) /\ off \in Nat /\ Orders(b, B, Len(M)) /\ off + Len(b) <= Len(W)
    /\ \A k \in 1..Len(b) : W[off + k] = M[b[k]]
    /\ \A n \in 1..Len(W) : ~Simple(W[n]) => \E k \in 1..Len(b) : n = off + k

Together(shown, M) ==
    /\ \A n \in DOMAIN shown : shown[n].calls # <<>> => AnsweredCalls(shown, n)
    /\ \A n \in DOMAIN shown : shown[n].role = "tool" =>
         \E i \in 1..n-1 : n \in Run(shown, i) /\ shown[n].key \in Range(shown[i].calls)
    /\ \A i, j \in DOMAIN shown : i < j /\ shown[i].calls # <<>> /\ shown[j].calls # <<>> =>
         \E k \in DOMAIN M : \E l \in k+1..Len(M) : M[k] = shown[i] /\ M[l] = shown[j]

(* Positions in order: compared as their places are.                       *)
LEMMA OrderIs ==
  ASSUME NEW b, NEW B, NEW last \in Nat, Orders(b, B, last)
  PROVE  /\ Len(b) \in Nat /\ \A k \in 1..Len(b) : b[k] \in 1..last /\ b[k] \in B
         /\ \A k, l \in 1..Len(b) : (b[k] < b[l] <=> k < l) /\ (b[k] = b[l] <=> k = l)
<1>1. b \in Seq(1..last) /\ Len(b) \in Nat /\ \A k \in 1..Len(b) : b[k] \in 1..last /\ b[k] \in B
  BY DEF Orders
<1>2. \A k, l \in 1..Len(b) : k < l => b[k] < b[l]
  BY DEF Orders
<1>3. ASSUME NEW k \in 1..Len(b), NEW l \in 1..Len(b)
      PROVE  (b[k] < b[l] <=> k < l) /\ (b[k] = b[l] <=> k = l)
  <2>1. b[k] \in 1..last /\ b[l] \in 1..last
    BY <1>1
  <2>2. k < l \/ k = l \/ l < k
    BY <1>1
  <2> QED BY <1>1, <1>2, <2>1, <2>2
<1> QED BY <1>1, <1>3

(* An answer is a tool message behind a call.                              *)
LEMMA AnswerIs ==
  ASSUME NEW M \in Seq(Messages), NEW i \in 1..Len(M), NEW p \in AnswersOf(M, i)
  PROVE  /\ p \in i + 1..Len(M) /\ p \in Run(M, i) /\ M[p].role = "tool"
         /\ M[p].key \in Range(M[i].calls) /\ M[i].calls # <<>>
<1>1. p \in Run(M, i) /\ M[p].key \in Range(M[i].calls)
  BY DEF AnswersOf
<1>2. p \in i + 1..Len(M) /\ \A k \in i + 1..p : M[k].role = "tool"
  BY <1>1 DEF Run
<1>3. p \in i + 1..p
  BY <1>2
<1>4. M[i].calls # <<>>
  <2>1. SUFFICES ASSUME M[i].calls = <<>> PROVE FALSE
    OBVIOUS
  <2>2. Range(<<>>) = {}
    BY DEF Range
  <2> QED BY <1>1, <2>1, <2>2
<1> QED BY <1>1, <1>2, <1>3, <1>4

(* Where all of a call's answers are laid out, its run is what it was.     *)
LEMMA RunsAgree ==
  ASSUME NEW W, NEW M \in Seq(Messages), NEW off, NEW b, NEW B, Layout(W, M, off, b, B),
         Closed(M, B), NEW k \in 1..Len(b), NEW l \in 1..Len(b), M[b[k]].calls # <<>>
  PROVE  off + l \in Run(W, off + k) <=> b[l] \in Run(M, b[k])
<1>1. /\ W \in Seq(Messages) /\ off \in Nat /\ off + Len(b) <= Len(W)
      /\ Len(W) \in Nat /\ Len(M) \in Nat
      /\ \A y \in 1..Len(b) : W[off + y] = M[b[y]]
  BY DEF Layout
<1>2. /\ Len(b) \in Nat /\ \A y \in 1..Len(b) : b[y] \in 1..Len(M) /\ b[y] \in B
      /\ \A x, y \in 1..Len(b) : (b[x] < b[y] <=> x < y) /\ (b[x] = b[y] <=> x = y)
  <2>1. Orders(b, B, Len(M))
    BY DEF Layout
  <2> QED BY <1>1, <2>1, OrderIs
<1>3. M[b[k]].role # "tool"
  BY <1>2 DEF Closed
<1>4. ASSUME b[l] \in Run(M, b[k]) PROVE off + l \in Run(W, off + k)
  <2>1. b[l] \in b[k] + 1..Len(M) /\ \A x \in b[k] + 1..b[l] : M[x].role = "tool"
    BY <1>4 DEF Run
  <2>2. k < l
    BY <1>2, <2>1
  <2>3. off + l \in off + k + 1..Len(W)
    BY <1>1, <1>2, <2>2
  <2>4. ASSUME NEW x \in off + k + 1..off + l PROVE W[x].role = "tool"
    <3>1. PICK y \in k + 1..l : x = off + y
      <4>1. x - off \in k + 1..l /\ x = off + (x - off)
        BY <1>1, <1>2
      <4> QED BY <4>1
    <3>2. y \in 1..Len(b) /\ k < y /\ (y < l \/ y = l)
      BY <1>2, <3>1
    <3>3. b[k] < b[y] /\ (b[y] < b[l] \/ b[y] = b[l])
      BY <1>2, <3>2
    <3>4. b[y] \in b[k] + 1..b[l]
      BY <1>2, <3>2, <3>3
    <3> QED BY <1>1, <2>1, <3>1, <3>2, <3>4
  <2> QED BY <2>3, <2>4 DEF Run
<1>5. ASSUME off + l \in Run(W, off + k) PROVE b[l] \in Run(M, b[k])
  <2>1. off + l \in off + k + 1..Len(W) /\ \A x \in off + k + 1..off + l : W[x].role = "tool"
    BY <1>5 DEF Run
  <2>2. k < l
    BY <1>1, <1>2, <2>1
  <2>3. M[b[l]].role = "tool"
    <3>1. off + l \in off + k + 1..off + l
      BY <1>1, <1>2, <2>2
    <3> QED BY <1>1, <2>1, <3>1
  <2>4. PICK i \in B : b[l] \in AnswersOf(M, i)
    BY <1>2, <2>3 DEF Closed
  <2>5. PICK z \in 1..Len(b) : b[z] = i
    BY DEF Layout, Orders
  <2>6. b[l] \in i + 1..Len(M) /\ b[l] \in Run(M, i) /\ M[i].calls # <<>>
    BY <1>2, <2>4, <2>5, AnswerIs
  <2>7. M[i].role # "tool"
    BY <2>6 DEF Closed
  <2>8. z < l
    BY <1>2, <2>5, <2>6
  <2>9. ~(k < z)
    <3>1. SUFFICES ASSUME k < z PROVE FALSE
      OBVIOUS
    <3>2. off + z \in off + k + 1..off + l
      BY <1>1, <1>2, <2>8, <3>1
    <3> QED BY <1>1, <2>1, <2>5, <2>7, <3>2
  <2>10. ~(z < k)
    <3>1. SUFFICES ASSUME z < k PROVE FALSE
      OBVIOUS
    <3>2. b[k] \in i + 1..b[l]
      <4>1. b[z] < b[k] /\ b[k] < b[l]
        BY <1>2, <2>2, <3>1
      <4> QED BY <1>2, <2>5, <4>1
    <3>3. \A x \in i + 1..b[l] : M[x].role = "tool"
      BY <2>6 DEF Run
    <3> QED BY <1>3, <3>2, <3>3
  <2>11. z = k
    BY <1>2, <2>9, <2>10
  <2> QED BY <2>5, <2>6, <2>11
<1> QED BY <1>4, <1>5

(* So what is shown is paired as the transcript is.                        *)
LEMMA LayoutPairs ==
  ASSUME NEW W, NEW M \in Seq(Messages), NEW off, NEW b, NEW B, Layout(W, M, off, b, B),
         Closed(M, B)
  PROVE  Together(W, M)
<1>1. /\ W \in Seq(Messages) /\ off \in Nat /\ off + Len(b) <= Len(W) /\ DOMAIN W = 1..Len(W)
      /\ Len(W) \in Nat /\ Len(M) \in Nat /\ DOMAIN M = 1..Len(M)
      /\ \A y \in 1..Len(b) : W[off + y] = M[b[y]]
  BY DEF Layout
<1>2. /\ Len(b) \in Nat /\ \A y \in 1..Len(b) : b[y] \in 1..Len(M) /\ b[y] \in B
      /\ \A x, y \in 1..Len(b) : (b[x] < b[y] <=> x < y) /\ (b[x] = b[y] <=> x = y)
  <2>1. Orders(b, B, Len(M))
    BY DEF Layout
  <2> QED BY <1>1, <2>1, OrderIs
<1>3. \A p \in B : \E y \in 1..Len(b) : b[y] = p
  BY DEF Layout, Orders
<1>4. ASSUME NEW n \in DOMAIN W, W[n].calls # <<>> \/ W[n].role = "tool"
      PROVE  \E y \in 1..Len(b) : n = off + y
  <2>1. ~Simple(W[n])
    BY <1>4 DEF Simple
  <2> QED BY <1>1, <2>1 DEF Layout
<1>5. ASSUME NEW n \in DOMAIN W, W[n].calls # <<>> PROVE AnsweredCalls(W, n)
  <2>1. PICK k \in 1..Len(b) : n = off + k
    BY <1>4, <1>5
  <2>2. W[n] = M[b[k]] /\ b[k] \in B
    BY <1>1, <1>2, <2>1
  <2>3. M[b[k]].calls # <<>> /\ AnsweredCalls(M, b[k]) /\ AnswersOf(M, b[k]) \subseteq B
    BY <1>5, <2>2 DEF Closed
  <2>4. ASSUME NEW id \in Range(W[n].calls)
        PROVE  \E j \in Run(W, n) : \A x \in Run(W, n) : W[x].key = id <=> x = j
    <3>1. PICK j \in Run(M, b[k]) : \A x \in Run(M, b[k]) : M[x].key = id <=> x = j
      BY <2>2, <2>3, <2>4 DEF AnsweredCalls
    <3>2. j \in B
      BY <2>2, <2>3, <2>4, <3>1 DEF AnswersOf
    <3>3. PICK l \in 1..Len(b) : b[l] = j
      BY <1>3, <3>2
    <3>4. off + l \in Run(W, n)
      BY <2>1, <2>3, <3>1, <3>3, RunsAgree
    <3>5. ASSUME NEW x \in Run(W, n) PROVE W[x].key = id <=> x = off + l
      <4>1. x \in n + 1..Len(W) /\ \A y \in n + 1..x : W[y].role = "tool"
        BY DEF Run
      <4>2. x \in DOMAIN W /\ W[x].role = "tool"
        BY <1>1, <4>1
      <4>3. PICK y \in 1..Len(b) : x = off + y
        BY <1>4, <4>2
      <4>4. b[y] \in Run(M, b[k])
        BY <2>1, <2>3, <4>3, RunsAgree
      <4>5. W[x].key = id <=> b[y] = b[l]
        BY <1>1, <3>1, <3>3, <4>3, <4>4
      <4> QED BY <1>1, <1>2, <4>3, <4>5
    <3> QED BY <3>4, <3>5
  <2> QED BY <2>4 DEF AnsweredCalls
<1>6. ASSUME NEW n \in DOMAIN W, W[n].role = "tool"
      PROVE  \E i \in 1..n-1 : n \in Run(W, i) /\ W[n].key \in Range(W[i].calls)
  <2>1. PICK l \in 1..Len(b) : n = off + l
    BY <1>4, <1>6
  <2>2. W[n] = M[b[l]] /\ b[l] \in B /\ M[b[l]].role = "tool"
    BY <1>1, <1>2, <1>6, <2>1
  <2>3. PICK i \in B : b[l] \in AnswersOf(M, i)
    BY <2>2 DEF Closed
  <2>4. PICK k \in 1..Len(b) : b[k] = i
    BY <1>3
  <2>5. /\ b[l] \in i + 1..Len(M) /\ b[l] \in Run(M, i) /\ M[i].calls # <<>>
        /\ M[b[l]].key \in Range(M[i].calls)
    BY <1>2, <2>3, <2>4, AnswerIs
  <2>6. n \in Run(W, off + k)
    BY <2>1, <2>4, <2>5, RunsAgree
  <2>7. k < l
    BY <1>2, <2>4, <2>5
  <2>8. off + k \in 1..n-1
    BY <1>1, <1>2, <2>1, <2>7
  <2>9. W[off + k] = M[i]
    BY <1>1, <2>4
  <2> QED BY <2>2, <2>5, <2>6, <2>8, <2>9
<1>7. ASSUME NEW i \in DOMAIN W, NEW j \in DOMAIN W, i < j, W[i].calls # <<>>, W[j].calls # <<>>
      PROVE  \E k \in DOMAIN M : \E l \in k+1..Len(M) : M[k] = W[i] /\ M[l] = W[j]
  <2>1. PICK x \in 1..Len(b) : i = off + x
    BY <1>4, <1>7
  <2>2. PICK y \in 1..Len(b) : j = off + y
    BY <1>4, <1>7
  <2>3. b[x] < b[y]
    BY <1>1, <1>2, <1>7, <2>1, <2>2
  <2>4. b[x] \in DOMAIN M /\ b[y] \in b[x] + 1..Len(M)
    BY <1>1, <1>2, <2>3
  <2> QED BY <1>1, <2>1, <2>2, <2>4
<1> QED BY <1>5, <1>6, <1>7, Zenon DEF Together

(* w is p, then q.                                                         *)
Follows(w, p, q, S) ==
    /\ w \in Seq(S) /\ Len(w) = Len(p) + Len(q)
    /\ \A n \in 1..Len(p) : w[n] = p[n]
    /\ \A n \in 1..Len(q) : w[Len(p) + n] = q[n]

(* A concatenation holds the first part, then the second.                  *)
LEMMA TwoParts ==
  ASSUME NEW S, NEW p \in Seq(S), NEW q \in Seq(S)
  PROVE  Follows(p \o q, p, q, S)
<1>1. /\ p \o q \in Seq(S) /\ Len(p \o q) = Len(p) + Len(q)
      /\ \A n \in 1..Len(p) + Len(q) :
            (p \o q)[n] = IF n <= Len(p) THEN p[n] ELSE q[n - Len(p)]
  BY ConcatProperties
<1>2. Len(p) \in Nat /\ Len(q) \in Nat
  OBVIOUS
<1>3. ASSUME NEW n \in 1..Len(q) PROVE (p \o q)[Len(p) + n] = q[n]
  <2>1. /\ Len(p) + n \in 1..Len(p) + Len(q) /\ ~(Len(p) + n <= Len(p))
        /\ (Len(p) + n) - Len(p) = n
    BY <1>2
  <2> QED BY <1>1, <2>1
<1> QED BY <1>1, <1>2, <1>3 DEF Follows

(* w is p, then q, then r, then s.                                         *)
InRow(w, p, q, r, s, S) ==
    /\ w \in Seq(S) /\ Len(w) = Len(p) + Len(q) + Len(r) + Len(s)
    /\ \A n \in 1..Len(p) : w[n] = p[n]
    /\ \A n \in 1..Len(q) : w[Len(p) + n] = q[n]
    /\ \A n \in 1..Len(r) : w[Len(p) + Len(q) + n] = r[n]
    /\ \A n \in 1..Len(s) : w[Len(p) + Len(q) + Len(r) + n] = s[n]

(* The same of four parts.                                                 *)
LEMMA FourParts ==
  ASSUME NEW S, NEW p \in Seq(S), NEW q \in Seq(S), NEW r \in Seq(S), NEW s \in Seq(S)
  PROVE  InRow(p \o q \o r \o s, p, q, r, s, S)
<1> DEFINE u == p \o q
           v == u \o r
           w == v \o s
<1>1. Len(p) \in Nat /\ Len(q) \in Nat /\ Len(r) \in Nat /\ Len(s) \in Nat
  OBVIOUS
<1>2. Follows(u, p, q, S)
  BY TwoParts
<1>3. u \in Seq(S)
  BY <1>2 DEF Follows
<1>4. Follows(v, u, r, S)
  <2> HIDE DEF u
  <2> QED BY <1>3, TwoParts
<1>5. v \in Seq(S)
  BY <1>4 DEF Follows
<1>6. Follows(w, v, s, S)
  <2> HIDE DEF v
  <2> QED BY <1>5, TwoParts
<1> HIDE DEF u, v, w
<1>7. /\ w \in Seq(S) /\ Len(u) = Len(p) + Len(q) /\ Len(v) = Len(u) + Len(r)
      /\ Len(w) = Len(v) + Len(s)
  BY <1>2, <1>4, <1>6 DEF Follows
<1>8. \A n \in 1..Len(p) : w[n] = p[n]
  <2> TAKE n \in 1..Len(p)
  <2>1. n \in 1..Len(u) /\ n \in 1..Len(v)
    BY <1>1, <1>7
  <2> QED BY <1>2, <1>4, <1>6, <2>1 DEF Follows
<1>9. \A n \in 1..Len(q) : w[Len(p) + n] = q[n]
  <2> TAKE n \in 1..Len(q)
  <2>1. Len(p) + n \in 1..Len(u) /\ Len(p) + n \in 1..Len(v)
    BY <1>1, <1>7
  <2> QED BY <1>2, <1>4, <1>6, <2>1 DEF Follows
<1>10. \A n \in 1..Len(r) : w[Len(p) + Len(q) + n] = r[n]
  <2> TAKE n \in 1..Len(r)
  <2>1. Len(u) + n \in 1..Len(v)
    BY <1>1, <1>7
  <2> QED BY <1>4, <1>6, <1>7, <2>1 DEF Follows
<1>11. \A n \in 1..Len(s) : w[Len(p) + Len(q) + Len(r) + n] = s[n]
  BY <1>6, <1>7 DEF Follows
<1>12. InRow(w, p, q, r, s, S)
  BY <1>7, <1>8, <1>9, <1>10, <1>11 DEF InRow
<1> QED BY <1>12 DEF u, v, w

(* W has M's messages at the positions up to newest, then extra, those at  *)
(* the later positions, then runtime.                                      *)
Spread(W, M, at, newest, extra, runtime, a, b) ==
    /\ Orders(a, {p \in at : p <= newest}, Len(M)) /\ Orders(b, {p \in at : p > newest}, Len(M))
    /\ W \in Seq(Messages) /\ Len(W) = Len(a) + Len(extra) + Len(b) + Len(runtime)
    /\ \A n \in 1..Len(a) : W[n] = M[a[n]]
    /\ \A n \in 1..Len(extra) : W[Len(a) + n] = extra[n]
    /\ \A n \in 1..Len(b) : W[Len(a) + Len(extra) + n] = M[b[n]]
    /\ \A n \in 1..Len(runtime) : W[Len(a) + Len(extra) + Len(b) + n] = runtime[n]

Laid(M, at, newest, extra, runtime) ==
    Pick(M, {p \in at : p <= newest}) \o extra \o Pick(M, {p \in at : p > newest}) \o runtime

(* An arrangement is its four parts in a row.                              *)
LEMMA LaidInRow ==
  ASSUME NEW M \in Seq(Messages), NEW at \in SUBSET (1..Len(M)), NEW newest \in Nat,
         NEW extra \in Seq(Messages), NEW runtime \in Seq(Messages)
  PROVE  InRow(Laid(M, at, newest, extra, runtime), Pick(M, {p \in at : p <= newest}), extra,
               Pick(M, {p \in at : p > newest}), runtime, Messages)
<1> DEFINE A == {p \in at : p <= newest}
           B == {p \in at : p > newest}
<1>1. A \in SUBSET (1..Len(M)) /\ B \in SUBSET (1..Len(M))
  OBVIOUS
<1>2. Laid(M, at, newest, extra, runtime) = Pick(M, A) \o extra \o Pick(M, B) \o runtime
  BY DEF Laid
<1>3. Pick(M, A) \in Seq(Messages) /\ Pick(M, B) \in Seq(Messages)
  <2> HIDE DEF A, B
  <2> QED BY <1>1, PickIs
<1> DEFINE pa == Pick(M, A)
           pb == Pick(M, B)
<1>4. InRow(pa \o extra \o pb \o runtime, pa, extra, pb, runtime, Messages)
  <2>1. pa \in Seq(Messages) /\ pb \in Seq(Messages)
    BY <1>3
  <2> HIDE DEF pa, pb
  <2> QED BY <2>1, FourParts
<1> HIDE DEF A, B
<1>5. InRow(Laid(M, at, newest, extra, runtime), pa, extra, pb, runtime, Messages)
  BY <1>2, <1>4
<1> QED BY <1>5 DEF A, B

(* Each message of an arrangement stands at a known place.                 *)
LEMMA LaidSpreads ==
  ASSUME NEW M \in Seq(Messages), NEW at \in SUBSET (1..Len(M)), NEW newest \in Nat,
         NEW extra \in Seq(Messages), NEW runtime \in Seq(Messages)
  PROVE  \E a, b : Spread(Laid(M, at, newest, extra, runtime), M, at, newest, extra, runtime, a, b)
<1> DEFINE A == {p \in at : p <= newest}
           B == {p \in at : p > newest}
           W == Laid(M, at, newest, extra, runtime)
<1>1. A \in SUBSET (1..Len(M)) /\ B \in SUBSET (1..Len(M))
  OBVIOUS
<1>2. InRow(W, Pick(M, A), extra, Pick(M, B), runtime, Messages)
  BY LaidInRow
<1>3. PICK a : /\ Orders(a, A, Len(M)) /\ Pick(M, A) \in Seq(Messages)
               /\ Len(Pick(M, A)) = Len(a) /\ \A n \in 1..Len(a) : Pick(M, A)[n] = M[a[n]]
  <2> HIDE DEF A
  <2> QED BY <1>1, PickIs
<1>4. PICK b : /\ Orders(b, B, Len(M)) /\ Pick(M, B) \in Seq(Messages)
               /\ Len(Pick(M, B)) = Len(b) /\ \A n \in 1..Len(b) : Pick(M, B)[n] = M[b[n]]
  <2> HIDE DEF B
  <2> QED BY <1>1, PickIs
<1>5. Spread(W, M, at, newest, extra, runtime, a, b)
  <2>1. /\ W \in Seq(Messages) /\ Len(W) = Len(a) + Len(extra) + Len(b) + Len(runtime)
        /\ \A n \in 1..Len(a) : W[n] = M[a[n]]
        /\ \A n \in 1..Len(extra) : W[Len(a) + n] = extra[n]
        /\ \A n \in 1..Len(b) : W[Len(a) + Len(extra) + n] = M[b[n]]
        /\ \A n \in 1..Len(runtime) : W[Len(a) + Len(extra) + Len(b) + n] = runtime[n]
    <3> HIDE DEF W, A, B
    <3> QED BY <1>2, <1>3, <1>4 DEF InRow
  <2> HIDE DEF W
  <2> QED BY <1>3, <1>4, <2>1, Zenon DEF Spread
<1> QED BY <1>5

(* Around a request that precedes all calls there are no results.          *)
LEMMA ArrangementPairs ==
  ASSUME NEW M \in Seq(Messages), NEW at \in SUBSET (1..Len(M)), Closed(M, at),
         NEW newest \in Nat, \A p \in 1..Len(M) : ~Simple(M[p]) => newest < p,
         NEW extra \in Seq(Messages), \A n \in 1..Len(extra) : Simple(extra[n]),
         NEW runtime \in Seq(Messages), \A n \in 1..Len(runtime) : Simple(runtime[n])
  PROVE  Together(Laid(M, at, newest, extra, runtime), M)
<1> DEFINE A == {p \in at : p <= newest}
           B == {p \in at : p > newest}
           W == Laid(M, at, newest, extra, runtime)
<1>1. Len(M) \in Nat /\ Len(extra) \in Nat /\ Len(runtime) \in Nat
  OBVIOUS
<1>2. PICK a, b : Spread(W, M, at, newest, extra, runtime, a, b)
  BY LaidSpreads
<1> HIDE DEF W
<1>3. Orders(a, A, Len(M)) /\ Orders(b, B, Len(M))
  BY <1>2 DEF Spread
<1>4. Len(a) \in Nat /\ Len(b) \in Nat /\ \A n \in 1..Len(a) : a[n] \in A /\ a[n] \in 1..Len(M)
  BY <1>1, <1>3, OrderIs
<1>5. /\ W \in Seq(Messages) /\ Len(W) = Len(a) + Len(extra) + Len(b) + Len(runtime)
      /\ \A n \in 1..Len(a) : W[n] = M[a[n]]
      /\ \A n \in 1..Len(extra) : W[Len(a) + n] = extra[n]
      /\ \A n \in 1..Len(b) : W[Len(a) + Len(extra) + n] = M[b[n]]
      /\ \A n \in 1..Len(runtime) : W[Len(a) + Len(extra) + Len(b) + n] = runtime[n]
  BY <1>2 DEF Spread
<1>6. Layout(W, M, Len(a) + Len(extra), b, B)
  <2> DEFINE off == Len(a) + Len(extra)
  <2>1. off \in Nat /\ off + Len(b) <= Len(W)
    BY <1>1, <1>4, <1>5
  <2>2. ASSUME NEW n \in 1..Len(W), ~Simple(W[n]) PROVE \E k \in 1..Len(b) : n = off + k
    <3>1. n \notin 1..Len(a)
      <4>1. SUFFICES ASSUME n \in 1..Len(a) PROVE FALSE
        OBVIOUS
      <4>2. a[n] <= newest /\ a[n] \in 1..Len(M)
        BY <1>4, <4>1
      <4>3. W[n] = M[a[n]]
        BY <1>5, <4>1
      <4>4. newest < a[n]
        BY <2>2, <4>2, <4>3
      <4> QED BY <4>2, <4>4
    <3>2. ~(n - Len(a) \in 1..Len(extra))
      <4>1. SUFFICES ASSUME n - Len(a) \in 1..Len(extra) PROVE FALSE
        OBVIOUS
      <4>2. W[Len(a) + (n - Len(a))] = extra[n - Len(a)]
        BY <1>5, <4>1
      <4>3. Len(a) + (n - Len(a)) = n
        BY <1>4
      <4> QED BY <2>2, <4>1, <4>2, <4>3
    <3>3. ~(n - off - Len(b) \in 1..Len(runtime))
      <4>1. SUFFICES ASSUME n - off - Len(b) \in 1..Len(runtime) PROVE FALSE
        OBVIOUS
      <4>2. W[Len(a) + Len(extra) + Len(b) + (n - off - Len(b))] = runtime[n - off - Len(b)]
        BY <1>5, <4>1
      <4>3. Len(a) + Len(extra) + Len(b) + (n - off - Len(b)) = n
        BY <1>1, <1>4
      <4> QED BY <2>2, <4>1, <4>2, <4>3
    <3>4. n - off \in 1..Len(b) /\ n = off + (n - off)
      BY <1>1, <1>4, <1>5, <3>1, <3>2, <3>3
    <3> QED BY <3>4
  <2>3. \A k \in 1..Len(b) : W[off + k] = M[b[k]]
    BY <1>5
  <2> HIDE DEF off
  <2>4. Layout(W, M, off, b, B)
    BY <1>3, <1>5, <2>1, <2>2, <2>3 DEF Layout
  <2> QED BY <2>4 DEF off
<1>7. Closed(M, B)
  <2>1. ASSUME NEW p \in B, M[p].calls # <<>>
        PROVE  M[p].role # "tool" /\ AnsweredCalls(M, p) /\ AnswersOf(M, p) \subseteq B
    <3>1. M[p].role # "tool" /\ AnsweredCalls(M, p) /\ AnswersOf(M, p) \subseteq at
      BY <2>1 DEF Closed
    <3>2. ASSUME NEW j \in AnswersOf(M, p) PROVE j \in B
      <4>1. j \in at /\ j \in 1..Len(M)
        BY <3>1
      <4>2. M[j].role = "tool"
        BY AnswerIs
      <4>3. newest < j
        BY <4>1, <4>2 DEF Simple
      <4> QED BY <4>1, <4>3
    <3> QED BY <3>1, <3>2
  <2>2. ASSUME NEW p \in B, M[p].role = "tool" PROVE \E i \in B : p \in AnswersOf(M, i)
    <3>1. PICK i \in at : p \in AnswersOf(M, i)
      BY <2>2 DEF Closed
    <3>2. M[i].calls # <<>> /\ i \in 1..Len(M)
      BY <3>1, AnswerIs
    <3>3. newest < i
      BY <3>2 DEF Simple
    <3> QED BY <3>1, <3>2, <3>3
  <2> QED BY <2>1, <2>2 DEF Closed
<1>8. Together(W, M)
  BY <1>6, <1>7, LayoutPairs
<1> QED BY <1>8 DEF W

(* Every message at the positions is shown.                                *)
LEMMA LaidShows ==
  ASSUME NEW W, NEW M \in Seq(Messages), NEW at \in SUBSET (1..Len(M)), NEW newest \in Nat,
         NEW extra \in Seq(Messages), NEW runtime \in Seq(Messages), NEW a, NEW b,
         Spread(W, M, at, newest, extra, runtime, a, b), NEW p \in at
  PROVE  M[p] \in Range(W)
<1>1. Len(a) \in Nat /\ Len(b) \in Nat /\ Len(extra) \in Nat /\ Len(runtime) \in Nat /\ Len(M) \in Nat
  BY OrderIs DEF Spread
<1>2. W \in Seq(Messages) /\ Len(W) = Len(a) + Len(extra) + Len(b) + Len(runtime)
  BY DEF Spread
<1>3. \A n \in 1..Len(W) : W[n] \in Range(W)
  <2>1. DOMAIN W = 1..Len(W)
    BY <1>2
  <2> QED BY <2>1 DEF Range
<1>4. CASE p <= newest
  <2>1. PICK n \in 1..Len(a) : a[n] = p
    BY <1>4 DEF Spread, Orders
  <2>2. W[n] = M[p] /\ n \in 1..Len(W)
    BY <1>1, <1>2, <2>1 DEF Spread
  <2> QED BY <1>3, <2>2
<1>5. CASE p > newest
  <2>1. PICK n \in 1..Len(b) : b[n] = p
    BY <1>5 DEF Spread, Orders
  <2>2. W[Len(a) + Len(extra) + n] = M[p]
    BY <2>1 DEF Spread
  <2>3. Len(a) + Len(extra) + n \in 1..Len(W)
    BY <1>1, <1>2, <2>1
  <2> QED BY <1>3, <2>2, <2>3
<1>6. p <= newest \/ p > newest
  BY <1>1
<1> QED BY <1>4, <1>5, <1>6

(* What every round has to say is shown.                                   *)
LEMMA RuntimeShows ==
  ASSUME NEW W, NEW M \in Seq(Messages), NEW at \in SUBSET (1..Len(M)), NEW newest \in Nat,
         NEW extra \in Seq(Messages), NEW runtime \in Seq(Messages), NEW a, NEW b,
         Spread(W, M, at, newest, extra, runtime, a, b), NEW n \in 1..Len(runtime)
  PROVE  runtime[n] \in Range(W)
<1>1. Len(a) \in Nat /\ Len(b) \in Nat /\ Len(extra) \in Nat /\ Len(runtime) \in Nat /\ Len(M) \in Nat
  BY OrderIs DEF Spread
<1>2. W \in Seq(Messages) /\ Len(W) = Len(a) + Len(extra) + Len(b) + Len(runtime)
  BY DEF Spread
<1>3. W[Len(a) + Len(extra) + Len(b) + n] = runtime[n]
  BY DEF Spread
<1>4. Len(a) + Len(extra) + Len(b) + n \in DOMAIN W
  BY <1>1, <1>2
<1> QED BY <1>3, <1>4 DEF Range

(* The index is where it was put, and nowhere else.                        *)
IndexedOnce(W, index) ==
    \E x \in DOMAIN W : W[x] = index /\ {n \in DOMAIN W : W[n].text = "index"} = {x}

(* The index an arrangement is given is the only one in it.                *)
LEMMA OneIndex ==
  ASSUME NEW W, NEW M \in Seq(Messages), NEW at \in SUBSET (1..Len(M)), NEW newest \in Nat,
         NEW index \in Messages, NEW runtime \in Seq(Messages), NEW a, NEW b,
         Spread(W, M, at, newest, <<index>>, runtime, a, b),
         \A p \in 1..Len(M) : M[p].text # "index",
         \A n \in 1..Len(runtime) : runtime[n].text # "index", index.text = "index"
  PROVE  IndexedOnce(W, index)
<1> DEFINE x == Len(a) + 1
<1>1. Len(a) \in Nat /\ Len(b) \in Nat /\ Len(runtime) \in Nat /\ Len(M) \in Nat
  BY OrderIs DEF Spread
<1>2. Len(<<index>>) = 1 /\ <<index>>[1] = index
  OBVIOUS
<1>3. /\ W \in Seq(Messages) /\ Len(W) = Len(a) + 1 + Len(b) + Len(runtime)
      /\ DOMAIN W = 1..Len(W)
      /\ \A n \in 1..Len(a) : W[n] = M[a[n]]
      /\ W[x] = index
      /\ \A n \in 1..Len(b) : W[Len(a) + 1 + n] = M[b[n]]
      /\ \A n \in 1..Len(runtime) : W[Len(a) + 1 + Len(b) + n] = runtime[n]
  BY <1>2 DEF Spread
<1>4. /\ \A n \in 1..Len(a) : a[n] \in 1..Len(M)
      /\ \A n \in 1..Len(b) : b[n] \in 1..Len(M)
  BY <1>1, OrderIs DEF Spread
<1>5. x \in DOMAIN W
  BY <1>1, <1>3
<1>6. ASSUME NEW n \in DOMAIN W, n # x PROVE W[n].text # "index"
  <2>1. CASE n \in 1..Len(a)
    BY <1>3, <1>4, <2>1
  <2>2. CASE n - x \in 1..Len(b)
    <3>1. Len(a) + 1 + (n - x) = n
      BY <1>1, <1>3
    <3>2. W[Len(a) + 1 + (n - x)] = M[b[n - x]]
      BY <1>3, <2>2
    <3> QED BY <1>4, <2>2, <3>1, <3>2
  <2>3. CASE n - x - Len(b) \in 1..Len(runtime)
    <3>1. Len(a) + 1 + Len(b) + (n - x - Len(b)) = n
      BY <1>1, <1>3
    <3>2. W[Len(a) + 1 + Len(b) + (n - x - Len(b))] = runtime[n - x - Len(b)]
      BY <1>3, <2>3
    <3> QED BY <2>3, <3>1, <3>2
  <2>4. n \in 1..Len(a) \/ n - x \in 1..Len(b) \/ n - x - Len(b) \in 1..Len(runtime)
    BY <1>1, <1>3, <1>6
  <2> QED BY <2>1, <2>2, <2>3, <2>4
<1> HIDE DEF x
<1>7. {n \in DOMAIN W : W[n].text = "index"} = {x}
  BY <1>3, <1>5, <1>6
<1> QED BY <1>3, <1>5, <1>7 DEF IndexedOnce

-----------------------------------------------------------------------------
(* The budget *)

(* Larger messages take more characters.                                   *)
LEMMA CharsGrow ==
  ASSUME NEW V \in Seq(Messages), NEW W \in Seq(Messages), Len(V) = Len(W),
         \A n \in 1..Len(V) : V[n].size <= W[n].size
  PROVE  Chars(V) \in Nat /\ Chars(W) \in Nat /\ Chars(V) <= Chars(W)
<1> DEFINE k == Len(V)
           v == [n \in DOMAIN V |-> V[n].size]
           w == [n \in DOMAIN W |-> W[n].size]
<1>1. k \in Nat /\ DOMAIN V = 1..k /\ DOMAIN W = 1..k
  OBVIOUS
<1>2. ASSUME NEW n \in 1..k PROVE V[n].size \in Nat /\ W[n].size \in Nat
  <2>1. V[n] \in Messages /\ W[n] \in Messages
    OBVIOUS
  <2> QED BY <2>1 DEF Messages
<1>3. v = [n \in 1..k |-> V[n].size] /\ w = [n \in 1..k |-> W[n].size]
  BY <1>1
<1>4. v \in Seq(Nat) /\ w \in Seq(Nat) /\ Len(v) = k /\ Len(w) = k
  BY <1>1, <1>2, <1>3, IsASeq, LenProperties
<1>5. \A n \in 1..k : v[n] \in Nat /\ w[n] \in Nat /\ v[n] <= w[n]
  BY <1>2, <1>3
<1>6. Chars(V) = Total(v) /\ Chars(W) = Total(w)
  BY DEF Chars
<1> HIDE DEF v, w
<1> QED BY <1>1, <1>4, <1>5, <1>6, TotalIsNat, TotalGrows

(* What messages take is a number.                                         *)
LEMMA CharsAreNat == ASSUME NEW V \in Seq(Messages) PROVE Chars(V) \in Nat
<1>1. ASSUME NEW n \in 1..Len(V) PROVE V[n].size <= V[n].size
  <2>1. V[n] \in Messages
    OBVIOUS
  <2> QED BY <2>1 DEF Messages
<1> QED BY <1>1, CharsGrow

(* A smaller index leaves the request within its budget.                   *)
LEMMA SmallerFits ==
  ASSUME NEW M \in Seq(Messages), NEW at \in SUBSET (1..Len(M)), NEW newest \in Nat,
         NEW runtime \in Seq(Messages), NEW limit \in Int,
         NEW low \in Messages, NEW high \in Messages, low.size <= high.size,
         HasRoom(limit, Laid(M, at, newest, <<high>>, runtime))
  PROVE  HasRoom(limit, Laid(M, at, newest, <<low>>, runtime))
<1> DEFINE V == Laid(M, at, newest, <<low>>, runtime)
           W == Laid(M, at, newest, <<high>>, runtime)
           pa == Pick(M, {p \in at : p <= newest})
           pb == Pick(M, {p \in at : p > newest})
<1>1. <<low>> \in Seq(Messages) /\ <<high>> \in Seq(Messages)
      /\ Len(<<low>>) = 1 /\ Len(<<high>>) = 1 /\ <<low>>[1] = low /\ <<high>>[1] = high
  OBVIOUS
<1>2. InRow(V, pa, <<low>>, pb, runtime, Messages) /\ InRow(W, pa, <<high>>, pb, runtime, Messages)
  BY <1>1, LaidInRow
<1>3. Len(pa) \in Nat /\ Len(pb) \in Nat /\ Len(runtime) \in Nat
      /\ pa \in Seq(Messages) /\ pb \in Seq(Messages)
  <2>1. {p \in at : p <= newest} \in SUBSET (1..Len(M)) /\ {p \in at : p > newest} \in SUBSET (1..Len(M))
    OBVIOUS
  <2>2. pa \in Seq(Messages) /\ pb \in Seq(Messages)
    BY <2>1, PickIs
  <2> HIDE DEF pa, pb
  <2> QED BY <2>2
<1> HIDE DEF V, W, pa, pb
<1>4. /\ V \in Seq(Messages) /\ W \in Seq(Messages)
      /\ Len(V) = Len(pa) + 1 + Len(pb) + Len(runtime) /\ Len(W) = Len(V)
      /\ \A n \in 1..Len(pa) : V[n] = pa[n] /\ W[n] = pa[n]
      /\ V[Len(pa) + 1] = low /\ W[Len(pa) + 1] = high
      /\ \A n \in 1..Len(pb) : V[Len(pa) + 1 + n] = pb[n] /\ W[Len(pa) + 1 + n] = pb[n]
      /\ \A n \in 1..Len(runtime) : /\ V[Len(pa) + 1 + Len(pb) + n] = runtime[n]
                                    /\ W[Len(pa) + 1 + Len(pb) + n] = runtime[n]
  <2> DEFINE ls == <<low>>
             hs == <<high>>
  <2>1. Len(ls) = 1 /\ Len(hs) = 1 /\ ls[1] = low /\ hs[1] = high /\ 1 \in 1..1
    BY <1>1
  <2>2. InRow(V, pa, ls, pb, runtime, Messages) /\ InRow(W, pa, hs, pb, runtime, Messages)
    BY <1>2
  <2> HIDE DEF ls, hs
  <2>3. /\ V \in Seq(Messages) /\ Len(V) = Len(pa) + 1 + Len(pb) + Len(runtime)
        /\ \A n \in 1..Len(pa) : V[n] = pa[n]
        /\ V[Len(pa) + 1] = low
        /\ \A n \in 1..Len(pb) : V[Len(pa) + 1 + n] = pb[n]
        /\ \A n \in 1..Len(runtime) : V[Len(pa) + 1 + Len(pb) + n] = runtime[n]
    BY <2>1, <2>2 DEF InRow
  <2>4. /\ W \in Seq(Messages) /\ Len(W) = Len(pa) + 1 + Len(pb) + Len(runtime)
        /\ \A n \in 1..Len(pa) : W[n] = pa[n]
        /\ W[Len(pa) + 1] = high
        /\ \A n \in 1..Len(pb) : W[Len(pa) + 1 + n] = pb[n]
        /\ \A n \in 1..Len(runtime) : W[Len(pa) + 1 + Len(pb) + n] = runtime[n]
    BY <2>1, <2>2 DEF InRow
  <2> QED BY <2>3, <2>4
<1>5. ASSUME NEW n \in 1..Len(V) PROVE V[n].size <= W[n].size
  <2>1. V[n] \in Messages
    BY <1>4
  <2>2. V[n].size \in Nat
    BY <2>1 DEF Messages
  <2>3. CASE n \in 1..Len(pa)
    BY <1>4, <2>2, <2>3
  <2>4. CASE n = Len(pa) + 1
    BY <1>4, <2>4
  <2>5. CASE n - Len(pa) - 1 \in 1..Len(pb)
    <3>1. Len(pa) + 1 + (n - Len(pa) - 1) = n
      BY <1>3, <1>4
    <3>2. V[Len(pa) + 1 + (n - Len(pa) - 1)] = W[Len(pa) + 1 + (n - Len(pa) - 1)]
      BY <1>4, <2>5
    <3> QED BY <2>2, <3>1, <3>2
  <2>6. CASE n - Len(pa) - 1 - Len(pb) \in 1..Len(runtime)
    <3>1. Len(pa) + 1 + Len(pb) + (n - Len(pa) - 1 - Len(pb)) = n
      BY <1>3, <1>4
    <3>2. V[Len(pa) + 1 + Len(pb) + (n - Len(pa) - 1 - Len(pb))]
            = W[Len(pa) + 1 + Len(pb) + (n - Len(pa) - 1 - Len(pb))]
      BY <1>4, <2>6
    <3> QED BY <2>2, <3>1, <3>2
  <2>7. \/ n \in 1..Len(pa) \/ n = Len(pa) + 1 \/ n - Len(pa) - 1 \in 1..Len(pb)
        \/ n - Len(pa) - 1 - Len(pb) \in 1..Len(runtime)
    BY <1>3, <1>4
  <2> QED BY <2>3, <2>4, <2>5, <2>6, <2>7
<1>6. Chars(V) \in Nat /\ Chars(W) \in Nat /\ Chars(V) <= Chars(W)
  BY <1>4, <1>5, CharsGrow
<1>7. Chars(W) + Envelope <= limit
  BY DEF HasRoom, W
<1>8. Chars(V) + Envelope <= limit
  BY <1>6, <1>7 DEF Envelope
<1> QED BY <1>8 DEF HasRoom, V

(* What is chosen is within the budget, if the required messages are.      *)
LEMMA ChosenFits ==
  ASSUME NEW M, NEW units, Cardinality(units) \in Nat, NEW index, NEW runtime, NEW limit,
         HasRoom(limit, Arranged(M, {}, index, runtime))
  PROVE  /\ Chosen(M, units, index, runtime, limit) \subseteq units
         /\ HasRoom(limit, Arranged(M, Chosen(M, units, index, runtime, limit), index, runtime))
<1> DEFINE k == Cardinality(units)
           candidates == Candidates(M, units)
           ranked(n) == {u \in candidates : Cardinality({v \in candidates : Outranks(v, u)}) = n - 1}
           Ok(kept) == HasRoom(limit, Arranged(M, kept, index, runtime))
           S == {kept \in SUBSET units : Ok(kept)}
           next(n, kept) == IF Ok(kept \cup ranked(n)) THEN kept \cup ranked(n) ELSE kept
           Choosing(f) == f = [n \in 0..k |-> IF n = 0 THEN {} ELSE next(n, f[n - 1])]
           step == [p \in (1..k) \X S |-> next(p[1], p[2])]
<1>1. \A n \in 1..k : ranked(n) \subseteq units
  BY DEF Candidates
<1>2. \A n \in 1..k, kept \in S : next(n, kept) \in S
  <2> HIDE DEF Ok, ranked
  <2> QED BY <1>1
<1>3. {} \in S
  OBVIOUS
<1>4. \E f : Choosing(f)
  <2> HIDE DEF next, S
  <2>1. step \in [(1..k) \X S -> S]
    BY <1>2
  <2>2. PICK f : Unrolls(f, {}, k, step)
    <3> HIDE DEF step, k
    <3>1. k \in Nat
      BY DEF k
    <3> QED BY <1>3, <2>1, <3>1, RecursionExists, Zenon
  <2>3. \A n \in 0..k : f[n] \in S
    <3>1. ASSUME NEW n \in 1..k, f[n - 1] \in S PROVE f[n] \in S
      <4>1. <<n, f[n - 1]>> \in (1..k) \X S
        BY <3>1
      <4> HIDE DEF step
      <4> QED BY <2>1, <2>2, <4>1 DEF Unrolls
    <3>2. f[0] \in S
      BY <1>3, <2>2 DEF Unrolls
    <3> HIDE DEF step, k
    <3>3. k \in Nat
      BY DEF k
    <3> QED BY <3>1, <3>2, <3>3, RecursionStays, Zenon
  <2>4. \A n \in 1..k : f[n] = next(n, f[n - 1])
    <3> TAKE n \in 1..k
    <3>1. n - 1 \in 0..k
      OBVIOUS
    <3>2. f[n - 1] \in S
      BY <2>3, <3>1
    <3>3. <<n, f[n - 1]>> \in (1..k) \X S
      BY <3>2
    <3>4. f[n] = step[<<n, f[n - 1]>>]
      BY <2>2 DEF Unrolls
    <3> QED BY <3>3, <3>4
  <2>5. \A n \in 0..k : f[n] = IF n = 0 THEN {} ELSE next(n, f[n - 1])
    <3> TAKE n \in 0..k
    <3>1. n = 0 \/ n \in 1..k
      OBVIOUS
    <3>2. f[0] = {}
      BY <2>2 DEF Unrolls
    <3> HIDE DEF step
    <3> QED BY <2>4, <3>1, <3>2
  <2>6. f = [n \in 0..k |-> f[n]]
    BY <2>2 DEF Unrolls
  <2> HIDE DEF step
  <2> QED BY <2>5, <2>6
<1> DEFINE chosen == CHOOSE f : Choosing(f)
<1>5. Choosing(chosen)
  BY <1>4, Zenon
<1>6. Chosen(M, units, index, runtime, limit) = chosen[k]
  BY Zenon DEF Chosen
<1> HIDE DEF chosen, next, S
<1>7. chosen[0] = {} /\ \A n \in 1..k : chosen[n] = next(n, chosen[n - 1])
  <2>1. \A n \in 0..k : chosen[n] = IF n = 0 THEN {} ELSE next(n, chosen[n - 1])
    BY <1>5
  <2>2. 0 \in 0..k /\ \A n \in 1..k : n \in 0..k /\ n # 0
    OBVIOUS
  <2> QED BY <2>1, <2>2
<1>8. \A n \in 0..k : chosen[n] \in S
  <2>1. ASSUME NEW n \in 1..k, chosen[n - 1] \in S PROVE chosen[n] \in S
    BY <1>2, <1>7, <2>1
  <2>2. chosen[0] \in S
    BY <1>3, <1>7
  <2> HIDE DEF k
  <2>3. k \in Nat
    BY DEF k
  <2> QED BY <2>1, <2>2, <2>3, RecursionStays, Zenon
<1>9. chosen[k] \in S
  BY <1>8
<1>10. chosen[k] \subseteq units /\ Ok(chosen[k])
  BY <1>9 DEF S
<1> QED BY <1>6, <1>10

-----------------------------------------------------------------------------
(* The index of results *)

(* A view of a result has its metadata, and all of it if there is room.    *)
LEMMA ViewIs ==
  ASSUME NEW result \in StoredResults, NEW bytes \in Nat
  PROVE  /\ ViewSize(result, bytes) \in Nat /\ ViewSize(result, bytes) >= result.meta
         /\ bytes >= result.meta + result.size =>
              ViewSize(result, bytes) = result.meta + result.size
<1>1. result.meta \in Nat /\ result.size \in Nat
  BY DEF StoredResults
<1>2. Min({result.meta + result.size, bytes})
        = IF result.meta + result.size <= bytes THEN result.meta + result.size ELSE bytes
  BY <1>1, LeastOfTwo
<1> QED BY <1>1, <1>2 DEF ViewSize

(* A receipt names its result; one that is not cut has all the data.       *)
LEMMA ReceiptIs ==
  ASSUME NEW result \in StoredResults, NEW bytes \in Nat
  PROVE  /\ ReceiptSize(result, bytes) \in Nat
         /\ Receipt(result, bytes) \in [id : Nat, data : Nat, cut : BOOLEAN]
         /\ Receipt(result, bytes).id = result.id
         /\ ~Receipt(result, bytes).cut => Receipt(result, bytes).data = result.size
<1>1. result.meta \in Nat /\ result.size \in Nat /\ result.id \in Nat
  BY DEF StoredResults
<1>2. /\ ViewSize(result, bytes) \in Nat /\ ViewSize(result, bytes) >= result.meta
      /\ bytes >= result.meta + result.size =>
           ViewSize(result, bytes) = result.meta + result.size
  BY ViewIs
<1>3. bytes \div 2 \in Nat
  OBVIOUS
<1>4. Min({1, bytes \div 2}) \in Nat
  BY <1>3, LeastOfTwo
<1>5. ViewSize(result, bytes) - result.meta \in Nat
  BY <1>1, <1>2
<1>6. ReceiptSize(result, bytes) \in Nat
  BY <1>2, <1>4 DEF ReceiptSize
<1> DEFINE data == ViewSize(result, bytes) - result.meta
           cut == bytes < result.meta + result.size \/ bytes = 0
<1>7. cut \in BOOLEAN /\ data \in Nat
  BY <1>5
<1>8. ~cut => data = result.size
  BY <1>1, <1>2
<1>9. Receipt(result, bytes) = [id |-> result.id, data |-> data, cut |-> cut]
  BY DEF Receipt
<1> HIDE DEF data, cut
<1>10. /\ [id |-> result.id, data |-> data, cut |-> cut].id = result.id
       /\ [id |-> result.id, data |-> data, cut |-> cut].data = data
       /\ [id |-> result.id, data |-> data, cut |-> cut].cut = cut
  OBVIOUS
<1>11. [id |-> result.id, data |-> data, cut |-> cut] \in [id : Nat, data : Nat, cut : BOOLEAN]
  BY <1>1, <1>7
<1>12. ~[id |-> result.id, data |-> data, cut |-> cut].cut
         => [id |-> result.id, data |-> data, cut |-> cut].data = result.size
  BY <1>8, Zenon
<1> QED BY <1>6, <1>9, <1>10, <1>11, <1>12

(* What the program writes itself is a message without calls.              *)
LEMMA WrittenIs ==
  ASSUME NEW role \in {"system", "user", "assistant", "tool"}, NEW size \in Nat,
         NEW text \in OwnTexts \cup RememberedTexts
  PROVE  /\ Msg(role, text, size) \in Messages
         /\ Msg(role, text, size).role = role /\ Msg(role, text, size).text = text
         /\ Msg(role, text, size).size = size /\ Msg(role, text, size).calls = <<>>
<1>1. <<>> \in Seq(Nat) /\ <<>> \in Seq([id : Nat, data : Nat, cut : BOOLEAN])
  OBVIOUS
<1> QED BY <1>1 DEF Msg, Messages

IndexSize(results, bytes, omitted) ==
    Digits(omitted) + Total([n \in DOMAIN results |-> ReceiptSize(results[n], bytes)])

(* An index that counts fewer omissions is not larger.                     *)
LEMMA IndexSizes ==
  ASSUME NEW results \in Seq(StoredResults), NEW bytes \in Nat,
         NEW more \in Nat, NEW omitted \in 0..more
  PROVE  /\ IndexSize(results, bytes, omitted) \in Nat /\ IndexSize(results, bytes, more) \in Nat
         /\ IndexSize(results, bytes, omitted) <= IndexSize(results, bytes, more)
<1> DEFINE sizes == [n \in DOMAIN results |-> ReceiptSize(results[n], bytes)]
<1>1. DOMAIN results = 1..Len(results) /\ Len(results) \in Nat
  OBVIOUS
<1>2. \A n \in 1..Len(results) : ReceiptSize(results[n], bytes) \in Nat
  <2> TAKE n \in 1..Len(results)
  <2>1. results[n] \in StoredResults
    OBVIOUS
  <2> QED BY <2>1, ReceiptIs
<1>3. sizes \in Seq(Nat)
  BY <1>1, <1>2, IsASeq
<1>4. Total(sizes) \in Nat
  <2>1. Len(sizes) \in Nat /\ \A n \in 1..Len(sizes) : sizes[n] \in Nat
    <3> HIDE DEF sizes
    <3> QED BY <1>3
  <2> HIDE DEF sizes
  <2> QED BY <2>1, TotalIsNat
<1>5. CountBase \in Nat
  BY TurnAssumption
<1>6. Digits(omitted) \in Nat /\ Digits(more) \in Nat /\ Digits(omitted) <= Digits(more)
  BY <1>5 DEF Digits
<1> HIDE DEF sizes
<1> QED BY <1>4, <1>6 DEF IndexSize, sizes

(* An index is a message of its own, with a receipt of each result.        *)
LEMMA IndexIs ==
  ASSUME NEW results \in Seq(StoredResults), NEW bytes \in Nat, NEW omitted \in Nat
  PROVE  /\ IndexMessage(results, bytes, omitted) \in Messages
         /\ Simple(IndexMessage(results, bytes, omitted))
         /\ IndexMessage(results, bytes, omitted).text = "index"
         /\ IndexMessage(results, bytes, omitted).size = IndexSize(results, bytes, omitted)
         /\ IndexMessage(results, bytes, omitted).omitted = omitted
         /\ IndexMessage(results, bytes, omitted).receipts
              = [n \in 1..Len(results) |-> Receipt(results[n], bytes)]
<1> DEFINE size == IndexSize(results, bytes, omitted)
           receipts == [n \in 1..Len(results) |-> Receipt(results[n], bytes)]
           R == [id : Nat, data : Nat, cut : BOOLEAN]
<1>1. DOMAIN results = 1..Len(results) /\ Len(results) \in Nat
  OBVIOUS
<1>2. receipts \in Seq(R)
  <2>1. ASSUME NEW n \in 1..Len(results) PROVE Receipt(results[n], bytes) \in R
    <3>1. results[n] \in StoredResults
      OBVIOUS
    <3> QED BY <3>1, ReceiptIs
  <2> HIDE DEF R
  <2> QED BY <1>1, <2>1, IsASeq
<1>3. size \in Nat
  <2>1. omitted \in 0..omitted
    OBVIOUS
  <2> QED BY <2>1, IndexSizes
<1>4. IndexMessage(results, bytes, omitted)
        = [Msg("user", "index", size) EXCEPT !.receipts = receipts, !.omitted = omitted]
  BY <1>1 DEF IndexMessage, IndexSize
<1> HIDE DEF size, receipts
<1>5. <<>> \in Seq(Nat)
  OBVIOUS
<1>6. IndexMessage(results, bytes, omitted)
        = [role |-> "user", text |-> "index", size |-> size, calls |-> <<>>, key |-> 0,
           receipts |-> receipts, omitted |-> omitted]
  BY <1>4 DEF Msg
<1>7. IndexMessage(results, bytes, omitted) \in Messages
  <2>1. receipts \in Seq([id : Nat, data : Nat, cut : BOOLEAN])
    BY <1>2
  <2>2. [role |-> "user", text |-> "index", size |-> size, calls |-> <<>>, key |-> 0,
         receipts |-> receipts, omitted |-> omitted] \in Messages
    <3>1. "user" \in {"system", "user", "assistant", "tool"}
      BY Zenon
    <3>3. "index" \in OwnTexts \cup RememberedTexts
      BY Zenon DEF OwnTexts
    <3>2. 0 \in Nat
      OBVIOUS
    <3> HIDE DEF R
    <3> QED BY <1>3, <1>5, <2>1, <3>1, <3>2, <3>3, Zenon DEF Messages
  <2> QED BY <1>6, <2>2
<1> QED BY <1>6, <1>7 DEF Simple, size, receipts

-----------------------------------------------------------------------------
(* A request *)

(* A transcript that can be cut.                                           *)
Ready(M) ==
    /\ M \in Seq(Messages)
    /\ \A n \in 1..Len(M) : M[n].text # "index"
    /\ \E n \in 1..Len(M) : M[n] = Policy
    /\ \E n \in 1..Len(M) : M[n] = NewestIndex
    /\ \A m, n \in 1..Len(M) : M[m] = NewestIndex /\ ~Simple(M[n]) => m < n

GoodUnits(M, units) ==
    /\ IsFiniteSet(units)
    /\ \A u \in units : u.at \subseteq 1..Len(M) /\ Closed(M, u.at)

(* Policy and request are found, and calls come after the request.         *)
LEMMA RequiredIs ==
  ASSUME NEW M, Ready(M)
  PROVE  /\ RequestAt(M) \in 1..Len(M) /\ M[RequestAt(M)] = NewestIndex
         /\ PolicyAt(M) \in 1..Len(M) /\ M[PolicyAt(M)] = Policy
         /\ \A p \in 1..Len(M) : ~Simple(M[p]) => RequestAt(M) < p
<1> DEFINE R == {i \in DOMAIN M : M[i] = NewestIndex}
           P == {i \in DOMAIN M : M[i] = Policy}
<1>1. DOMAIN M = 1..Len(M) /\ Len(M) \in Nat
  BY DEF Ready
<1>2. R \in SUBSET (0..Len(M)) /\ R # {} /\ P \in SUBSET Nat /\ P # {}
  BY <1>1 DEF Ready
<1>3. Max(R) \in R /\ Min(P) \in P
  <2> HIDE DEF R, P
  <2> QED BY <1>1, <1>2, GreatestIs, LeastIs
<1> QED BY <1>1, <1>3 DEF Ready, RequestAt, PolicyAt

KeptAt(M, kept) == Required(M) \cup UNION {u.at : u \in kept}

(* Units that are kept bring the answers of their calls.                   *)
LEMMA KeptIsClosed ==
  ASSUME NEW M, Ready(M), NEW units, GoodUnits(M, units), NEW kept \in SUBSET units
  PROVE  KeptAt(M, kept) \in SUBSET (1..Len(M)) /\ Closed(M, KeptAt(M, kept))
<1> DEFINE at == KeptAt(M, kept)
<1>1. \A p \in Required(M) : p \in 1..Len(M) /\ M[p].calls = <<>> /\ M[p].role # "tool"
  BY RequiredIs, WrittenIs DEF Required, Policy, NewestIndex, Msg
<1>2. \A u \in kept : u.at \subseteq 1..Len(M) /\ Closed(M, u.at) /\ u.at \subseteq at
  BY DEF GoodUnits, KeptAt
<1>3. \A p \in at : p \in Required(M) \/ \E u \in kept : p \in u.at
  BY DEF KeptAt
<1> HIDE DEF at
<1>4. at \in SUBSET (1..Len(M))
  BY <1>1, <1>2, <1>3
<1>5. ASSUME NEW p \in at, M[p].calls # <<>>
      PROVE  M[p].role # "tool" /\ AnsweredCalls(M, p) /\ AnswersOf(M, p) \subseteq at
  <2>1. PICK u \in kept : p \in u.at
    BY <1>1, <1>3, <1>5
  <2>2. Closed(M, u.at) /\ u.at \subseteq at
    BY <1>2
  <2> QED BY <1>5, <2>1, <2>2 DEF Closed
<1>6. ASSUME NEW p \in at, M[p].role = "tool" PROVE \E i \in at : p \in AnswersOf(M, i)
  <2>1. PICK u \in kept : p \in u.at
    BY <1>1, <1>3, <1>6
  <2>2. Closed(M, u.at) /\ u.at \subseteq at
    BY <1>2
  <2> QED BY <1>6, <2>1, <2>2 DEF Closed
<1>7. Closed(M, at)
  BY <1>5, <1>6 DEF Closed
<1> QED BY <1>4, <1>7 DEF at

IndexIfAny(results, bytes, omitted) ==
    IF results = <<>> THEN <<>> ELSE <<IndexMessage(results, bytes, omitted)>>

(* What Fit returns: the policy, the request, the index and some units,    *)
(* within the limit.                                                       *)
Fitted(F, M, units, results, runtime, limit, kept, bytes) ==
    /\ kept \in SUBSET units /\ bytes \in Nat
    /\ Cardinality(units) - Cardinality(kept) \in Nat
    /\ F.messages = Laid(M, KeptAt(M, kept), RequestAt(M),
                         IndexIfAny(results, bytes, Cardinality(units) - Cardinality(kept)), runtime)
    /\ F.limit = limit /\ F.chars <= limit

(* A projection is an arrangement of some units, within its limit.         *)
LEMMA FitCuts ==
  ASSUME NEW M, Ready(M), NEW units, GoodUnits(M, units), NEW results \in Seq(StoredResults),
         NEW runtime \in Seq(Messages), NEW limit \in Int,
         Fit(M, units, results, runtime, limit) # NoRequest
  PROVE  \E kept, bytes : Fitted(Fit(M, units, results, runtime, limit),
                              M, units, results, runtime, limit, kept, bytes)
<1> DEFINE most == Cardinality(units)
           fitting == {b \in Previews :
               HasRoom(limit, Arranged(M, {}, IndexIfAny(results, b, most), runtime))}
           bytes == Max(fitting)
           kept == Chosen(M, units, IndexIfAny(results, bytes, most), runtime, limit)
           left == Removed(units, kept)
           F == Fit(M, units, results, runtime, limit)
<1>1. /\ fitting # {}
      /\ F = Assembled(Arranged(M, kept, IndexIfAny(results, bytes, left), runtime), left, limit)
  BY DEF Fit, IndexIfAny
<1>2. most \in Nat
  BY FS_CardinalityType DEF GoodUnits
<1>3. bytes \in fitting
  <2>1. TopPreview \in Nat
    BY TurnAssumption
  <2>2. fitting \in SUBSET (0..TopPreview)
    BY DEF Previews
  <2> HIDE DEF fitting
  <2> QED BY <1>1, <2>1, <2>2, GreatestIs
<1>4. bytes \in Nat /\ HasRoom(limit, Arranged(M, {}, IndexIfAny(results, bytes, most), runtime))
  <2>1. TopPreview \in Nat
    BY TurnAssumption
  <2> HIDE DEF bytes
  <2> QED BY <1>3, <2>1 DEF Previews
<1> HIDE DEF bytes, fitting
<1>5. /\ kept \in SUBSET units
      /\ HasRoom(limit, Arranged(M, kept, IndexIfAny(results, bytes, most), runtime))
  <2> HIDE DEF most
  <2> QED BY <1>2, <1>4, ChosenFits DEF most
<1> HIDE DEF kept
<1>6. left \in 0..most
  <2>1. Cardinality(kept) \in Nat /\ Cardinality(kept) <= most
    BY <1>5, FS_Subset, FS_CardinalityType DEF GoodUnits
  <2> QED BY <1>2, <2>1 DEF Removed
<1>7. \A extra : Arranged(M, kept, extra, runtime)
                   = Laid(M, KeptAt(M, kept), RequestAt(M), extra, runtime)
  BY DEF Arranged, Laid, KeptAt
<1>8. HasRoom(limit, Arranged(M, kept, IndexIfAny(results, bytes, left), runtime))
  <2>1. CASE results = <<>>
    BY <1>5, <2>1 DEF IndexIfAny
  <2>2. CASE results # <<>>
    <3> DEFINE low == IndexMessage(results, bytes, left)
               high == IndexMessage(results, bytes, most)
    <3>1. low \in Messages /\ high \in Messages /\ low.size <= high.size
      <4>1. left \in Nat
        BY <1>6
      <4>2. low \in Messages /\ low.size = IndexSize(results, bytes, left)
        BY <1>4, <4>1, IndexIs
      <4>3. high \in Messages /\ high.size = IndexSize(results, bytes, most)
        BY <1>2, <1>4, IndexIs
      <4>4. IndexSize(results, bytes, left) <= IndexSize(results, bytes, most)
        <5> HIDE DEF left, most
        <5> QED BY <1>2, <1>4, <1>6, IndexSizes
      <4> HIDE DEF low, high
      <4> QED BY <4>2, <4>3, <4>4
    <3>2. HasRoom(limit, Laid(M, KeptAt(M, kept), RequestAt(M), <<high>>, runtime))
      BY <1>5, <1>7, <2>2 DEF IndexIfAny
    <3>3. M \in Seq(Messages) /\ RequestAt(M) \in Nat
      BY RequiredIs DEF Ready
    <3>4. KeptAt(M, kept) \in SUBSET (1..Len(M))
      BY <1>5, KeptIsClosed
    <3> HIDE DEF low, high
    <3>5. HasRoom(limit, Laid(M, KeptAt(M, kept), RequestAt(M), <<low>>, runtime))
      BY <3>1, <3>2, <3>3, <3>4, SmallerFits
    <3> QED BY <1>7, <2>2, <3>5 DEF IndexIfAny, low
  <2> QED BY <2>1, <2>2
<1>9. /\ F.messages = Arranged(M, kept, IndexIfAny(results, bytes, left), runtime)
      /\ F.limit = limit /\ F.chars <= limit
  <2> HIDE DEF left
  <2> QED BY <1>1, <1>8 DEF Assembled, HasRoom
<1>10. left = Cardinality(units) - Cardinality(kept) /\ left \in Nat
  BY <1>6 DEF Removed
<1>11. Fitted(F, M, units, results, runtime, limit, kept, bytes)
  <2> HIDE DEF F
  <2> QED BY <1>4, <1>5, <1>7, <1>9, <1>10 DEF Fitted
<1> QED BY <1>11

-----------------------------------------------------------------------------
(* The transcript *)

(* A function makes finitely many values of finitely many.                 *)
LEMMA ImageIsFinite ==
  ASSUME NEW S, IsFiniteSet(S), NEW f
  PROVE  IsFiniteSet({f[x] : x \in S})
<1> DEFINE T == {f[x] : x \in S}
           g == [x \in S |-> f[x]]
<1>1. g \in Surjection(S, T)
  BY DEF Surjection
<1> HIDE DEF g, T
<1>2. IsFiniteSet(T)
  BY <1>1, FS_Surjection
<1> QED BY <1>2 DEF T

(* Between two requests no call is open and no result is alone.            *)
Complete(M) == Ready(M) /\ Closed(M, 1..Len(M))

(* What is remembered of the transcript is all of it.                      *)
LEMMA UnitsAreGood ==
  ASSUME NEW M, Complete(M)
  PROVE  /\ GoodUnits(M, TranscriptUnits(M))
         /\ 1..Len(M) \subseteq KeptAt(M, TranscriptUnits(M))
<1> DEFINE H == {h \in DOMAIN M \ Required(M) :
                   M[h].role # "tool" /\ (M[h].calls # <<>> => AnsweredCalls(M, h))}
           f == [i \in H |-> UnitAt(M, i)]
           units == TranscriptUnits(M)
<1>1. /\ M \in Seq(Messages) /\ DOMAIN M = 1..Len(M) /\ Len(M) \in Nat
      /\ Closed(M, 1..Len(M))
  BY DEF Complete, Ready
<1>2. units = {f[i] : i \in H} /\ \A i \in H : f[i] = UnitAt(M, i)
  BY DEF TranscriptUnits
<1>3. H \subseteq 1..Len(M)
  BY <1>1
<1>4. \A i \in H : M[i].role # "tool"
  OBVIOUS
<1>5. ASSUME NEW i \in 1..Len(M), i \notin Required(M), M[i].role # "tool" PROVE i \in H
  BY <1>1, <1>5 DEF Closed
<1> HIDE DEF H, f
<1>6. IsFiniteSet(units)
  <2>1. IsFiniteSet(1..Len(M))
    BY <1>1, FS_Interval
  <2>2. IsFiniteSet(H)
    BY <1>3, <2>1, FS_Subset
  <2> QED BY <1>2, <2>2, ImageIsFinite
<1>7. ASSUME NEW i \in H
      PROVE  /\ UnitAt(M, i).at = IF M[i].calls # <<>> THEN {i} \cup AnswersOf(M, i) ELSE {i}
             /\ i \in UnitAt(M, i).at
  BY DEF UnitAt, Unit
<1>8. ASSUME NEW i \in H
      PROVE  UnitAt(M, i).at \subseteq 1..Len(M) /\ Closed(M, UnitAt(M, i).at)
  <2> DEFINE at == UnitAt(M, i).at
  <2>1. i \in 1..Len(M) /\ M[i].role # "tool"
    BY <1>3, <1>4
  <2>2. CASE M[i].calls = <<>>
    <3>1. at = {i}
      BY <1>7, <2>2
    <3> HIDE DEF at
    <3>2. Closed(M, at)
      BY <2>1, <2>2, <3>1 DEF Closed
    <3> QED BY <2>1, <3>1, <3>2 DEF at
  <2>3. CASE M[i].calls # <<>>
    <3>1. at = {i} \cup AnswersOf(M, i)
      BY <1>7, <2>3
    <3>2. AnsweredCalls(M, i)
      BY <1>1, <2>1, <2>3 DEF Closed
    <3>3. ASSUME NEW p \in AnswersOf(M, i)
          PROVE  p \in 1..Len(M) /\ M[p].role = "tool" /\ M[p].calls = <<>>
      <4>1. p \in i + 1..Len(M) /\ M[p].role = "tool"
        BY <1>1, <2>1, AnswerIs
      <4>2. p \in 1..Len(M)
        BY <1>1, <2>1, <4>1
      <4> QED BY <1>1, <4>1, <4>2 DEF Closed
    <3> HIDE DEF at
    <3>4. Closed(M, at)
      BY <2>1, <2>3, <3>1, <3>2, <3>3 DEF Closed
    <3> QED BY <2>1, <3>1, <3>3, <3>4 DEF at
  <2> QED BY <2>2, <2>3
<1>9. GoodUnits(M, units)
  BY <1>2, <1>6, <1>8 DEF GoodUnits
<1>10. ASSUME NEW p \in 1..Len(M) PROVE p \in KeptAt(M, units)
  <2>1. CASE p \in Required(M)
    BY <2>1 DEF KeptAt
  <2>2. CASE p \notin Required(M) /\ M[p].role # "tool"
    <3>1. p \in H
      BY <1>5, <2>2
    <3>2. UnitAt(M, p) \in units /\ p \in UnitAt(M, p).at
      BY <1>2, <1>7, <3>1
    <3> HIDE DEF units
    <3>3. p \in KeptAt(M, units)
      BY <3>2 DEF KeptAt
    <3> QED BY <3>3 DEF units
  <2>3. CASE M[p].role = "tool"
    <3>1. PICK i \in 1..Len(M) : p \in AnswersOf(M, i)
      BY <1>1, <2>3 DEF Closed
    <3>2. M[i].calls # <<>>
      BY <1>1, <3>1, AnswerIs
    <3>3. M[i].role # "tool"
      BY <1>1, <3>2 DEF Closed
    <3>4. i \notin Required(M)
      BY <3>2, RequiredIs DEF Required, Policy, NewestIndex, Msg, Complete
    <3>5. i \in H
      BY <1>5, <3>3, <3>4
    <3>6. UnitAt(M, i) \in units /\ p \in UnitAt(M, i).at
      BY <1>2, <1>7, <3>1, <3>2, <3>5
    <3> HIDE DEF units
    <3>7. p \in KeptAt(M, units)
      BY <3>6 DEF KeptAt
    <3> QED BY <3>7 DEF units
  <2> QED BY <2>1, <2>2, <2>3
<1> QED BY <1>9, <1>10

(* The receipts: one index, of every result and in order; what is not said *)
(* to be cut is whole, and what is not said to be left out is shown.       *)
Tells(shown, M, results) ==
    LET indices == {n \in DOMAIN shown : shown[n].text = "index"}
    IN  /\ Cardinality(indices) = 1
        /\ \A i \in indices :
             /\ CallIds(shown[i].receipts) = CallIds(results)
             /\ \A n \in DOMAIN results : ~shown[i].receipts[n].cut =>
                   shown[i].receipts[n].data = results[n].size
             /\ shown[i].omitted = 0 => \A m \in Range(M) : m \in Range(shown)

(* The messages of a round are simple ones.                                *)
LEMMA RuntimeIs ==
  ASSUME NEW required \in {<<Status>>, <<Correction, Status>>}
  PROVE  /\ required \in Seq(Messages)
         /\ \A n \in 1..Len(required) : Simple(required[n]) /\ required[n].text # "index"
<1>1. /\ Status \in Messages /\ Correction \in Messages
      /\ Simple(Status) /\ Simple(Correction)
      /\ Status.text # "index" /\ Correction.text # "index"
  <2>1. /\ "user" \in {"system", "user", "assistant", "tool"}
        /\ "status" \in OwnTexts \cup RememberedTexts /\ "feedback" \in OwnTexts \cup RememberedTexts
    BY Zenon DEF OwnTexts
  <2>2. 1 \in Nat /\ 2 \in Nat
    OBVIOUS
  <2>3. Status \in Messages /\ Correction \in Messages
    BY <2>1, <2>2, WrittenIs DEF Status, Correction
  <2> QED BY <2>3 DEF Status, Correction, Msg, Simple
<1> DEFINE s == Status
           c == Correction
<1>2. required \in {<<s>>, <<c, s>>} /\ s \in Messages /\ c \in Messages
  BY <1>1
<1> HIDE DEF s, c
<1>3. required \in Seq(Messages) /\ \A n \in 1..Len(required) : required[n] \in {s, c}
  <2>1. <<s>> \in Seq(Messages) /\ <<c, s>> \in Seq(Messages)
    <3> HIDE DEF Messages
    <3> QED BY <1>2
  <2>2. \A n \in 1..Len(required) : required[n] \in {s, c}
    <3>1. CASE required = <<s>>
      BY <3>1
    <3>2. CASE required = <<c, s>>
      BY <3>2
    <3> QED BY <1>2, <3>1, <3>2
  <2> QED BY <1>2, <2>1, <2>2
<1> QED BY <1>1, <1>3 DEF s, c

(* A request is paired, within its budget, and tells of every result.      *)
Proper(F, M, results) ==
    /\ F.messages \in Seq(Messages) /\ F.chars <= F.limit /\ Together(F.messages, M)
    /\ results # <<>> => Tells(F.messages, M, results)

(* What is looked for from the end is the status or the correction: what   *)
(* has been remembered may look like one.                                  *)
LEMMA TakenAre ==
  ASSUME NEW M \in Seq(Messages), NEW required \in {<<Status>>, <<Correction, Status>>},
         NEW i \in MatchFromEnd(M, required)
  PROVE  i \in 1..Len(M) /\ M[i] \in {Status, Correction} /\ \E n \in 1..Len(required) : M[i] = required[n]
<1> DEFINE s == Status
           c == Correction
<1>1. DOMAIN M = 1..Len(M) /\ Len(M) \in Nat
  OBVIOUS
<1>2. ASSUME NEW position \in Int, NEW wanted
      PROVE  LET p == LastBefore(M, position, wanted)
             IN  p # 0 => p \in 1..Len(M) /\ M[p] = wanted
  <2> DEFINE S == {0} \cup {j \in DOMAIN M : j < position /\ M[j] = wanted}
  <2>1. S \in SUBSET (0..Len(M)) /\ S # {}
    BY <1>1
  <2>2. Max(S) \in S
    <3> HIDE DEF S
    <3> QED BY <1>1, <2>1, GreatestIs
  <2>3. LastBefore(M, position, wanted) = Max(S)
    BY DEF LastBefore
  <2> QED BY <1>1, <2>2, <2>3
<1> DEFINE last == LastBefore(M, Len(M) + 1, s)
           first == LastBefore(M, last, c)
<1>3. last # 0 => last \in 1..Len(M) /\ M[last] = s
  BY <1>1, <1>2
<1>4. last \in Int
  <2>1. last = 0 \/ last # 0
    OBVIOUS
  <2> HIDE DEF last
  <2> QED BY <1>1, <1>3, <2>1
<1>5. first # 0 => first \in 1..Len(M) /\ M[first] = c
  <2> HIDE DEF last
  <2> QED BY <1>2, <1>4
<1>6. CASE required = <<s>>
  <2>1. required[Len(required)] = s /\ Len(required) = 1 /\ required[1] = s
    <3> HIDE DEF s
    <3> QED BY <1>6
  <2>2. MatchFromEnd(M, required) = {last, 0} \ {0}
    BY <2>1 DEF MatchFromEnd
  <2>3. i = last /\ i # 0
    BY <2>2
  <2> QED BY <1>3, <2>1, <2>3
<1>7. CASE required = <<c, s>>
  <2>1. required[Len(required)] = s /\ Len(required) = 2 /\ required[1] = c /\ required[2] = s
    <3> HIDE DEF s, c
    <3> QED BY <1>7
  <2>2. MatchFromEnd(M, required) = {last, first} \ {0}
    BY <2>1 DEF MatchFromEnd
  <2>3. i \in {last, first} /\ i # 0
    BY <2>2
  <2> HIDE DEF last, first, s, c
  <2>4. CASE i = last
    BY <1>3, <2>1, <2>3, <2>4 DEF s, c
  <2>5. CASE i = first
    BY <1>5, <2>1, <2>3, <2>5 DEF s, c
  <2> QED BY <2>3, <2>4, <2>5
<1> QED BY <1>6, <1>7 DEF s, c

(* Without some simple messages a sound transcript is one, and what is     *)
(* together in it is together.                                             *)
LEMMA TakingLeavesSound ==
  ASSUME NEW M, Complete(M), NEW taken \in SUBSET (1..Len(M)),
         \A i \in taken : Simple(M[i]) /\ M[i] # Policy /\ M[i] # NewestIndex
  PROVE  LET N == Pick(M, DOMAIN M \ taken)
         IN  /\ Complete(N)
             /\ \A p \in 1..Len(M) \ taken : M[p] \in Range(N)
             /\ \A W : Together(W, N) => Together(W, M)
<1> DEFINE at == DOMAIN M \ taken
           N == Pick(M, at)
<1>1. /\ M \in Seq(Messages) /\ DOMAIN M = 1..Len(M) /\ Len(M) \in Nat
      /\ at = 1..Len(M) \ taken /\ at \in SUBSET (1..Len(M))
  BY DEF Complete, Ready
<1> HIDE DEF at
<1>2. PICK o : /\ Orders(o, at, Len(M)) /\ N \in Seq(Messages) /\ Len(N) = Len(o)
               /\ \A n \in 1..Len(o) : N[n] = M[o[n]]
  <2> HIDE DEF N
  <2>0. M \in Seq(Messages) /\ at \in SUBSET (1..Len(M))
    BY <1>1
  <2>1. \E o : /\ Orders(o, at, Len(M)) /\ Pick(M, at) \in Seq(Messages) /\ Len(Pick(M, at)) = Len(o)
               /\ \A n \in 1..Len(o) : Pick(M, at)[n] = M[o[n]]
    BY <2>0, PickIs
  <2> QED BY <2>1 DEF N
<1> HIDE DEF N
<1>3. /\ Len(o) \in Nat
      /\ \A k \in 1..Len(o) : o[k] \in 1..Len(M) /\ o[k] \in at
      /\ \A k, l \in 1..Len(o) : (o[k] < o[l] <=> k < l) /\ (o[k] = o[l] <=> k = l)
  BY <1>1, <1>2, OrderIs
<1>4. \A p \in at : \E n \in 1..Len(o) : o[n] = p
  BY <1>2 DEF Orders
<1>5. Closed(M, at)
  <2>1. ASSUME NEW p \in at, M[p].calls # <<>>
        PROVE  M[p].role # "tool" /\ AnsweredCalls(M, p) /\ AnswersOf(M, p) \subseteq at
    <3>1. M[p].role # "tool" /\ AnsweredCalls(M, p) /\ AnswersOf(M, p) \subseteq 1..Len(M)
      BY <1>1, <2>1 DEF Complete, Closed
    <3>2. ASSUME NEW j \in AnswersOf(M, p) PROVE j \in at
      <4>1. M[j].role = "tool" /\ j \in 1..Len(M)
        <5>1. j \in p + 1..Len(M) /\ \A k \in p + 1..j : M[k].role = "tool"
          BY DEF AnswersOf, Run
        <5> QED BY <1>1, <3>1, <5>1
      <4> QED BY <1>1, <4>1 DEF Simple
    <3> QED BY <3>1, <3>2
  <2>2. ASSUME NEW p \in at, M[p].role = "tool" PROVE \E i \in at : p \in AnswersOf(M, i)
    <3>1. PICK i \in 1..Len(M) : p \in AnswersOf(M, i)
      BY <1>1, <2>2 DEF Complete, Closed
    <3>2. M[i].calls # <<>>
      <4>1. M[p].key \in Range(M[i].calls)
        BY <3>1 DEF AnswersOf
      <4> QED BY <4>1 DEF Range
    <3>3. i \in at
      BY <1>1, <3>2 DEF Simple
    <3> QED BY <3>1, <3>3
  <2> QED BY <2>1, <2>2 DEF Closed
<1>6. Together(N, M)
  <2>1. ASSUME NEW n \in 1..Len(N) PROVE \E k \in 1..Len(o) : n = 0 + k
    BY <1>2, <1>3
  <2>2. Layout(N, M, 0, o, at)
    BY <1>1, <1>2, <1>3, <2>1 DEF Layout
  <2> QED BY <1>1, <1>5, <2>2, LayoutPairs
<1>7. Ready(N)
  <2>1. \A n \in 1..Len(N) : N[n].text # "index"
    BY <1>2, <1>3 DEF Complete, Ready
  <2>2. \E n \in 1..Len(N) : N[n] = Policy
    <3>1. PICK p \in 1..Len(M) : M[p] = Policy
      BY DEF Complete, Ready
    <3>2. p \in at
      BY <1>1, <3>1
    <3> QED BY <1>2, <1>4, <3>1, <3>2
  <2>3. \E n \in 1..Len(N) : N[n] = NewestIndex
    <3>1. PICK p \in 1..Len(M) : M[p] = NewestIndex
      BY DEF Complete, Ready
    <3>2. p \in at
      BY <1>1, <3>1
    <3> QED BY <1>2, <1>4, <3>1, <3>2
  <2>4. ASSUME NEW m \in 1..Len(N), NEW n \in 1..Len(N), N[m] = NewestIndex, ~Simple(N[n])
        PROVE  m < n
    <3>1. m \in 1..Len(o) /\ n \in 1..Len(o)
      BY <1>2
    <3>2. M[o[m]] = NewestIndex /\ ~Simple(M[o[n]])
      BY <1>2, <2>4, <3>1
    <3>3. o[m] < o[n]
      BY <1>3, <3>1, <3>2 DEF Complete, Ready
    <3> QED BY <1>3, <3>1, <3>3
  <2> QED BY <1>2, <2>1, <2>2, <2>3, <2>4 DEF Ready
<1>8. Closed(N, 1..Len(N))
  <2>0. DOMAIN N = 1..Len(N) /\ Len(N) \in Nat
    BY <1>2
  <2>1. ASSUME NEW n \in 1..Len(N), N[n].calls # <<>>
        PROVE  N[n].role # "tool" /\ AnsweredCalls(N, n) /\ AnswersOf(N, n) \subseteq 1..Len(N)
    <3>1. N[n].role # "tool"
      <4>1. n \in 1..Len(o) /\ N[n] = M[o[n]] /\ o[n] \in at
        BY <1>2, <1>3
      <4> QED BY <1>5, <2>1, <4>1 DEF Closed
    <3>2. AnsweredCalls(N, n)
      BY <1>6, <2>0, <2>1 DEF Together
    <3>3. ASSUME NEW j \in AnswersOf(N, n) PROVE j \in 1..Len(N)
      <4>1. j \in n + 1..Len(N)
        BY DEF AnswersOf, Run
      <4> QED BY <2>0, <4>1
    <3> QED BY <3>1, <3>2, <3>3
  <2>2. ASSUME NEW n \in 1..Len(N), N[n].role = "tool"
        PROVE  \E i \in 1..Len(N) : n \in AnswersOf(N, i)
    <3>1. PICK i \in 1..n-1 : n \in Run(N, i) /\ N[n].key \in Range(N[i].calls)
      BY <1>6, <2>0, <2>2 DEF Together
    <3>2. i \in 1..Len(N) /\ n \in AnswersOf(N, i)
      BY <2>0, <3>1 DEF AnswersOf
    <3> QED BY <3>2
  <2> QED BY <2>1, <2>2 DEF Closed
<1>9. ASSUME NEW p \in 1..Len(M) \ taken PROVE M[p] \in Range(N)
  <2>1. PICK n \in 1..Len(o) : o[n] = p
    BY <1>1, <1>4
  <2>2. n \in DOMAIN N /\ N[n] = M[p]
    BY <1>2, <2>1
  <2> QED BY <2>2 DEF Range
<1>10. ASSUME NEW W, Together(W, N) PROVE Together(W, M)
  <2>1. ASSUME NEW i \in DOMAIN W, NEW j \in DOMAIN W, i < j, W[i].calls # <<>>, W[j].calls # <<>>
        PROVE  \E k \in DOMAIN M : \E l \in k+1..Len(M) : M[k] = W[i] /\ M[l] = W[j]
    <3>1. PICK k \in DOMAIN N : \E l \in k+1..Len(N) : N[k] = W[i] /\ N[l] = W[j]
      BY <1>10, <2>1 DEF Together
    <3>2. PICK l \in k+1..Len(N) : N[k] = W[i] /\ N[l] = W[j]
      BY <3>1
    <3>3. k \in 1..Len(o) /\ l \in 1..Len(o) /\ k < l
      BY <1>2, <1>3, <3>2
    <3>4. M[o[k]] = W[i] /\ M[o[l]] = W[j]
      BY <1>2, <3>2, <3>3
    <3>5. o[k] \in DOMAIN M /\ o[l] \in o[k] + 1..Len(M)
      BY <1>1, <1>3, <3>3
    <3> QED BY <3>4, <3>5
  <2> QED BY <1>10, <2>1 DEF Together
<1>11. Complete(N)
  BY <1>7, <1>8 DEF Complete
<1> QED BY <1>1, <1>9, <1>10, <1>11 DEF N, at

(* A cut of a sound transcript is one, and shows what the round has to say.*)
LEMMA CutIsProper ==
  ASSUME NEW M, Complete(M), NEW results \in Seq(StoredResults), NEW limit \in Int,
         NEW required \in {<<Status>>, <<Correction, Status>>},
         Fit(M, TranscriptUnits(M), results, required, limit) # NoRequest
  PROVE  LET F == Fit(M, TranscriptUnits(M), results, required, limit)
         IN  /\ Proper(F, M, results)
             /\ \A n \in 1..Len(required) : required[n] \in Range(F.messages)
<1> DEFINE units == TranscriptUnits(M)
           F == Fit(M, units, results, required, limit)
           newest == RequestAt(M)
<1>1. Ready(M) /\ GoodUnits(M, units) /\ 1..Len(M) \subseteq KeptAt(M, units)
  BY UnitsAreGood DEF Complete
<1>3. /\ required \in Seq(Messages)
      /\ \A n \in 1..Len(required) : Simple(required[n]) /\ required[n].text # "index"
  BY RuntimeIs
<1>4. PICK kept, bytes : Fitted(F, M, units, results, required, limit, kept, bytes)
  <2>1. F # NoRequest
    OBVIOUS
  <2> HIDE DEF units
  <2> QED BY <1>1, <1>3, <2>1, FitCuts
<1> DEFINE left == Cardinality(units) - Cardinality(kept)
           extra == IndexIfAny(results, bytes, left)
           at == KeptAt(M, kept)
           W == Laid(M, at, newest, extra, required)
           index == IndexMessage(results, bytes, left)
<1> HIDE DEF F, units
<1>5. /\ kept \in SUBSET units /\ bytes \in Nat /\ left \in Nat
      /\ F.messages = W /\ F.limit = limit /\ F.chars <= limit
  BY <1>4 DEF Fitted
<1>6. M \in Seq(Messages) /\ at \in SUBSET (1..Len(M)) /\ Closed(M, at)
  BY <1>1, <1>5, KeptIsClosed DEF Ready
<1>7. newest \in Nat /\ \A p \in 1..Len(M) : ~Simple(M[p]) => newest < p
  BY <1>1, RequiredIs
<1>8. index \in Messages /\ Simple(index) /\ index.text = "index" /\ index.omitted = left
      /\ index.receipts = [n \in 1..Len(results) |-> Receipt(results[n], bytes)]
  <2> HIDE DEF left
  <2> QED BY <1>5, IndexIs
<1> HIDE DEF index, left, at
<1>9. extra \in Seq(Messages) /\ \A n \in 1..Len(extra) : Simple(extra[n])
  <2>1. CASE results = <<>>
    <3>1. extra = <<>>
      BY <2>1 DEF IndexIfAny
    <3> HIDE DEF extra
    <3> QED BY <3>1
  <2>2. CASE results # <<>>
    <3>1. extra = <<index>>
      BY <2>2 DEF IndexIfAny, index
    <3> HIDE DEF extra
    <3>2. extra \in Seq(Messages)
      <4> HIDE DEF Messages
      <4> QED BY <1>8, <3>1
    <3> QED BY <1>8, <3>1, <3>2
  <2> QED BY <2>1, <2>2
<1> HIDE DEF extra, newest
<1>10. Together(W, M)
  BY <1>3, <1>6, <1>7, <1>9, ArrangementPairs
<1>11. PICK a, b : Spread(W, M, at, newest, extra, required, a, b)
  BY <1>3, <1>6, <1>7, <1>9, LaidSpreads
<1> HIDE DEF W
<1>12. W \in Seq(Messages)
  BY <1>11 DEF Spread
<1>13. ASSUME results # <<>> PROVE Tells(W, M, results)
  <2>1. extra = <<index>>
    BY <1>13 DEF IndexIfAny, index, extra
  <2>2. Spread(W, M, at, newest, <<index>>, required, a, b)
    BY <1>11, <2>1
  <2>3. \A p \in 1..Len(M) : M[p].text # "index"
    BY <1>1 DEF Ready
  <2>4. PICK x \in DOMAIN W : W[x] = index /\ {n \in DOMAIN W : W[n].text = "index"} = {x}
    <3>1. \A n \in 1..Len(required) : required[n].text # "index"
      BY <1>3
    <3>2. required \in Seq(Messages) /\ newest \in Nat /\ index \in Messages
      BY <1>3, <1>7, <1>8
    <3>3. index.text = "index"
      BY <1>8
    <3>4. M \in Seq(Messages) /\ at \in SUBSET (1..Len(M))
      BY <1>6
    <3>5. IndexedOnce(W, index)
      BY <2>2, <2>3, <3>1, <3>2, <3>3, <3>4, OneIndex
    <3> QED BY <3>5 DEF IndexedOnce
  <2>5. Cardinality({x}) = 1
    BY FS_Singleton
  <2>6. DOMAIN results = 1..Len(results) /\ Len(results) \in Nat
    OBVIOUS
  <2>7. ASSUME NEW n \in 1..Len(results)
        PROVE  /\ index.receipts[n].id = results[n].id
               /\ ~index.receipts[n].cut => index.receipts[n].data = results[n].size
    <3>1. results[n] \in StoredResults
      OBVIOUS
    <3>2. index.receipts[n] = Receipt(results[n], bytes)
      BY <1>8
    <3>3. /\ Receipt(results[n], bytes).id = results[n].id
          /\ ~Receipt(results[n], bytes).cut => Receipt(results[n], bytes).data = results[n].size
      <4>1. bytes \in Nat
        BY <1>5
      <4> QED BY <3>1, <4>1, ReceiptIs
    <3> QED BY <3>2, <3>3, Zenon
  <2>8. CallIds(index.receipts) = CallIds(results)
    <3>1. DOMAIN index.receipts = 1..Len(results)
      BY <1>8
    <3> QED BY <2>6, <2>7, <3>1 DEF CallIds
  <2>9. ASSUME index.omitted = 0 PROVE \A m \in Range(M) : m \in Range(W)
    <3>1. kept = units
      <4>1. Cardinality(units) = Cardinality(kept)
        <5>1. IsFiniteSet(units) /\ Cardinality(units) - Cardinality(kept) = 0
          BY <1>1, <1>8, <2>9 DEF GoodUnits, left
        <5>2. Cardinality(units) \in Nat /\ Cardinality(kept) \in Nat
          BY <1>5, <5>1, FS_Subset, FS_CardinalityType
        <5> QED BY <5>1, <5>2
      <4> QED BY <1>1, <1>5, <4>1, FS_Subset DEF GoodUnits
    <3>2. \A p \in 1..Len(M) : p \in at
      BY <1>1, <3>1 DEF at
    <3>3. \A p \in 1..Len(M) : M[p] \in Range(W)
      BY <1>3, <1>6, <1>7, <1>9, <1>11, <3>2, LaidShows
    <3>4. DOMAIN M = 1..Len(M)
      BY <1>6
    <3> QED BY <3>3, <3>4 DEF Range
  <2> QED BY <2>4, <2>5, <2>6, <2>7, <2>8, <2>9 DEF Tells
<1>14. Proper(F, M, results)
  BY <1>5, <1>10, <1>12, <1>13 DEF Proper
<1>15. \A n \in 1..Len(required) : required[n] \in Range(W)
  BY <1>3, <1>6, <1>7, <1>9, <1>11, RuntimeShows
<1> QED BY <1>5, <1>14, <1>15 DEF F, units

(* What ProjectTurn makes of a sound transcript is a proper request.       *)
LEMMA ProjectionIsProper ==
  ASSUME NEW M, Complete(M), NEW results \in Seq(StoredResults), NEW limit \in Int,
         NEW required \in {<<Status>>, <<Correction, Status>>},
         ProjectTurn(M, results, required, limit) # NoRequest
  PROVE  Proper(ProjectTurn(M, results, required, limit), M, results)
<1> DEFINE taken == MatchFromEnd(M, required)
           N == Pick(M, DOMAIN M \ taken)
           F == Fit(N, TranscriptUnits(N), results, required, limit)
<1>1. M \in Seq(Messages) /\ DOMAIN M = 1..Len(M)
  BY DEF Complete, Ready
<1>2. \A i \in taken : i \in 1..Len(M) /\ M[i] \in {Status, Correction}
                       /\ \E n \in 1..Len(required) : M[i] = required[n]
  BY <1>1, TakenAre
<1>3. ProjectTurn(M, results, required, limit) = F
  BY DEF ProjectTurn
<1> HIDE DEF taken
<1>4. \A m \in {Status, Correction} : Simple(m) /\ m # Policy /\ m # NewestIndex
  BY DEF Simple, Status, Correction, Policy, NewestIndex, Msg
<1>5. /\ Complete(N) /\ \A p \in 1..Len(M) \ taken : M[p] \in Range(N)
      /\ \A W : Together(W, N) => Together(W, M)
  <2>1. taken \in SUBSET (1..Len(M))
    BY <1>2
  <2>2. \A i \in taken : Simple(M[i]) /\ M[i] # Policy /\ M[i] # NewestIndex
    BY <1>2, <1>4
  <2> QED BY <2>1, <2>2, TakingLeavesSound
<1> HIDE DEF N
<1>6. F # NoRequest
  BY <1>3
<1>7. Proper(F, N, results) /\ \A n \in 1..Len(required) : required[n] \in Range(F.messages)
  BY <1>5, <1>6, CutIsProper
<1> HIDE DEF F
<1>8. (\A m \in Range(N) : m \in Range(F.messages)) => \A m \in Range(M) : m \in Range(F.messages)
  <2> SUFFICES ASSUME \A m \in Range(N) : m \in Range(F.messages), NEW p \in 1..Len(M)
               PROVE  M[p] \in Range(F.messages)
    BY <1>1 DEF Range
  <2>1. CASE p \in taken
    BY <1>2, <1>7, <2>1
  <2>2. CASE p \notin taken
    BY <1>5, <2>2
  <2> QED BY <2>1, <2>2
<1>9. Tells(F.messages, N, results) => Tells(F.messages, M, results)
  BY <1>8 DEF Tells
<1>10. Proper(F, M, results)
  BY <1>5, <1>7, <1>9 DEF Proper
<1> QED BY <1>3, <1>10
(* N is M and what joined it, which is not a result of M's last call.      *)
Grown(N, M) ==
    /\ M \in Seq(Messages) /\ N \in Seq(Messages) /\ Len(M) <= Len(N)
    /\ \A n \in 1..Len(M) : N[n] = M[n]
    /\ Len(M) < Len(N) => N[Len(M) + 1].role # "tool"

(* What is put behind a transcript does not change the runs in it.         *)
LEMMA OldRuns ==
  ASSUME NEW N, NEW M, Grown(N, M), NEW i \in 1..Len(M)
  PROVE  Run(N, i) = Run(M, i) /\ AnswersOf(N, i) = AnswersOf(M, i)
         /\ (AnsweredCalls(N, i) <=> AnsweredCalls(M, i))
<1>1. /\ Len(M) \in Nat /\ Len(N) \in Nat /\ Len(M) <= Len(N)
      /\ \A n \in 1..Len(M) : N[n] = M[n]
      /\ Len(M) < Len(N) => N[Len(M) + 1].role # "tool"
  BY DEF Grown
<1>2. ASSUME NEW j \in Run(N, i) PROVE j \in Run(M, i)
  <2>1. j \in i + 1..Len(N) /\ \A k \in i + 1..j : N[k].role = "tool"
    BY DEF Run
  <2>2. j <= Len(M)
    <3>1. SUFFICES ASSUME Len(M) < j PROVE FALSE
      BY <1>1, <2>1
    <3>2. Len(M) + 1 \in i + 1..j /\ Len(M) < Len(N)
      BY <1>1, <2>1, <3>1
    <3> QED BY <1>1, <2>1, <3>2
  <2>3. j \in i + 1..Len(M) /\ \A k \in i + 1..j : k \in 1..Len(M)
    BY <1>1, <2>1, <2>2
  <2> QED BY <1>1, <2>1, <2>3 DEF Run
<1>3. ASSUME NEW j \in Run(M, i) PROVE j \in Run(N, i)
  <2>1. j \in i + 1..Len(M) /\ \A k \in i + 1..j : M[k].role = "tool"
    BY DEF Run
  <2>2. j \in i + 1..Len(N) /\ \A k \in i + 1..j : k \in 1..Len(M)
    BY <1>1, <2>1
  <2> QED BY <1>1, <2>1, <2>2 DEF Run
<1>4. Run(N, i) = Run(M, i)
  BY <1>2, <1>3
<1>5. N[i] = M[i] /\ \A j \in Run(M, i) : N[j] = M[j]
  <2>1. \A j \in Run(M, i) : j \in 1..Len(M)
    BY <1>1 DEF Run
  <2> QED BY <1>1, <2>1
<1>6. AnswersOf(N, i) = AnswersOf(M, i)
  BY <1>4, <1>5 DEF AnswersOf
<1>7. AnsweredCalls(N, i) <=> AnsweredCalls(M, i)
  <2>1. ASSUME AnsweredCalls(N, i), NEW id \in Range(M[i].calls)
        PROVE  \E j \in Run(M, i) : \A k \in Run(M, i) : M[k].key = id <=> k = j
    <3>1. PICK j \in Run(N, i) : \A k \in Run(N, i) : N[k].key = id <=> k = j
      BY <1>5, <2>1 DEF AnsweredCalls
    <3>2. ASSUME NEW k \in Run(M, i) PROVE M[k].key = id <=> k = j
      BY <1>4, <1>5, <3>1
    <3> QED BY <1>4, <3>1, <3>2
  <2>2. ASSUME AnsweredCalls(M, i), NEW id \in Range(N[i].calls)
        PROVE  \E j \in Run(N, i) : \A k \in Run(N, i) : N[k].key = id <=> k = j
    <3>1. PICK j \in Run(M, i) : \A k \in Run(M, i) : M[k].key = id <=> k = j
      BY <1>5, <2>2 DEF AnsweredCalls
    <3>2. ASSUME NEW k \in Run(N, i) PROVE N[k].key = id <=> k = j
      BY <1>4, <1>5, <3>1
    <3> QED BY <1>4, <3>1, <3>2
  <2> QED BY <2>1, <2>2 DEF AnsweredCalls
<1> QED BY <1>4, <1>6, <1>7

(* A transcript stays complete when complete exchanges join it.            *)
LEMMA CompleteGrows ==
  ASSUME NEW N, NEW M, Complete(M), Grown(N, M), Closed(N, Len(M) + 1..Len(N)),
         \A n \in Len(M) + 1..Len(N) : N[n] # NewestIndex /\ N[n].text # "index"
  PROVE  Complete(N)
<1>1. /\ Len(M) \in Nat /\ Len(N) \in Nat /\ Len(M) <= Len(N) /\ N \in Seq(Messages)
      /\ \A n \in 1..Len(M) : N[n] = M[n]
  BY DEF Grown
<1>2. \A n \in 1..Len(N) : n \in 1..Len(M) \/ n \in Len(M) + 1..Len(N)
  BY <1>1
<1>3. \A n \in 1..Len(M) : n \in 1..Len(N)
  BY <1>1
<1>4. Ready(N)
  <2>1. \A n \in 1..Len(N) : N[n].text # "index"
    BY <1>1, <1>2 DEF Complete, Ready
  <2>2. (\E n \in 1..Len(N) : N[n] = Policy) /\ (\E n \in 1..Len(N) : N[n] = NewestIndex)
    <3>1. PICK n \in 1..Len(M) : M[n] = Policy
      BY DEF Complete, Ready
    <3>2. PICK m \in 1..Len(M) : M[m] = NewestIndex
      BY DEF Complete, Ready
    <3> QED BY <1>1, <1>3, <3>1, <3>2
  <2>3. ASSUME NEW m \in 1..Len(N), NEW n \in 1..Len(N), N[m] = NewestIndex, ~Simple(N[n])
        PROVE  m < n
    <3>1. m \in 1..Len(M)
      BY <1>2, <2>3
    <3>2. CASE n \in 1..Len(M)
      <4>1. M[m] = NewestIndex /\ ~Simple(M[n])
        BY <1>1, <2>3, <3>1, <3>2
      <4> QED BY <3>1, <3>2, <4>1 DEF Complete, Ready
    <3>3. CASE n \in Len(M) + 1..Len(N)
      BY <1>1, <3>1, <3>3
    <3> QED BY <1>2, <3>2, <3>3
  <2> QED BY <1>1, <2>1, <2>2, <2>3 DEF Ready
<1>5. ASSUME NEW p \in 1..Len(N), N[p].calls # <<>>
      PROVE  N[p].role # "tool" /\ AnsweredCalls(N, p) /\ AnswersOf(N, p) \subseteq 1..Len(N)
  <2>1. CASE p \in 1..Len(M)
    <3>1. M[p].role # "tool" /\ AnsweredCalls(M, p) /\ AnswersOf(M, p) \subseteq 1..Len(M)
      <4>1. M[p].calls # <<>>
        BY <1>1, <1>5, <2>1
      <4> QED BY <2>1, <4>1 DEF Complete, Closed
    <3>2. AnsweredCalls(N, p) /\ AnswersOf(N, p) \subseteq 1..Len(M)
      BY <2>1, <3>1, OldRuns
    <3> QED BY <1>1, <1>3, <2>1, <3>1, <3>2
  <2>2. CASE p \in Len(M) + 1..Len(N)
    <3>1. N[p].role # "tool" /\ AnsweredCalls(N, p) /\ AnswersOf(N, p) \subseteq Len(M) + 1..Len(N)
      BY <1>5, <2>2 DEF Closed
    <3> QED BY <1>1, <3>1
  <2> QED BY <1>2, <2>1, <2>2
<1>6. ASSUME NEW p \in 1..Len(N), N[p].role = "tool" PROVE \E i \in 1..Len(N) : p \in AnswersOf(N, i)
  <2>1. CASE p \in 1..Len(M)
    <3>1. PICK i \in 1..Len(M) : p \in AnswersOf(M, i)
      <4>1. M[p].role = "tool"
        BY <1>1, <1>6, <2>1
      <4> QED BY <2>1, <4>1 DEF Complete, Closed
    <3>2. p \in AnswersOf(N, i)
      BY <3>1, OldRuns
    <3> QED BY <1>3, <3>2
  <2>2. CASE p \in Len(M) + 1..Len(N)
    <3>1. PICK i \in Len(M) + 1..Len(N) : p \in AnswersOf(N, i)
      BY <1>6, <2>2 DEF Closed
    <3>2. i \in 1..Len(N)
      BY <1>1
    <3> QED BY <3>1, <3>2
  <2> QED BY <1>2, <2>1, <2>2
<1>7. Closed(N, 1..Len(N))
  BY <1>5, <1>6 DEF Closed
<1> QED BY <1>4, <1>7 DEF Complete

(* What was shown in pairs still is.                                       *)
LEMMA TogetherStays ==
  ASSUME NEW N, NEW M, Grown(N, M), NEW shown, Together(shown, M)
  PROVE  Together(shown, N)
<1>1. /\ Len(M) \in Nat /\ Len(N) \in Nat /\ Len(M) <= Len(N)
      /\ DOMAIN M = 1..Len(M) /\ DOMAIN N = 1..Len(N)
      /\ \A n \in 1..Len(M) : N[n] = M[n]
  BY DEF Grown
<1>2. ASSUME NEW i \in DOMAIN shown, NEW j \in DOMAIN shown, i < j,
             shown[i].calls # <<>>, shown[j].calls # <<>>
      PROVE  \E k \in DOMAIN N : \E l \in k+1..Len(N) : N[k] = shown[i] /\ N[l] = shown[j]
  <2>0. PICK k \in DOMAIN M : \E l \in k+1..Len(M) : M[k] = shown[i] /\ M[l] = shown[j]
    BY <1>2 DEF Together
  <2>1. PICK l \in k+1..Len(M) : M[k] = shown[i] /\ M[l] = shown[j]
    BY <2>0
  <2>2. k \in 1..Len(M) /\ l \in 1..Len(M) /\ k \in DOMAIN N /\ l \in k+1..Len(N)
    BY <1>1, <2>1
  <2> QED BY <1>1, <2>1, <2>2
<1> QED BY <1>2, Zenon DEF Together

(* A message that is no call, no result and no request.                    *)
LEMMA SimpleJoins ==
  ASSUME NEW M, Complete(M), NEW m \in {Correction, BrokenAnswer}
  PROVE  Complete(Append(M, m)) /\ Grown(Append(M, m), M)
<1> DEFINE N == Append(M, m)
<1>1. M \in Seq(Messages) /\ Len(M) \in Nat
  BY DEF Complete, Ready
<1>2. m \in Messages /\ Simple(m) /\ m # NewestIndex /\ m.text # "index"
  <2>1. /\ {"user", "assistant"} \subseteq {"system", "user", "assistant", "tool"}
        /\ {"broken", "feedback"} \subseteq OwnTexts \cup RememberedTexts
    BY Zenon DEF OwnTexts
  <2>2. 1 \in Nat /\ 2 \in Nat
    OBVIOUS
  <2>3. Correction \in Messages /\ BrokenAnswer \in Messages
    BY <2>1, <2>2, WrittenIs DEF Correction, BrokenAnswer
  <2> QED BY <2>3 DEF Correction, BrokenAnswer, NewestIndex, Msg, Simple
<1> HIDE DEF Messages
<1>3. /\ N \in Seq(Messages) /\ Len(N) = Len(M) + 1 /\ N[Len(M) + 1] = m
      /\ \A n \in 1..Len(M) : N[n] = M[n]
  BY <1>1, <1>2, AppendProperties
<1> HIDE DEF N
<1>4. \A n \in Len(M) + 1..Len(N) : n = Len(M) + 1
  BY <1>1, <1>3
<1>5. Closed(N, Len(M) + 1..Len(N))
  BY <1>2, <1>3, <1>4 DEF Closed, Simple
<1>6. Grown(N, M)
  BY <1>1, <1>2, <1>3 DEF Grown, Simple
<1>7. Complete(N)
  BY <1>2, <1>3, <1>4, <1>5, <1>6, CompleteGrows
<1> QED BY <1>6, <1>7 DEF N

Calls == [id : Nat, of : Nat, at : Nat, meta : Nat]

(* A batch and its results.                                                *)
LEMMA BatchJoins ==
  ASSUME NEW M, Complete(M), NEW batch \in Seq(Calls), NEW results \in Seq(StoredResults),
         Len(results) = Len(batch), \A n \in 1..Len(batch) : results[n].id = batch[n].id,
         \A m, n \in 1..Len(batch) : batch[m].id = batch[n].id => m = n
  PROVE  /\ Complete(M \o <<CallsMessage(batch)>> \o [n \in DOMAIN batch |-> Observation(results[n])])
         /\ Grown(M \o <<CallsMessage(batch)>> \o [n \in DOMAIN batch |-> Observation(results[n])], M)
<1> DEFINE ask == CallsMessage(batch)
           seen == [n \in DOMAIN batch |-> Observation(results[n])]
           N == M \o <<ask>> \o seen
           head == Len(M) + 1
           k == Len(batch)
<1>1. M \in Seq(Messages) /\ Len(M) \in Nat /\ k \in Nat /\ DOMAIN batch = 1..k
  BY DEF Complete, Ready
<1>2. /\ ask \in Messages /\ ask.role = "assistant" /\ ask.text = "calls"
      /\ ask.calls = [n \in 1..k |-> batch[n].id]
  <2>1. \A n \in 1..k : batch[n] \in Calls
    OBVIOUS
  <2>2. [n \in 1..k |-> batch[n].id] \in Seq(Nat)
    <3>1. \A n \in 1..k : batch[n].id \in Nat
      BY <2>1 DEF Calls
    <3> HIDE DEF k
    <3> QED BY <1>1, <3>1, IsASeq
  <2>3. CallIds(batch) = [n \in 1..k |-> batch[n].id]
    BY <1>1 DEF CallIds
  <2>4. /\ ask = [role |-> "assistant", text |-> "calls", size |-> k, calls |-> CallIds(batch), key |-> 0,
                   receipts |-> <<>>, omitted |-> 0]
    BY DEF CallsMessage, Msg
  <2>5. "assistant" \in {"system", "user", "assistant", "tool"} /\ "calls" \in OwnTexts \cup RememberedTexts
    BY Zenon DEF OwnTexts
  <2>6. <<>> \in Seq([id : Nat, data : Nat, cut : BOOLEAN]) /\ 0 \in Nat
    OBVIOUS
  <2> DEFINE ids == CallIds(batch)
  <2>7. ids \in Seq(Nat)
    BY <2>2, <2>3
  <2> HIDE DEF ids, k, ask
  <2>8. ask \in Messages
    <3>1. ask = [role |-> "assistant", text |-> "calls", size |-> k, calls |-> ids, key |-> 0,
                  receipts |-> <<>>, omitted |-> 0]
      BY <2>4 DEF ids
    <3>2. [role |-> "assistant", text |-> "calls", size |-> k, calls |-> ids, key |-> 0,
           receipts |-> <<>>, omitted |-> 0] \in Messages
      BY <1>1, <2>5, <2>6, <2>7, Zenon DEF Messages
    <3> QED BY <3>1, <3>2
  <2> QED BY <2>3, <2>4, <2>8
<1>3. ASSUME NEW n \in 1..k
      PROVE  /\ Observation(results[n]) \in Messages /\ Observation(results[n]).role = "tool"
             /\ Observation(results[n]).text = "view" /\ Observation(results[n]).calls = <<>>
             /\ Observation(results[n]).key = batch[n].id
  <2>1. results[n] \in StoredResults /\ results[n].id = batch[n].id
    OBVIOUS
  <2>2. MaxView \in Nat
    BY TurnAssumption
  <2> DEFINE size == ViewSize(results[n], MaxView)
             id == batch[n].id
  <2>3. size \in Nat /\ id \in Nat
    BY <2>1, <2>2, ViewIs DEF StoredResults
  <2>4. Observation(results[n]) = [role |-> "tool", text |-> "view", size |-> size, calls |-> <<>>,
                                   key |-> id, receipts |-> <<>>, omitted |-> 0]
    BY <2>1 DEF Observation, Msg
  <2>5. "tool" \in {"system", "user", "assistant", "tool"} /\ "view" \in OwnTexts \cup RememberedTexts
    BY Zenon DEF OwnTexts
  <2>6. <<>> \in Seq([id : Nat, data : Nat, cut : BOOLEAN]) /\ <<>> \in Seq(Nat) /\ 0 \in Nat
    OBVIOUS
  <2> HIDE DEF size, id
  <2>7. [role |-> "tool", text |-> "view", size |-> size, calls |-> <<>>,
         key |-> id, receipts |-> <<>>, omitted |-> 0] \in Messages
    BY <2>3, <2>5, <2>6, Zenon DEF Messages
  <2>8. Observation(results[n]).key = id
    BY <2>4
  <2> QED BY <2>4, <2>7, <2>8 DEF id
<1> HIDE DEF ask
<1>4. seen \in Seq(Messages) /\ Len(seen) = k /\ \A n \in 1..k : seen[n] = Observation(results[n])
  <2>1. seen = [n \in 1..k |-> Observation(results[n])]
    BY <1>1
  <2> HIDE DEF seen, Messages
  <2>2. [n \in 1..k |-> Observation(results[n])] \in Seq(Messages)
    BY <1>1, <1>3, IsASeq
  <2> QED BY <1>1, <2>1, <2>2
<1> HIDE DEF seen, k
<1>5. /\ N \in Seq(Messages) /\ Len(N) = head + k /\ N[head] = ask
      /\ \A n \in 1..Len(M) : N[n] = M[n]
      /\ \A n \in 1..k : N[head + n] = Observation(results[n])
  <2> DEFINE one == <<ask>>
             u == M \o one
  <2>1. one \in Seq(Messages) /\ Len(one) = 1 /\ one[1] = ask
    <3> HIDE DEF Messages
    <3> QED BY <1>2
  <2> HIDE DEF one
  <2>2. Follows(u, M, one, Messages)
    BY <1>1, <2>1, TwoParts
  <2>3. u \in Seq(Messages) /\ Len(u) = head /\ u[head] = ask /\ \A n \in 1..Len(M) : u[n] = M[n]
    BY <1>1, <2>1, <2>2 DEF Follows
  <2> HIDE DEF u
  <2>4. Follows(u \o seen, u, seen, Messages)
    BY <1>4, <2>3, TwoParts
  <2>5. N = u \o seen
    BY DEF u, one
  <2> HIDE DEF N
  <2>6. /\ N \in Seq(Messages) /\ Len(N) = head + k
        /\ \A n \in 1..head : N[n] = u[n]
        /\ \A n \in 1..k : N[head + n] = seen[n]
    BY <1>4, <2>3, <2>4, <2>5 DEF Follows
  <2>7. head \in 1..head /\ \A n \in 1..Len(M) : n \in 1..head
    BY <1>1
  <2> QED BY <1>4, <2>3, <2>6, <2>7
<1> HIDE DEF N
<1>6. Grown(N, M)
  BY <1>1, <1>2, <1>5 DEF Grown
<1>7. ASSUME NEW n \in head + 1..Len(N)
      PROVE  /\ N[n].role = "tool" /\ N[n].calls = <<>> /\ N[n].text = "view"
             /\ n - head \in 1..k /\ N[n].key = batch[n - head].id
  <2>1. n - head \in 1..k /\ head + (n - head) = n
    BY <1>1, <1>5
  <2>2. N[head + (n - head)] = Observation(results[n - head])
    BY <1>5, <2>1
  <2> QED BY <1>3, <2>1, <2>2
<1>8. Run(N, head) = head + 1..Len(N)
  <2>1. \A j \in head + 1..Len(N) : \A x \in head + 1..j : x \in head + 1..Len(N)
    BY <1>1, <1>5
  <2>2. \A j \in head + 1..Len(N) : \A x \in head + 1..j : N[x].role = "tool"
    BY <1>7, <2>1
  <2> HIDE DEF head
  <2> QED BY <2>2 DEF Run
<1>9. Range(N[head].calls) = {batch[n].id : n \in 1..k}
  <2>1. N[head].calls = [n \in 1..k |-> batch[n].id]
    BY <1>2, <1>5
  <2>2. Range([n \in 1..k |-> batch[n].id]) = {batch[n].id : n \in 1..k}
    BY DEF Range
  <2> QED BY <2>1, <2>2
<1>10. AnsweredCalls(N, head)
  <2>1. ASSUME NEW id \in Range(N[head].calls)
        PROVE  \E j \in Run(N, head) : \A x \in Run(N, head) : N[x].key = id <=> x = j
    <3>1. PICK n \in 1..k : id = batch[n].id
      BY <1>9
    <3>2. head + n \in Run(N, head)
      BY <1>1, <1>5, <1>8
    <3>3. ASSUME NEW x \in Run(N, head) PROVE N[x].key = id <=> x = head + n
      <4>1. x - head \in 1..k /\ N[x].key = batch[x - head].id /\ x \in head + 1..Len(N)
        BY <1>7, <1>8
      <4>2. batch[x - head].id = batch[n].id <=> x - head = n
        BY <4>1 DEF k
      <4>3. x - head = n <=> x = head + n
        BY <1>1, <4>1
      <4> QED BY <3>1, <4>1, <4>2, <4>3
    <3> QED BY <3>2, <3>3
  <2> QED BY <2>1 DEF AnsweredCalls
<1>11. Closed(N, head..Len(N))
  <2>1. \A p \in head..Len(N) : p = head \/ p \in head + 1..Len(N)
    BY <1>1, <1>5
  <2>2. head \in head..Len(N) /\ head + 1..Len(N) \subseteq head..Len(N)
    BY <1>1, <1>5
  <2>3. AnswersOf(N, head) \subseteq head..Len(N)
    BY <1>8, <2>2 DEF AnswersOf
  <2>4. \A p \in head + 1..Len(N) : p \in AnswersOf(N, head)
    BY <1>7, <1>8, <1>9 DEF AnswersOf
  <2>5. N[head].role # "tool"
    BY <1>2, <1>5
  <2> HIDE DEF head
  <2> QED BY <1>7, <1>10, <2>1, <2>2, <2>3, <2>4, <2>5 DEF Closed
<1>12. \A n \in head..Len(N) : N[n] # NewestIndex /\ N[n].text # "index"
  <2>1. \A p \in head..Len(N) : p = head \/ p \in head + 1..Len(N)
    BY <1>1, <1>5
  <2>2. NewestIndex.role = "user"
    BY DEF NewestIndex, Msg
  <2>3. N[head].role # "user" /\ N[head].text # "index"
    BY <1>2, <1>5
  <2> HIDE DEF head
  <2> QED BY <1>7, <2>1, <2>2, <2>3
<1>13. Complete(N)
  BY <1>6, <1>11, <1>12, CompleteGrows
<1> QED BY <1>6, <1>13 DEF N, seen, ask
-----------------------------------------------------------------------------
(* The first request *)

(* What the assembler may leave out is no call and no result.              *)
Ordinary == {m \in Messages : Simple(m) /\ m.text # "index"}
Options == [message : Ordinary, priority : Nat, time : Nat]
Rows == [size : Nat, time : Nat]

(* An optional message is one of the first request's units.                *)
LEMMA OptionIs ==
  ASSUME NEW message \in Ordinary, NEW priority \in Nat, NEW time \in Nat
  PROVE  Optional(message, priority, time) \in Options
<1> HIDE DEF Ordinary
<1> QED BY DEF Optional, Options

(* Facts and room logs are ordinary messages.                              *)
LEMMA OrdinaryIs ==
  ASSUME NEW role \in {"user", "assistant"}, NEW text \in {"facts", "room"}, NEW size \in Nat,
         NEW key \in Nat
  PROVE  [Msg(role, text, size) EXCEPT !.key = key] \in Ordinary
<1> DEFINE m == [role |-> role, text |-> text, size |-> size, calls |-> <<>>, key |-> key,
                 receipts |-> <<>>, omitted |-> 0]
<1>1. [Msg(role, text, size) EXCEPT !.key = key] = m
  BY DEF Msg
<1>2. m \in Messages
  <2>1. <<>> \in Seq([id : Nat, data : Nat, cut : BOOLEAN]) /\ <<>> \in Seq(Nat) /\ 0 \in Nat
    OBVIOUS
  <2>2. role \in {"system", "user", "assistant", "tool"} /\ text \in OwnTexts \cup RememberedTexts
    BY Zenon DEF OwnTexts
  <2> QED BY <2>1, <2>2, Zenon DEF Messages
<1>3. m.role # "tool" /\ m.calls = <<>> /\ m.text # "index"
  OBVIOUS
<1> HIDE DEF m
<1>4. m \in Ordinary
  BY <1>2, <1>3 DEF Ordinary, Simple
<1> QED BY <1>1, <1>4

(* Finitely many numbers have a bound.                                     *)
LEMMA BoundExists ==
  ASSUME NEW k \in Nat, NEW f, \A n \in 1..k : f[n] \in Nat
  PROVE  \E top \in Nat : \A n \in 1..k : f[n] <= top
<1> DEFINE Good == {n \in 0..k : \E top \in Nat : \A m \in 1..n : f[m] <= top}
<1>1. 0 \in Good
  OBVIOUS
<1>2. ASSUME NEW n \in 1..k, n - 1 \in Good PROVE n \in Good
  <2>1. PICK top \in Nat : \A m \in 1..n - 1 : f[m] <= top
    BY <1>2
  <2>2. PICK high \in Nat : top <= high /\ f[n] <= high
    <3>1. f[n] \in Nat
      OBVIOUS
    <3>2. CASE f[n] <= top
      BY <3>2
    <3>3. CASE top <= f[n]
      BY <3>1, <3>3
    <3> QED BY <3>1, <3>2, <3>3
  <2>3. \A m \in 1..n : f[m] <= high
    <3> TAKE m \in 1..n
    <3>1. f[m] \in Nat /\ (m \in 1..n - 1 \/ m = n)
      OBVIOUS
    <3> QED BY <2>1, <2>2, <3>1
  <2> QED BY <2>3
<1>3. \A n \in 0..k : n \in Good
  <2> HIDE DEF Good
  <2> QED BY <1>1, <1>2, Climbing
<1>4. k \in Good
  <2>1. k \in 0..k
    OBVIOUS
  <2> HIDE DEF Good
  <2> QED BY <1>3, <2>1
<1> QED BY <1>4

(* Some rows of the room log make a unit.                                  *)
LEMMA RoomUnitIs ==
  ASSUME NEW rows \in Seq(Rows)
  PROVE  RoomUnit(rows) \in Options
<1> DEFINE times == {0} \cup {r.time : r \in Range(rows)}
           sizes == [n \in DOMAIN rows |-> rows[n].size]
<1>1. DOMAIN rows = 1..Len(rows) /\ Len(rows) \in Nat
      /\ \A n \in 1..Len(rows) : rows[n].size \in Nat /\ rows[n].time \in Nat
  <2>1. \A n \in 1..Len(rows) : rows[n] \in Rows
    OBVIOUS
  <2> QED BY <2>1 DEF Rows
<1>2. Max(times) \in Nat
  <2> DEFINE f == [n \in 1..Len(rows) |-> rows[n].time]
  <2>1. PICK top \in Nat : \A n \in 1..Len(rows) : f[n] <= top
    <3>1. \A n \in 1..Len(rows) : f[n] \in Nat
      BY <1>1
    <3> HIDE DEF f
    <3> QED BY <1>1, <3>1, BoundExists
  <2>2. times \in SUBSET (0..top) /\ times # {}
    <3>1. ASSUME NEW x \in times PROVE x \in 0..top
      <4>1. CASE x = 0
        BY <4>1
      <4>2. CASE x # 0
        <5>1. PICK n \in 1..Len(rows) : x = rows[n].time
          BY <1>1, <4>2 DEF Range
        <5> QED BY <1>1, <2>1, <5>1
      <4> QED BY <4>1, <4>2
    <3> QED BY <3>1
  <2> HIDE DEF times
  <2>3. Max(times) \in times
    BY <2>1, <2>2, GreatestIs
  <2>4. Max(times) \in 0..top
    BY <2>2, <2>3
  <2> HIDE DEF f
  <2> QED BY <2>4
<1>3. RowChars(rows) \in Nat
  <2>1. sizes \in Seq(Nat)
    <3>1. sizes = [n \in 1..Len(rows) |-> rows[n].size]
      BY <1>1
    <3>2. [n \in 1..Len(rows) |-> rows[n].size] \in Seq(Nat)
      BY <1>1, IsASeq
    <3> QED BY <3>1, <3>2
  <2> HIDE DEF sizes
  <2>2. Len(sizes) \in Nat /\ \A n \in 1..Len(sizes) : sizes[n] \in Nat
    BY <2>1
  <2>3. Total(sizes) \in Nat
    BY <2>2, TotalIsNat
  <2> QED BY <2>3 DEF RowChars, sizes
<1> DEFINE message == [Msg("user", "room", RowChars(rows)) EXCEPT !.key = Max(times)]
<1>4. message \in Ordinary
  <2>1. "user" \in {"user", "assistant"} /\ "room" \in {"facts", "room"}
    OBVIOUS
  <2> HIDE DEF times
  <2> QED BY <1>2, <1>3, <2>1, OrdinaryIs
<1>5. Optional(message, 80, Max(times)) \in Options
  <2>1. 80 \in Nat
    OBVIOUS
  <2> HIDE DEF message, times
  <2> QED BY <1>2, <1>4, <2>1, OptionIs
<1> QED BY <1>5 DEF RoomUnit

(* The room log is cut into sequences of its rows.                         *)
LEMMA ChunksAre ==
  ASSUME roomLog \in Seq(Rows)
  PROVE  Chunks \in Seq(Seq(Rows))
<1> DEFINE k == Len(roomLog)
           S == Seq(Seq(Rows))
           grown(n, before) ==
               LET open == before[Len(before)]
               IN  IF before = <<>> \/ RowChars(Append(open, roomLog[n])) > ChunkSize
                   THEN Append(before, <<roomLog[n]>>)
                   ELSE [before EXCEPT ![Len(before)] = Append(open, roomLog[n])]
           step == [p \in (1..k) \X S |-> grown(p[1], p[2])]
           Grows(f) == f = [n \in 0..k |-> IF n = 0 THEN <<>> ELSE grown(n, f[n - 1])]
<1>1. k \in Nat /\ \A n \in 1..k : roomLog[n] \in Rows
  OBVIOUS
<1>2. ASSUME NEW n \in 1..k, NEW before \in S PROVE grown(n, before) \in S
  <2> DEFINE row == roomLog[n]
             open == before[Len(before)]
  <2>1. row \in Rows /\ Len(before) \in Nat
    BY <1>1
  <2> HIDE DEF row, k, Rows
  <2>2. <<row>> \in Seq(Rows)
    BY <2>1
  <2>3. Append(before, <<row>>) \in S
    BY <2>2, AppendProperties
  <2>4. ASSUME before # <<>> PROVE [before EXCEPT ![Len(before)] = Append(open, row)] \in S
    <3>1. Len(before) \in 1..Len(before)
      BY <2>1, <2>4, EmptySeq
    <3>2. open \in Seq(Rows)
      BY <3>1, ElementOfSeq
    <3> HIDE DEF open
    <3>3. Append(open, row) \in Seq(Rows)
      BY <2>1, <3>2, AppendProperties
    <3> QED BY <3>1, <3>3, ExceptSeq
  <2> QED BY <2>3, <2>4 DEF row
<1>3. <<>> \in S
  OBVIOUS
<1>4. Chunks = (CHOOSE f : Grows(f))[k]
  BY DEF Chunks
<1> HIDE DEF grown
<1>5. \E f : Grows(f)
  <2>1. step \in [(1..k) \X S -> S]
    <3> HIDE DEF S, k
    <3> QED BY <1>2
  <2>2. PICK f : Unrolls(f, <<>>, k, step)
    <3> HIDE DEF S, step, k
    <3> QED BY <1>1, <1>3, <2>1, RecursionExists, Zenon
  <2>3. \A n \in 0..k : f[n] \in S
    <3>1. ASSUME NEW n \in 1..k, f[n - 1] \in S PROVE f[n] \in S
      <4>1. <<n, f[n - 1]>> \in (1..k) \X S
        BY <3>1
      <4> HIDE DEF S, step
      <4> QED BY <2>1, <2>2, <4>1 DEF Unrolls
    <3>2. f[0] \in S
      BY <1>3, <2>2 DEF Unrolls
    <3> HIDE DEF S, step, k
    <3> QED BY <1>1, <3>1, <3>2, RecursionStays, Zenon
  <2>4. \A n \in 1..k : f[n] = grown(n, f[n - 1])
    <3> TAKE n \in 1..k
    <3>1. f[n - 1] \in S
      <4>1. n - 1 \in 0..k
        OBVIOUS
      <4> HIDE DEF S
      <4> QED BY <2>3, <4>1
    <3>2. f[n] = step[<<n, f[n - 1]>>]
      BY <2>2 DEF Unrolls
    <3> HIDE DEF S
    <3> QED BY <3>1, <3>2
  <2>5. \A n \in 0..k : f[n] = IF n = 0 THEN <<>> ELSE grown(n, f[n - 1])
    <3> TAKE n \in 0..k
    <3>1. n = 0 \/ n \in 1..k
      OBVIOUS
    <3>2. f[0] = <<>>
      BY <2>2 DEF Unrolls
    <3> QED BY <2>4, <3>1, <3>2
  <2>6. f = [n \in 0..k |-> f[n]]
    BY <2>2 DEF Unrolls
  <2> QED BY <2>5, <2>6
<1> DEFINE chunks == CHOOSE f : Grows(f)
<1>6. Grows(chunks)
  BY <1>5
<1> HIDE DEF chunks, S
<1>7. \A n \in 0..k : chunks[n] = IF n = 0 THEN <<>> ELSE grown(n, chunks[n - 1])
  BY <1>6
<1>8. \A n \in 0..k : chunks[n] \in S
  <2>1. ASSUME NEW n \in 1..k, chunks[n - 1] \in S PROVE chunks[n] \in S
    <3>1. n \in 0..k /\ n # 0
      OBVIOUS
    <3> QED BY <1>2, <1>7, <2>1, <3>1
  <2>2. chunks[0] \in S
    BY <1>1, <1>3, <1>7
  <2> HIDE DEF k
  <2> QED BY <1>1, <2>1, <2>2, RecursionStays, Zenon
<1>9. chunks[k] \in S
  BY <1>1, <1>8
<1> QED BY <1>4, <1>9 DEF chunks, S

(* What is remembered is ordinary messages.                                *)
LEMMA HistoryIs ==
  ASSUME history \in Histories
  PROVE  history \in Seq(Messages) /\ \A n \in 1..Len(history) : history[n] \in Ordinary
<1>1. history \in Seq(Range(history))
  BY TurnAssumption
<1>2. Len(history) \in Nat /\ DOMAIN history = 1..Len(history)
  BY <1>1
<1>3. ASSUME NEW n \in 1..Len(history) PROVE history[n] \in Ordinary
  <2> DEFINE m == history[n]
  <2>1. m \in Range(history)
    BY <1>2 DEF Range
  <2>2. /\ m = [role |-> m.role, text |-> m.text, size |-> m.size, calls |-> <<>>,
                key |-> 0, receipts |-> <<>>, omitted |-> 0]
        /\ m.role \in {"system", "user", "assistant"} /\ m.size \in Nat
        /\ m.text # "index"
    <3> HIDE DEF m
    <3> QED BY <2>1, TurnAssumption
  <2>3. m.text \in OwnTexts \cup RememberedTexts
    BY <2>1 DEF RememberedTexts
  <2> DEFINE role == m.role
             text == m.text
             size == m.size
             new == [role |-> role, text |-> text, size |-> size, calls |-> <<>>,
                     key |-> 0, receipts |-> <<>>, omitted |-> 0]
  <2>4. m = new /\ role \in {"system", "user", "assistant", "tool"} /\ size \in Nat /\ role # "tool"
        /\ text \in OwnTexts \cup RememberedTexts /\ text # "index"
    BY <2>2, <2>3
  <2> HIDE DEF role, text, size, m
  <2>5. <<>> \in Seq([id : Nat, data : Nat, cut : BOOLEAN]) /\ <<>> \in Seq(Nat) /\ 0 \in Nat
    OBVIOUS
  <2>6. new \in Messages
    BY <2>4, <2>5, Zenon DEF Messages
  <2>7. new.role = role /\ new.text = text /\ new.calls = <<>>
    OBVIOUS
  <2> HIDE DEF new
  <2>8. new \in Ordinary
    BY <2>4, <2>6, <2>7 DEF Ordinary, Simple
  <2> QED BY <2>4, <2>8 DEF m
<1>4. history \in Seq(Messages)
  <2>1. \A n \in 1..Len(history) : history[n] \in Messages
    BY <1>3 DEF Ordinary
  <2>2. history = [n \in 1..Len(history) |-> history[n]]
    BY <1>1, <1>2
  <2>3. [n \in 1..Len(history) |-> history[n]] \in Seq(Messages)
    <3> HIDE DEF Messages
    <3> QED BY <1>2, <2>1, IsASeq
  <2> QED BY <2>2, <2>3
<1> QED BY <1>3, <1>4

(* All units of the first request are made of such messages.               *)
LEMMA FirstUnitsAre ==
  ASSUME history \in Histories, roomLog \in RoomLogs
  PROVE  FirstUnits \in Seq(Options)
<1>1. HistoryUnits \in Seq(Options)
  <2> DEFINE at == {n \in DOMAIN history :
                      history[n].text # "evidence" /\ history[n].role # "system"}
             shown == Pick(history, at)
  <2>1. history \in Seq(Messages) /\ \A n \in 1..Len(history) : history[n] \in Ordinary
    BY HistoryIs
  <2>2. at \in SUBSET (1..Len(history))
    BY <2>1
  <2> HIDE DEF at
  <2>3. PICK o : /\ Orders(o, at, Len(history)) /\ shown \in Seq(Messages)
                 /\ Len(shown) = Len(o)
                 /\ \A n \in 1..Len(o) : shown[n] = history[o[n]]
    BY <2>1, <2>2, PickIs
  <2> HIDE DEF shown
  <2>4. \A n \in 1..Len(shown) : shown[n] \in Ordinary
    <3>1. \A n \in 1..Len(o) : o[n] \in 1..Len(history)
      <4>1. o \in Seq(1..Len(history))
        BY <2>3 DEF Orders
      <4> QED BY <4>1
    <3> QED BY <2>1, <2>3, <3>1
  <2>5. HistoryUnits = [n \in 1..Len(shown) |-> Optional(shown[n], 50, 0)] /\ Len(shown) \in Nat
    BY <2>3 DEF HistoryUnits, shown, at
  <2>6. \A n \in 1..Len(shown) : Optional(shown[n], 50, 0) \in Options
    BY <2>4, OptionIs
  <2>7. [n \in 1..Len(shown) |-> Optional(shown[n], 50, 0)] \in Seq(Options)
    <3> HIDE DEF Options
    <3> QED BY <2>5, <2>6, IsASeq
  <2> QED BY <2>5, <2>7
<1>2. EvidenceUnits \in Seq(Options)
  <2>1. Msg("user", "facts", 1) \in Ordinary
    <3>1. [Msg("user", "facts", 1) EXCEPT !.key = 0] = Msg("user", "facts", 1)
      BY DEF Msg
    <3>2. /\ "user" \in {"user", "assistant"} /\ "facts" \in {"facts", "room"}
          /\ 1 \in Nat /\ 0 \in Nat
      OBVIOUS
    <3>3. [Msg("user", "facts", 1) EXCEPT !.key = 0] \in Ordinary
      BY <3>2, OrdinaryIs
    <3> QED BY <3>1, <3>3
  <2>2. Optional(Msg("user", "facts", 1), 70, 1) \in Options
    <3>1. 70 \in Nat /\ 1 \in Nat
      OBVIOUS
    <3> QED BY <2>1, <3>1, OptionIs
  <2> HIDE DEF Options
  <2> QED BY <2>2 DEF EvidenceUnits
<1>3. RoomUnits \in Seq(Options)
  <2>1. Chunks \in Seq(Seq(Rows))
    <3>1. roomLog \in Seq(Rows)
      BY TurnAssumption DEF Rows
    <3> QED BY <3>1, ChunksAre
  <2> DEFINE c == Chunks
  <2>2. RoomUnits = [n \in 1..Len(c) |-> RoomUnit(c[n])] /\ Len(c) \in Nat
    BY <2>1 DEF RoomUnits
  <2>3. c \in Seq(Seq(Rows))
    BY <2>1
  <2> HIDE DEF c, Options, Rows
  <2>4. \A n \in 1..Len(c) : RoomUnit(c[n]) \in Options
    <3>1. \A n \in 1..Len(c) : c[n] \in Seq(Rows)
      BY <2>3, ElementOfSeq
    <3> QED BY <3>1, RoomUnitIs
  <2>5. [n \in 1..Len(c) |-> RoomUnit(c[n])] \in Seq(Options)
    BY <2>2, <2>4, IsASeq
  <2> QED BY <2>2, <2>5
<1> HIDE DEF Options
<1>4. EvidenceUnits \o RoomUnits \in Seq(Options)
  BY <1>2, <1>3, ConcatProperties
<1>5. (IF public THEN EvidenceUnits \o RoomUnits ELSE <<>>) \in Seq(Options)
  BY <1>4, EmptySeq
<1>6. HistoryUnits \o (IF public THEN EvidenceUnits \o RoomUnits ELSE <<>>) \in Seq(Options)
  BY <1>1, <1>5, ConcatProperties
<1> QED BY <1>6 DEF FirstUnits

(* The first request is complete, and the transcript starts with it.       *)
LEMMA FirstIsProper ==
  ASSUME history \in Histories, roomLog \in RoomLogs, budget \in Budgets
  PROVE  \/ FirstRequest = NoRequest
         \/ FirstRequest.ok /\ Complete(FirstRequest.messages)
            /\ Proper(FirstRequest, FirstRequest.messages, <<>>)
<1> DEFINE units == FirstUnits
           k == Len(units)
           shown == [n \in DOMAIN units |-> units[n].message]
           M == <<Policy>> \o shown \o <<NewestIndex>>
           optional == {Unit(n + 1, {n + 1}, units[n].priority, units[n].time) : n \in DOMAIN units}
           limit == RequestLimit(public)
           F == Fit(M, optional, <<>>, <<>>, limit)
<1>1. units \in Seq(Options) /\ k \in Nat /\ DOMAIN units = 1..k
  BY FirstUnitsAre
<1>2. ASSUME NEW n \in 1..k PROVE units[n].message \in Ordinary
  <2>1. units[n] \in Options
    BY <1>1, ElementOfSeq
  <2> HIDE DEF Ordinary, units
  <2> QED BY <2>1 DEF Options
<1>3. FirstRequest = F
  BY DEF FirstRequest
<1> HIDE DEF units
<1>4. /\ Policy \in Messages /\ NewestIndex \in Messages /\ Simple(Policy) /\ Simple(NewestIndex)
      /\ Policy.text # "index" /\ NewestIndex.text # "index"
  <2>1. /\ {"system", "user"} \subseteq {"system", "user", "assistant", "tool"}
        /\ {"policy", "request"} \subseteq OwnTexts \cup RememberedTexts
    BY Zenon DEF OwnTexts
  <2>2. 1 \in Nat
    OBVIOUS
  <2>3. Policy \in Messages /\ NewestIndex \in Messages
    BY <2>1, <2>2, WrittenIs DEF Policy, NewestIndex
  <2> QED BY <2>3 DEF Policy, NewestIndex, Msg, Simple
<1>5. Policy \in Ordinary /\ NewestIndex \in Ordinary
  BY <1>4 DEF Ordinary
<1>6. /\ M \in Seq(Ordinary) /\ Len(M) = k + 2 /\ M[1] = Policy /\ M[k + 2] = NewestIndex
  <2> DEFINE p == <<Policy>>
             q == <<NewestIndex>>
             u == p \o shown
  <2>1. /\ p \in Seq(Ordinary) /\ Len(p) = 1 /\ p[1] = Policy
        /\ q \in Seq(Ordinary) /\ Len(q) = 1 /\ q[1] = NewestIndex
    <3> HIDE DEF Ordinary
    <3> QED BY <1>5
  <2>2. shown \in Seq(Ordinary) /\ Len(shown) = k
    <3>1. shown = [n \in 1..k |-> units[n].message]
      BY <1>1
    <3>2. [n \in 1..k |-> units[n].message] \in Seq(Ordinary)
      <4> HIDE DEF Ordinary, k
      <4> QED BY <1>1, <1>2, IsASeq
    <3> HIDE DEF shown
    <3> QED BY <1>1, <3>1, <3>2
  <2> HIDE DEF p, q, shown, Ordinary
  <2>3. Follows(u, p, shown, Ordinary)
    BY <2>1, <2>2, TwoParts
  <2>4. u \in Seq(Ordinary) /\ Len(u) = k + 1 /\ u[1] = Policy
    <3>1. 1 \in 1..Len(p)
      BY <2>1
    <3>2. Len(u) = 1 + k
      BY <2>1, <2>2, <2>3 DEF Follows
    <3> QED BY <1>1, <2>1, <2>3, <3>1, <3>2 DEF Follows
  <2> HIDE DEF u
  <2>5. Follows(u \o q, u, q, Ordinary)
    BY <2>1, <2>4, TwoParts
  <2>6. M = u \o q
    BY DEF u, p, q
  <2> HIDE DEF M
  <2>7. /\ M \in Seq(Ordinary) /\ Len(M) = k + 1 + 1 /\ M[1] = Policy
        /\ M[k + 1 + 1] = NewestIndex
    <3>1. 1 \in 1..Len(u) /\ 1 \in 1..Len(q)
      BY <1>1, <2>1, <2>4
    <3> QED BY <2>1, <2>4, <2>5, <2>6, <3>1 DEF Follows
  <2>8. k + 1 + 1 = k + 2
    BY <1>1
  <2> QED BY <2>7, <2>8
<1> HIDE DEF M
<1>7. M \in Seq(Messages) /\ \A n \in 1..Len(M) : Simple(M[n]) /\ M[n].text # "index"
  <2>1. \A n \in 1..Len(M) : M[n] \in Ordinary
    BY <1>6, ElementOfSeq
  <2>2. M = [n \in 1..Len(M) |-> M[n]] /\ Len(M) \in Nat
    BY <1>6
  <2>3. \A n \in 1..Len(M) : M[n] \in Messages
    BY <2>1 DEF Ordinary
  <2>4. [n \in 1..Len(M) |-> M[n]] \in Seq(Messages)
    <3> HIDE DEF Messages
    <3> QED BY <2>2, <2>3, IsASeq
  <2> QED BY <2>1, <2>2, <2>4 DEF Ordinary
<1>8. Ready(M)
  <2>1. 1 \in 1..Len(M) /\ k + 2 \in 1..Len(M)
    BY <1>1, <1>6
  <2> QED BY <1>6, <1>7, <2>1 DEF Ready
<1>9. GoodUnits(M, optional)
  <2> DEFINE f == [n \in 1..k |-> Unit(n + 1, {n + 1}, units[n].priority, units[n].time)]
  <2>1. optional = {f[n] : n \in 1..k}
    BY <1>1
  <2>2. IsFiniteSet(1..k)
    BY <1>1, FS_Interval
  <2>3. IsFiniteSet(optional)
    <3> HIDE DEF f, optional
    <3> QED BY <2>1, <2>2, ImageIsFinite
  <2>4. ASSUME NEW u \in optional PROVE u.at \subseteq 1..Len(M) /\ Closed(M, u.at)
    <3>1. PICK n \in 1..k : u = Unit(n + 1, {n + 1}, units[n].priority, units[n].time)
      BY <1>1
    <3>2. u.at = {n + 1} /\ n + 1 \in 1..Len(M)
      BY <1>1, <1>6, <3>1 DEF Unit
    <3> QED BY <1>7, <3>2 DEF Closed, Simple
  <2> HIDE DEF optional
  <2> QED BY <2>3, <2>4 DEF GoodUnits
<1>10. limit \in Int
  BY TurnAssumption DEF RequestLimit
<1> HIDE DEF optional, limit
<1>11. ASSUME F # NoRequest
       PROVE  F.ok /\ Complete(F.messages) /\ Proper(F, F.messages, <<>>)
  <2> DEFINE none == <<>>
  <2>1. none \in Seq(StoredResults) /\ none \in Seq(Messages)
    OBVIOUS
  <2>2. PICK kept, bytes : Fitted(F, M, optional, none, none, limit, kept, bytes)
    <3>1. Fit(M, optional, none, none, limit) # NoRequest
      BY <1>11
    <3>2. \E kept, bytes : Fitted(Fit(M, optional, none, none, limit), M, optional, none, none, limit, kept, bytes)
      <4> HIDE DEF none
      <4> QED BY <1>8, <1>9, <1>10, <2>1, <3>1, FitCuts
    <3> QED BY <3>2
  <2> DEFINE at == KeptAt(M, kept)
             newest == RequestAt(M)
             W == Laid(M, at, newest, none, none)
  <2>3. kept \in SUBSET optional /\ F.messages = W /\ F.chars <= F.limit
    BY <2>2 DEF Fitted, IndexIfAny
  <2>4. at \in SUBSET (1..Len(M)) /\ newest \in Nat
    BY <1>8, <1>9, <2>3, KeptIsClosed, RequiredIs
  <2>5. newest \in at /\ PolicyAt(M) \in at /\ M[newest] = NewestIndex /\ M[PolicyAt(M)] = Policy
    BY <1>8, RequiredIs DEF KeptAt, Required
  <2> HIDE DEF at, newest
  <2>6. PICK a, b : Spread(W, M, at, newest, none, none, a, b)
    <3> HIDE DEF none
    <3> QED BY <1>7, <2>1, <2>4, LaidSpreads
  <2> HIDE DEF W
  <2>7. W \in Seq(Messages) /\ Len(W) \in Nat /\ DOMAIN W = 1..Len(W)
    BY <2>6 DEF Spread
  <2>8. \A p \in at : M[p] \in Range(W)
    <3> HIDE DEF none
    <3> QED BY <1>7, <2>1, <2>4, <2>6, LaidShows
  <2>9. ASSUME NEW n \in 1..Len(W) PROVE Simple(W[n]) /\ W[n].text # "index"
    <3>1. /\ Len(a) \in Nat /\ Len(b) \in Nat
          /\ \A i \in 1..Len(a) : a[i] \in 1..Len(M)
          /\ \A i \in 1..Len(b) : b[i] \in 1..Len(M)
      <4>1. a \in Seq(1..Len(M)) /\ b \in Seq(1..Len(M))
        BY <2>6 DEF Spread, Orders
      <4> QED BY <4>1
    <3>2. /\ Len(W) = Len(a) + Len(b)
          /\ \A i \in 1..Len(a) : W[i] = M[a[i]]
          /\ \A i \in 1..Len(b) : W[Len(a) + i] = M[b[i]]
      <4>1. Len(none) = 0
        OBVIOUS
      <4> HIDE DEF none
      <4>2. /\ Len(W) = Len(a) + 0 + Len(b) + 0
            /\ \A i \in 1..Len(a) : W[i] = M[a[i]]
            /\ \A i \in 1..Len(b) : W[Len(a) + 0 + i] = M[b[i]]
        BY <2>6, <4>1 DEF Spread
      <4>3. Len(a) + 0 = Len(a) /\ Len(a) + Len(b) + 0 = Len(a) + Len(b)
        BY <3>1
      <4> QED BY <4>2, <4>3
    <3>3. CASE n \in 1..Len(a)
      BY <1>7, <3>1, <3>2, <3>3
    <3>4. CASE n - Len(a) \in 1..Len(b)
      <4>1. Len(a) + (n - Len(a)) = n
        BY <3>1
      <4>2. W[Len(a) + (n - Len(a))] = M[b[n - Len(a)]]
        BY <3>2, <3>4
      <4> QED BY <1>7, <3>1, <3>4, <4>1, <4>2
    <3>5. n \in 1..Len(a) \/ n - Len(a) \in 1..Len(b)
      BY <3>1, <3>2
    <3> QED BY <3>3, <3>4, <3>5
  <2>10. Ready(W)
    <3>1. Policy \in Range(W) /\ NewestIndex \in Range(W)
      BY <2>5, <2>8
    <3>2. (\E n \in 1..Len(W) : W[n] = Policy) /\ (\E n \in 1..Len(W) : W[n] = NewestIndex)
      BY <2>7, <3>1 DEF Range
    <3> QED BY <2>7, <2>9, <3>2 DEF Ready
  <2>11. Closed(W, 1..Len(W))
    BY <2>9 DEF Closed, Simple
  <2>12. Together(W, W)
    BY <2>7, <2>9 DEF Together, Simple
  <2>13. F.ok
    BY <1>11 DEF Fit, Assembled
  <2> HIDE DEF F
  <2>14. Complete(F.messages) /\ Proper(F, F.messages, <<>>)
    BY <2>3, <2>7, <2>10, <2>11, <2>12 DEF Complete, Proper
  <2> QED BY <2>13, <2>14
<1> QED BY <1>3, <1>11
-----------------------------------------------------------------------------
(* Results and pages of results *)

(* The smallest of three numbers is none of the larger ones.               *)
LEMMA LeastOfThree ==
  ASSUME NEW a \in Int, NEW b \in Int, NEW c \in Int
  PROVE  /\ Min({a, b, c}) \in Int
         /\ Min({a, b, c}) <= a
<1>1. \E x \in {a, b, c} : \A y \in {a, b, c} : x <= y
  <2>1. CASE a <= b /\ a <= c
    BY <2>1
  <2>2. CASE b <= a /\ b <= c
    BY <2>2
  <2>3. CASE c <= a /\ c <= b
    BY <2>3
  <2> QED BY <2>1, <2>2, <2>3
<1>2. Min({a, b, c}) \in {a, b, c} /\ \A y \in {a, b, c} : Min({a, b, c}) <= y
  BY <1>1, Zenon DEF Min
<1> QED BY <1>2

(* Every page is of a result that is kept.                                 *)
Paged(results) == \A r \in Range(results) : r.page.of # 0 =>
    \E o \in Range(results) : PageOf(r, o)

(* What is stored of a call is a result with its identity.                 *)
LEMMA StoredIs ==
  ASSUME NEW ask \in Calls, ask.id # 0, NEW size \in Nat,
         NEW page \in [of : Nat, from : Nat, next : Nat, chars : Nat, done : BOOLEAN]
  PROVE  /\ Stored(ask, size, page) \in StoredResults
         /\ Stored(ask, size, page).id = ask.id /\ Stored(ask, size, page).page = page
<1>1. ask.id \in Nat \ {0} /\ ask.meta \in Nat
  BY DEF Calls
<1> QED BY <1>1 DEF Stored, StoredResults

(* A page that is read is one of the result it names.                      *)
LEMMA ReadIs ==
  ASSUME NEW ask \in Calls, ask.id # 0, NEW o \in StoredResults
  PROVE  /\ Read(ask, o) \in StoredResults /\ Read(ask, o).id = ask.id
         /\ Read(ask, o).page.of # 0 => PageOf(Read(ask, o), o)
<1> DEFINE chars == PageChars(ask, o)
           next == ask.at + chars
           page == [of |-> o.id, from |-> ask.at, next |-> next, chars |-> chars,
                    done |-> next = o.size]
           none == Stored(ask, 1, NoPage)
<1>1. ask.at \in Nat /\ o.size \in Nat /\ o.meta \in Nat /\ o.id \in Nat
  BY DEF Calls, StoredResults
<1>2. none \in StoredResults /\ none.id = ask.id /\ none.page.of = 0
  <2>1. NoPage \in [of : Nat, from : Nat, next : Nat, chars : Nat, done : BOOLEAN]
    BY DEF NoPage
  <2>2. 1 \in Nat /\ NoPage.of = 0
    BY DEF NoPage
  <2> QED BY <2>1, <2>2, StoredIs
<1>3. chars \in Int
  <2>1. PageLimit \in Nat /\ PageBudget \in Nat
    BY TurnAssumption
  <2>2. o.size - ask.at \in Int /\ PageBudget - o.meta \in Int /\ PageLimit \in Int
    BY <1>1, <2>1
  <2> QED BY <2>2, LeastOfThree DEF PageChars
<1> HIDE DEF none, chars
<1>4. CASE ask.at > o.size \/ chars < Min({1, o.size - ask.at})
  <2>1. Read(ask, o) = none
    BY <1>4 DEF Read, Refused, none, chars
  <2> QED BY <1>2, <2>1
<1>5. CASE ~(ask.at > o.size \/ chars < Min({1, o.size - ask.at}))
  <2>1. Read(ask, o) = Stored(ask, chars, page)
    BY <1>5 DEF Read, chars
  <2>2. Min({1, o.size - ask.at}) = IF 1 <= o.size - ask.at THEN 1 ELSE o.size - ask.at
    <3>1. o.size - ask.at \in Int /\ 1 \in Int
      BY <1>1
    <3> QED BY <3>1, LeastOfTwo
  <2>3. chars \in Nat /\ (ask.at < o.size => chars > 0)
    BY <1>1, <1>3, <1>5, <2>2
  <2>4. next \in Nat
    BY <1>1, <2>3
  <2> DEFINE done == next = o.size
  <2>5. done \in BOOLEAN
    OBVIOUS
  <2>6. page = [of |-> o.id, from |-> ask.at, next |-> next, chars |-> chars, done |-> done]
    OBVIOUS
  <2> HIDE DEF next, page, done
  <2>7. page \in [of : Nat, from : Nat, next : Nat, chars : Nat, done : BOOLEAN]
    BY <1>1, <2>3, <2>4, <2>5, <2>6, Zenon
  <2>8. /\ Stored(ask, chars, page) \in StoredResults
        /\ Stored(ask, chars, page).id = ask.id /\ Stored(ask, chars, page).page = page
    BY <2>3, <2>7, StoredIs
  <2>9. /\ page.of = o.id /\ page.from = ask.at /\ page.next = next /\ page.chars = chars
        /\ page.done = done
    BY <2>6
  <2>10. page.done <=> page.next = o.size
    BY <2>9 DEF done
  <2>11. page.next = page.from + page.chars /\ (page.from < o.size => page.chars > 0)
    BY <2>3, <2>9 DEF next
  <2>12. PageOf(Stored(ask, chars, page), o)
    BY <2>8, <2>9, <2>10, <2>11, Zenon DEF PageOf
  <2> QED BY <2>1, <2>8, <2>12
<1> QED BY <1>4, <1>5

(* The result of a call is the call's, and a page of a retained one.       *)
LEMMA ResultIs ==
  ASSUME retained \in Seq(StoredResults), NEW ask \in Calls, ask.id # 0,
         NEW admitted \in BOOLEAN, NEW r \in Results(ask, admitted)
  PROVE  /\ r \in StoredResults /\ r.id = ask.id
         /\ r.page.of # 0 => \E o \in Range(retained) : PageOf(r, o)
<1>1. NoPage \in [of : Nat, from : Nat, next : Nat, chars : Nat, done : BOOLEAN] /\ NoPage.of = 0
  BY DEF NoPage
<1>2. \A size \in Nat : /\ Stored(ask, size, NoPage) \in StoredResults
                        /\ Stored(ask, size, NoPage).id = ask.id
                        /\ Stored(ask, size, NoPage).page.of = 0
  BY <1>1, StoredIs
<1>3. CASE r = Refused(ask)
  BY <1>2, <1>3 DEF Refused
<1>4. CASE \E size \in ResultSizes : r = Stored(ask, size, NoPage)
  BY <1>2, <1>4, TurnAssumption
<1>5. CASE \E o \in Range(retained) : r = Read(ask, o)
  <2>1. PICK o \in Range(retained) : r = Read(ask, o)
    BY <1>5
  <2>2. o \in StoredResults
    BY DEF Range
  <2> QED BY <2>1, <2>2, ReadIs
<1>6. \/ r = Refused(ask) \/ \E size \in ResultSizes : r = Stored(ask, size, NoPage)
      \/ \E o \in Range(retained) : r = Read(ask, o)
  BY DEF Results
<1> QED BY <1>3, <1>4, <1>5, <1>6

(* The store after a batch: every result is of its call, and pages are of  *)
(* what was kept before.                                                   *)
LEMMA StoreGrows ==
  ASSUME retained \in Seq(StoredResults), Paged(retained), NEW batch \in Seq(Calls),
         \A n \in 1..Len(batch) : batch[n].id # 0,
         NEW admitted \in BOOLEAN, NEW results, DOMAIN results = 1..Len(batch),
         results = [n \in 1..Len(batch) |-> results[n]],
         \A n \in 1..Len(batch) : results[n] \in Results(batch[n], admitted)
  PROVE  /\ results \in Seq(StoredResults) /\ Len(results) = Len(batch)
         /\ \A n \in 1..Len(batch) : results[n].id = batch[n].id
         /\ retained \o results \in Seq(StoredResults) /\ Paged(retained \o results)
<1>1. ASSUME NEW n \in 1..Len(batch)
      PROVE  /\ results[n] \in StoredResults /\ results[n].id = batch[n].id
             /\ results[n].page.of # 0 => \E o \in Range(retained) : PageOf(results[n], o)
  <2>1. batch[n] \in Calls /\ batch[n].id # 0
    OBVIOUS
  <2> QED BY <2>1, ResultIs
<1>2. Len(batch) \in Nat
  OBVIOUS
<1> HIDE DEF StoredResults
<1>3. [n \in 1..Len(batch) |-> results[n]] \in Seq(StoredResults)
  BY <1>1, <1>2, IsASeq
<1>4. results \in Seq(StoredResults) /\ Len(results) = Len(batch)
  BY <1>2, <1>3
<1> DEFINE store == retained \o results
<1>5. Follows(store, retained, results, StoredResults)
  BY <1>4, TwoParts
<1> HIDE DEF store
<1>6. /\ store \in Seq(StoredResults) /\ Len(retained) \in Nat /\ Len(results) \in Nat
      /\ Len(store) = Len(retained) + Len(results)
      /\ \A n \in 1..Len(retained) : store[n] = retained[n]
      /\ \A n \in 1..Len(results) : store[Len(retained) + n] = results[n]
  <2>1. Len(retained) \in Nat /\ Len(results) \in Nat
    BY <1>4
  <2> QED BY <1>5, <2>1 DEF Follows
<1>7. Range(retained) \subseteq Range(store)
  <2>1. \A n \in 1..Len(retained) : n \in 1..Len(store)
    BY <1>6
  <2>2. DOMAIN retained = 1..Len(retained) /\ DOMAIN store = 1..Len(store)
    BY <1>6
  <2> QED BY <1>6, <2>1, <2>2 DEF Range
<1>8. ASSUME NEW r \in Range(store), r.page.of # 0 PROVE \E o \in Range(store) : PageOf(r, o)
  <2>1. PICK n \in 1..Len(store) : r = store[n]
    BY <1>6 DEF Range
  <2>2. CASE n \in 1..Len(retained)
    <3>1. r \in Range(retained)
      BY <1>6, <2>1, <2>2 DEF Range
    <3> QED BY <1>7, <1>8, <3>1 DEF Paged
  <2>3. CASE n - Len(retained) \in 1..Len(results)
    <3>1. Len(retained) + (n - Len(retained)) = n
      BY <1>6
    <3>2. r = results[n - Len(retained)]
      BY <1>6, <2>1, <2>3, <3>1
    <3>3. \E o \in Range(retained) : PageOf(r, o)
      BY <1>1, <1>4, <1>8, <2>3, <3>2
    <3> QED BY <1>7, <3>3
  <2>4. n \in 1..Len(retained) \/ n - Len(retained) \in 1..Len(results)
    BY <1>6
  <2> QED BY <2>2, <2>3, <2>4
<1> QED BY <1>1, <1>4, <1>6, <1>8 DEF Paged, store
-----------------------------------------------------------------------------
(* The invariant *)

ContextInv ==
    /\ ContextTypeOK
    /\ history \in Histories /\ roomLog \in RoomLogs /\ budget \in Budgets
    /\ contextStage = "new" => transcript = <<>> /\ retained = <<>>
    /\ contextStage = "asked" =>
         /\ Complete(transcript) /\ request.chars <= request.limit
         /\ retained # <<>> => Tells(request.messages, transcript, retained)
    /\ Together(request.messages, transcript)
    /\ Paged(retained)

(* The invariant has the property as its parts.                            *)
LEMMA ContextInvSuffices == ContextInv => TranscriptIsSound
<1> SUFFICES ASSUME ContextInv PROVE TranscriptIsSound
  OBVIOUS
<1>1. ContextTypeOK
  BY DEF ContextInv
<1>2. ReceiptsReachTheModel
  <2>1. contextStage = "asked" /\ retained # <<>> => Tells(request.messages, transcript, retained)
    BY DEF ContextInv
  <2> QED BY <2>1 DEF ReceiptsReachTheModel, Tells, Indices, Shown
<1>3. PairsStayTogether
  BY DEF ContextInv, Together, PairsStayTogether, Shown
<1>4. BudgetIsKept
  BY DEF ContextInv, BudgetIsKept
<1>5. PagesAreContiguous
  BY DEF ContextInv, PagesAreContiguous, Paged
<1> QED BY <1>1, <1>2, <1>3, <1>4, <1>5 DEF TranscriptIsSound

(* Before the first request nothing is shown.                              *)
LEMMA NoRequestIs == NoRequest.messages = <<>> /\ ~NoRequest.ok
  BY DEF NoRequest

(* Of nothing, nothing is torn apart.                                      *)
LEMMA EmptyIsTogether == ASSUME NEW M PROVE Together(<<>>, M)
  BY DEF Together

(* A turn begins with the invariant.                                       *)
LEMMA ContextStart == ContextInit => ContextInv
<1> SUFFICES ASSUME ContextInit PROVE ContextInv
  OBVIOUS
<1>1. request.messages = <<>>
  BY NoRequestIs DEF ContextInit
<1>2. MaxTurnSteps \in Nat /\ MaxTurnCalls \in Nat
  BY TurnAssumption
<1>3. ContextTypeOK
  <2>1. <<>> \in Seq(Messages) /\ <<>> \in Seq(StoredResults)
    OBVIOUS
  <2>2. 0 \in 0..MaxTurnSteps /\ 0 \in 0..MaxTurnCalls
    BY <1>2
  <2>3. {public, corrected, terminal} \subseteq BOOLEAN
    BY DEF ContextInit
  <2> QED BY <1>1, <2>1, <2>2, <2>3 DEF ContextInit, ContextTypeOK
<1>4. Together(request.messages, transcript)
  BY <1>1, EmptyIsTogether
<1>5. Paged(retained)
  BY DEF ContextInit, Paged, Range
<1> QED BY <1>3, <1>4, <1>5 DEF ContextInit, ContextInv

(* A transcript has grown from itself,                                     *)
LEMMA GrownSame == ASSUME NEW M \in Seq(Messages) PROVE Grown(M, M)
<1>1. Len(M) \in Nat
  OBVIOUS
<1> QED BY <1>1 DEF Grown

(* and from what the one it has grown from has grown from.                 *)
LEMMA GrownTwice ==
  ASSUME NEW M, NEW N, NEW P, Grown(N, M), Grown(P, N)
  PROVE  Grown(P, M)
<1>1. /\ M \in Seq(Messages) /\ P \in Seq(Messages)
      /\ Len(M) \in Nat /\ Len(N) \in Nat /\ Len(P) \in Nat
      /\ Len(M) <= Len(N) /\ Len(N) <= Len(P)
      /\ \A n \in 1..Len(M) : N[n] = M[n]
      /\ \A n \in 1..Len(N) : P[n] = N[n]
  BY DEF Grown
<1>2. \A n \in 1..Len(M) : n \in 1..Len(N)
  BY <1>1
<1>3. ASSUME Len(M) < Len(P) PROVE P[Len(M) + 1].role # "tool"
  <2>1. CASE Len(M) < Len(N)
    <3>1. Len(M) + 1 \in 1..Len(N) /\ N[Len(M) + 1].role # "tool"
      BY <1>1, <2>1 DEF Grown
    <3> QED BY <1>1, <3>1
  <2>2. CASE Len(M) = Len(N)
    <3>1. P[Len(N) + 1].role # "tool"
      BY <1>3, <2>2 DEF Grown
    <3> QED BY <2>2, <3>1
  <2> QED BY <1>1, <2>1, <2>2
<1>4. \A n \in 1..Len(M) : P[n] = M[n]
  BY <1>1, <1>2
<1> QED BY <1>1, <1>3, <1>4 DEF Grown

(* A failure leaves a transcript that may have grown.                      *)
LEMMA FailingKeeps ==
  ASSUME ContextInv, NEW M, Grown(M, transcript), NEW results \in Seq(StoredResults),
         Paged(results), FailWith(M, results), UNCHANGED callsTaken
  PROVE  ContextInv'
<1>1. /\ contextStage' = "failed" /\ transcript' = M /\ retained' = results
      /\ UNCHANGED <<public, history, roomLog, budget, request, corrected, terminal, stepsTaken>>
  BY DEF FailWith, turnInput
<1>2. Together(request.messages, M)
  BY TogetherStays DEF ContextInv
<1>3. ContextTypeOK'
  <2>1. M \in Seq(Messages)
    BY DEF Grown
  <2> QED BY <1>1, <2>1 DEF ContextInv, ContextTypeOK
<1> QED BY <1>1, <1>2, <1>3 DEF ContextInv

(* A projection that succeeds shows a proper request, or the turn fails.   *)
LEMMA AskingKeeps ==
  ASSUME ContextInv, NEW M, Complete(M), Grown(M, transcript), NEW results \in Seq(StoredResults),
         Paged(results), NEW feedback \in {<<>>, <<Correction>>}, AskAgain(M, results, feedback),
         callsTaken' \in 0..MaxTurnCalls, corrected' \in BOOLEAN
  PROVE  ContextInv'
<1> DEFINE over == terminal \/ callsTaken' = MaxTurnCalls \/ ~public \/ stepsTaken = MaxTurnSteps
           required == feedback \o <<Status>>
           limit == RequestLimit(~over)
           next == ProjectTurn(M, results, required, limit)
<1>1. /\ transcript' = M /\ retained' = results
      /\ terminal' = over /\ stepsTaken' = IF over THEN stepsTaken ELSE stepsTaken + 1
      /\ request' = IF next.ok THEN next ELSE request
      /\ contextStage' = IF next.ok THEN "asked" ELSE "failed"
      /\ UNCHANGED <<public, history, roomLog, budget>>
  BY DEF AskAgain, turnInput
<1>2. required \in {<<Status>>, <<Correction, Status>>}
  <2> DEFINE s == Status
             c == Correction
  <2>1. <<>> \o <<s>> = <<s>> /\ <<c>> \o <<s>> = <<c, s>>
    <3> HIDE DEF s, c
    <3> DEFINE S == {c, s}
    <3>1. /\ <<>> \in Seq(S) /\ <<s>> \in Seq(S) /\ <<c>> \in Seq(S) /\ <<c, s>> \in Seq(S)
          /\ Len(<<>>) = 0 /\ Len(<<s>>) = 1 /\ Len(<<c>>) = 1 /\ Len(<<c, s>>) = 2
      OBVIOUS
    <3>2. Len(<<c>> \o <<s>>) = 2 /\ (<<c>> \o <<s>>)[1] = c /\ (<<c>> \o <<s>>)[2] = s
      OBVIOUS
    <3>3. <<>> \o <<s>> = <<s>>
      BY <3>1, ConcatEmptySeq
    <3>4. <<c>> \o <<s>> \in Seq(S)
      BY <3>1, ConcatProperties
    <3>5. \A n \in 1..2 : (<<c>> \o <<s>>)[n] = <<c, s>>[n]
      BY <3>2
    <3>6. <<c>> \o <<s>> = <<c, s>>
      BY <3>1, <3>2, <3>4, <3>5, SeqEqual
    <3> QED BY <3>3, <3>6
  <2> QED BY <2>1
<1>3. limit \in Int
  BY TurnAssumption DEF RequestLimit, ContextInv
<1> HIDE DEF required, limit
<1>4. next.ok => Proper(next, M, results)
  <2>1. next.ok => next # NoRequest
    BY NoRequestIs
  <2> QED BY <1>2, <1>3, <2>1, ProjectionIsProper
<1>5. M \in Seq(Messages) /\ Together(request.messages, M)
  BY TogetherStays DEF ContextInv, Grown
<1> HIDE DEF next
<1>6. request'.messages \in Seq(Messages) /\ Together(request'.messages, M)
  <2>1. CASE next.ok
    BY <1>1, <1>4, <2>1 DEF Proper
  <2>2. CASE ~next.ok
    BY <1>1, <1>5, <2>2 DEF ContextInv, ContextTypeOK
  <2> QED BY <2>1, <2>2
<1>7. contextStage' = "asked" =>
        /\ request'.chars <= request'.limit
        /\ results # <<>> => Tells(request'.messages, M, results)
  BY <1>1, <1>4 DEF Proper
<1>8. stepsTaken' \in 0..MaxTurnSteps
  <2>1. stepsTaken \in 0..MaxTurnSteps /\ MaxTurnSteps \in Nat
    BY TurnAssumption DEF ContextInv, ContextTypeOK
  <2>2. ~over => stepsTaken # MaxTurnSteps
    OBVIOUS
  <2> HIDE DEF over
  <2> QED BY <1>1, <2>1, <2>2
<1>9. terminal' \in BOOLEAN
  BY <1>1
<1>10. contextStage' \in {"asked", "failed"}
  BY <1>1
<1> HIDE DEF over
<1>11. ContextTypeOK'
  <2>1. public' \in BOOLEAN
    BY <1>1 DEF ContextInv, ContextTypeOK
  <2> QED BY <1>1, <1>5, <1>6, <1>8, <1>9, <1>10, <2>1 DEF ContextTypeOK
<1> QED BY <1>1, <1>6, <1>7, <1>10, <1>11 DEF ContextInv

(* A correction asks again or fails.                                       *)
LEMMA CorrectingKeeps ==
  ASSUME ContextInv, NEW M, Complete(M), Grown(M, transcript), NEW results \in Seq(StoredResults),
         Paged(results), Correct(M, results)
  PROVE  ContextInv'
<1>1. CASE corrected
  BY <1>1, FailingKeeps DEF Correct
<1>2. CASE ~corrected
  <2> DEFINE N == Append(M, Correction)
  <2>1. /\ corrected' = TRUE /\ UNCHANGED callsTaken
        /\ AskAgain(N, results, <<Correction>>)
    BY <1>2 DEF Correct
  <2>2. Complete(N) /\ Grown(N, M)
    BY SimpleJoins
  <2>3. Grown(N, transcript)
    BY <2>2, GrownTwice
  <2>4. callsTaken' \in 0..MaxTurnCalls /\ corrected' \in BOOLEAN
    BY <2>1 DEF ContextInv, ContextTypeOK
  <2>5. <<Correction>> \in {<<>>, <<Correction>>}
    OBVIOUS
  <2> HIDE DEF N
  <2> QED BY <2>1, <2>2, <2>3, <2>4, <2>5, AskingKeeps
<1> QED BY <1>1, <1>2
(* The first request.                                                      *)
LEMMA AssembleKeeps == ASSUME ContextInv, Assemble PROVE ContextInv'
<1> DEFINE first == FirstRequest
<1>1. /\ contextStage = "new" /\ request' = first /\ transcript' = first.messages
      /\ contextStage' = IF first.ok THEN "asked" ELSE "failed"
      /\ stepsTaken' = IF first.ok THEN 1 ELSE 0
      /\ UNCHANGED <<public, history, roomLog, budget, retained, corrected, terminal, callsTaken>>
  BY DEF Assemble, turnInput
<1>2. \/ first = NoRequest
      \/ first.ok /\ Complete(first.messages) /\ Proper(first, first.messages, <<>>)
  BY FirstIsProper DEF ContextInv
<1> HIDE DEF first
<1>3. first.messages \in Seq(Messages) /\ Together(first.messages, first.messages)
  <2>1. CASE first = NoRequest
    <3>1. <<>> \in Seq(Messages)
      OBVIOUS
    <3> QED BY <2>1, <3>1, NoRequestIs, EmptyIsTogether
  <2>2. CASE first.ok /\ Complete(first.messages) /\ Proper(first, first.messages, <<>>)
    BY <2>2 DEF Proper
  <2> QED BY <1>2, <2>1, <2>2
<1>4. first.ok => Complete(first.messages) /\ first.chars <= first.limit
  BY <1>2, NoRequestIs DEF Proper
<1>5. retained' = <<>>
  BY <1>1 DEF ContextInv
<1>6. contextStage' \in {"asked", "failed"} /\ (contextStage' = "asked" => first.ok)
  BY <1>1
<1>7. stepsTaken' \in 0..MaxTurnSteps
  <2>1. MaxTurnSteps \in Nat \ {0}
    BY TurnAssumption
  <2>2. 0 \in 0..MaxTurnSteps /\ 1 \in 0..MaxTurnSteps
    BY <2>1
  <2> QED BY <1>1, <2>2
<1>8. ContextTypeOK'
  <2>1. ContextTypeOK
    BY DEF ContextInv
  <2> QED BY <1>1, <1>3, <1>6, <1>7, <2>1 DEF ContextTypeOK
<1> QED BY <1>1, <1>3, <1>4, <1>5, <1>6, <1>8 DEF ContextInv

(* An answer without a call that cannot be used.                           *)
LEMMA MumbleKeeps == ASSUME ContextInv, Mumble PROVE ContextInv'
<1> DEFINE M == Append(transcript, BrokenAnswer)
<1>1. Complete(transcript) /\ Correct(M, retained)
  BY DEF Mumble, ContextInv
<1>2. Complete(M) /\ Grown(M, transcript)
  BY <1>1, SimpleJoins
<1>3. retained \in Seq(StoredResults) /\ Paged(retained)
  BY DEF ContextInv, ContextTypeOK
<1> HIDE DEF M
<1> QED BY <1>1, <1>2, <1>3, CorrectingKeeps

(* A batch that is not executed.                                           *)
LEMMA RejectKeeps == ASSUME ContextInv, NEW batch, Reject(batch) PROVE ContextInv'
<1>1. Complete(transcript) /\ Correct(transcript, retained)
  BY DEF Reject, ContextInv
<1>2. Grown(transcript, transcript)
  BY GrownSame DEF ContextInv, ContextTypeOK
<1>3. retained \in Seq(StoredResults) /\ Paged(retained)
  BY DEF ContextInv, ContextTypeOK
<1> QED BY <1>1, <1>2, <1>3, CorrectingKeeps

(* A turn that is broken off.                                              *)
LEMMA InterruptKeeps == ASSUME ContextInv, Interrupt PROVE ContextInv'
<1>1. FailWith(transcript, retained) /\ UNCHANGED callsTaken
  BY DEF Interrupt
<1>2. Grown(transcript, transcript)
  BY GrownSame DEF ContextInv, ContextTypeOK
<1>3. retained \in Seq(StoredResults) /\ Paged(retained)
  BY DEF ContextInv, ContextTypeOK
<1> QED BY <1>1, <1>2, <1>3, FailingKeeps

(* The final answer.                                                       *)
LEMMA AnswerKeeps == ASSUME ContextInv, Answer PROVE ContextInv'
<1>1. /\ contextStage' = "answered"
      /\ UNCHANGED <<public, history, roomLog, budget, transcript, retained, corrected, terminal,
                     stepsTaken, callsTaken, request>>
  BY DEF Answer, turnInput, turnLoop
<1>2. ContextTypeOK'
  BY <1>1 DEF ContextInv, ContextTypeOK
<1> QED BY <1>1, <1>2 DEF ContextInv

(* A batch that is executed: its results join store and transcript.        *)
LEMMA BatchKeeps ==
  ASSUME ContextInv, NEW batch \in CallBatches, ExecuteBatch(batch)
  PROVE  ContextInv'
<1> DEFINE admitted == ~terminal /\ callsTaken + Len(batch) <= MaxTurnCalls
<1>1. contextStage = "asked" /\ Sound(batch)
  BY DEF ExecuteBatch
<1>2. PICK results \in {s \in [DOMAIN batch -> UNION {Results(c, admitted) : c \in Range(batch)}] :
                          \A n \in DOMAIN batch : s[n] \in Results(batch[n], admitted)} :
        LET store == retained \o results
            messages == transcript \o <<CallsMessage(batch)>>
                        \o [n \in DOMAIN batch |-> Observation(results[n])]
        IN  IF \E r \in Range(results) : r.meta > MaxView
            THEN FailWith(transcript, store) /\ UNCHANGED callsTaken
            ELSE IF terminal THEN Correct(messages, store)
            ELSE /\ callsTaken' = IF admitted THEN callsTaken + Len(batch) ELSE callsTaken
                 /\ AskAgain(messages, store, <<>>)
                 /\ UNCHANGED corrected
  BY DEF ExecuteBatch
<1> DEFINE store == retained \o results
           messages == transcript \o <<CallsMessage(batch)>>
                       \o [n \in DOMAIN batch |-> Observation(results[n])]
<1>3. \/ FailWith(transcript, store) /\ UNCHANGED callsTaken
      \/ Correct(messages, store)
      \/ /\ callsTaken' = IF admitted THEN callsTaken + Len(batch) ELSE callsTaken
         /\ AskAgain(messages, store, <<>>) /\ UNCHANGED corrected
  BY <1>2
<1>4. batch \in Seq(Calls) /\ Len(batch) \in Nat /\ DOMAIN batch = 1..Len(batch)
  <2>1. batch \in Seq(Calls)
    BY TurnAssumption DEF Calls
  <2> QED BY <2>1
<1>5. /\ \A n \in 1..Len(batch) : batch[n].id # 0
      /\ \A m, n \in 1..Len(batch) : batch[m].id = batch[n].id => m = n
  BY <1>1, <1>4 DEF Sound
<1>6. /\ DOMAIN results = 1..Len(batch) /\ results = [n \in 1..Len(batch) |-> results[n]]
      /\ \A n \in 1..Len(batch) : results[n] \in Results(batch[n], admitted)
  <2>1. /\ results \in [DOMAIN batch -> UNION {Results(c, admitted) : c \in Range(batch)}]
        /\ \A n \in DOMAIN batch : results[n] \in Results(batch[n], admitted)
    BY <1>2
  <2> HIDE DEF admitted
  <2> QED BY <1>4, <2>1
<1>7. admitted \in BOOLEAN
  OBVIOUS
<1>8. /\ transcript \in Seq(Messages) /\ retained \in Seq(StoredResults) /\ Paged(retained)
      /\ corrected \in BOOLEAN /\ callsTaken \in 0..MaxTurnCalls
  BY DEF ContextInv, ContextTypeOK
<1>9. callsTaken' = (IF admitted THEN callsTaken + Len(batch) ELSE callsTaken)
        => callsTaken' \in 0..MaxTurnCalls
  <2>1. MaxTurnCalls \in Nat
    BY TurnAssumption
  <2> QED BY <1>4, <1>8, <2>1
<1> HIDE DEF admitted
<1>10. /\ results \in Seq(StoredResults) /\ Len(results) = Len(batch)
       /\ \A n \in 1..Len(batch) : results[n].id = batch[n].id
       /\ store \in Seq(StoredResults) /\ Paged(store)
  BY <1>4, <1>5, <1>6, <1>7, <1>8, StoreGrows
<1>11. Complete(messages) /\ Grown(messages, transcript)
  <2>1. Complete(transcript)
    BY <1>1 DEF ContextInv
  <2> QED BY <1>4, <1>5, <1>10, <2>1, BatchJoins
<1> HIDE DEF store, messages
<1>12. CASE FailWith(transcript, store) /\ UNCHANGED callsTaken
  BY <1>8, <1>10, <1>12, GrownSame, FailingKeeps
<1>13. CASE Correct(messages, store)
  BY <1>10, <1>11, <1>13, CorrectingKeeps
<1>14. CASE /\ callsTaken' = IF admitted THEN callsTaken + Len(batch) ELSE callsTaken
            /\ AskAgain(messages, store, <<>>) /\ UNCHANGED corrected
  <2>1. <<>> \in {<<>>, <<Correction>>}
    OBVIOUS
  <2>2. callsTaken' \in 0..MaxTurnCalls /\ corrected' \in BOOLEAN
    BY <1>8, <1>9, <1>14
  <2> QED BY <1>10, <1>11, <1>14, <2>1, <2>2, AskingKeeps
<1> QED BY <1>3, <1>12, <1>13, <1>14

(* Every step of a turn.                                                   *)
LEMMA ContextStep == ContextInv /\ [ContextNext]_contextVars => ContextInv'
<1> SUFFICES ASSUME ContextInv, [ContextNext]_contextVars PROVE ContextInv'
  OBVIOUS
<1>1. CASE Assemble
  BY <1>1, AssembleKeeps
<1>2. CASE Answer
  BY <1>2, AnswerKeeps
<1>3. CASE Mumble
  BY <1>3, MumbleKeeps
<1>4. CASE Interrupt
  BY <1>4, InterruptKeeps
<1>5. ASSUME NEW batch \in CallBatches, Reject(batch) PROVE ContextInv'
  BY <1>5, RejectKeeps
<1>6. ASSUME NEW batch \in CallBatches, ExecuteBatch(batch) PROVE ContextInv'
  BY <1>6, BatchKeeps
<1>7. CASE UNCHANGED contextVars
  <2>1. /\ UNCHANGED <<public, history, roomLog, budget, contextStage, request>>
        /\ UNCHANGED <<transcript, retained, corrected, terminal, stepsTaken, callsTaken>>
    BY <1>7 DEF contextVars, turnInput, turnLoop
  <2>2. ContextTypeOK'
    BY <2>1 DEF ContextInv, ContextTypeOK
  <2> QED BY <2>1, <2>2 DEF ContextInv
<1> QED BY <1>1, <1>2, <1>3, <1>4, <1>5, <1>6, <1>7 DEF ContextNext

(* Whatever a request leaves out: it is within its budget, shows no call   *)
(* without its results, tells of every result of the turn and of what it   *)
(* leaves out, and the pages of a result can be put together.              *)
THEOREM TranscriptStaysSound == ContextSpec => []TranscriptIsSound
<1>1. ContextInit => ContextInv
  BY ContextStart
<1>2. ContextInv /\ [ContextNext]_contextVars => ContextInv'
  BY ContextStep
<1>3. ContextInv => TranscriptIsSound
  BY ContextInvSuffices
<1> QED BY <1>1, <1>2, <1>3, PTL DEF ContextSpec
=============================================================================
