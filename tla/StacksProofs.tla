----------------------------- MODULE StacksProofs -----------------------------
(***************************************************************************)
(* How the counts and the places of Stacks change when a thread goes on:   *)
(* when the head of one sequence of a family is replaced, or something is  *)
(* put in front of it.                                                     *)
(***************************************************************************)
EXTENDS Stacks, FiniteSetTheorems, TLAPS

One(b) == IF b THEN 1 ELSE 0

(* A family over X of sequences over S, and that r differs from s at x at most. *)
Family(X, S) == [X -> Seq(S)]
ButFor(x, r, s) == \A y \in DOMAIN s : y # x => r[y] = s[y]

(* r is s with c at x. *)
Replaced(r, s, x, c) == r = [s EXCEPT ![x] = c]

(* r is s with fs at x instead of the head there, or on top of what is there. *)
Onward(r, s, x, fs) == r = [s EXCEPT ![x] = fs \o Tail(s[x])]
Upon(r, s, x, fs)   == r = [s EXCEPT ![x] = fs \o s[x]]

(***************************************************************************)
(* One sequence                                                            *)
(***************************************************************************)
LEMMA NumberType ==
  ASSUME NEW S, NEW s \in Seq(S), NEW P
  PROVE  IsFiniteSet(Places(s, P)) /\ Number(s, P) \in Nat
<1>1. Len(s) \in Nat /\ Places(s, P) \in SUBSET (1..Len(s))
  BY DEF Places
<1>2. IsFiniteSet(1..Len(s))
  BY <1>1, FS_Interval
<1>3. IsFiniteSet(Places(s, P))
  BY <1>1, <1>2, FS_Subset
<1> QED
  BY <1>3, FS_CardinalityType DEF Number

LEMMA NumberNone ==
  ASSUME NEW S, NEW s \in Seq(S), NEW P
  PROVE  /\ Number(s, P) = 0 <=> \A i \in DOMAIN s : s[i] \notin P
         /\ \A i \in DOMAIN s : s[i] \in P => Number(s, P) >= 1
<1>1. IsFiniteSet(Places(s, P)) /\ Number(s, P) \in Nat
  BY NumberType
<1>2. Number(s, P) = 0 <=> Places(s, P) = {}
  BY <1>1, FS_EmptySet DEF Number
<1> QED
  BY <1>1, <1>2 DEF Places

LEMMA NumberEmpty ==
  ASSUME NEW P
  PROVE  Number(<<>>, P) = 0
<1>1. Places(<<>>, P) = {}
  BY DEF Places
<1> QED
  BY <1>1, FS_EmptySet DEF Number

LEMMA NumberOne ==
  ASSUME NEW e, NEW P
  PROVE  Number(<<e>>, P) = One(e \in P)
<1>1. CASE e \in P
  <2>1. Places(<<e>>, P) = {1}
    BY <1>1 DEF Places
  <2> QED
    BY <1>1, <2>1, FS_Singleton DEF Number, One
<1>2. CASE e \notin P
  <2>1. Places(<<e>>, P) = {}
    BY <1>2 DEF Places
  <2> QED
    BY <1>2, <2>1, FS_EmptySet DEF Number, One
<1> QED
  BY <1>1, <1>2

(* The places of a concatenation: those of the first, and those of the second moved on. *)
LEMMA NumberCat ==
  ASSUME NEW S, NEW r \in Seq(S), NEW s \in Seq(S), NEW P
  PROVE  Number(r \o s, P) = Number(r, P) + Number(s, P)
<1> DEFINE n == Len(r)
           A == Places(r, P)
           B == Places(s, P)
           C == {n + i : i \in B}
           f == [i \in B |-> n + i]
<1>1. n \in Nat /\ Len(s) \in Nat /\ A \subseteq 1..n /\ B \subseteq 1..Len(s)
  BY DEF Places
<1>2. Places(r \o s, P) = A \cup C
  <2>1. r \o s \in Seq(S) /\ Len(r \o s) = n + Len(s)
    OBVIOUS
  <2>2. DOMAIN (r \o s) = 1..(n + Len(s)) /\ DOMAIN r = 1..n /\ DOMAIN s = 1..Len(s)
    BY <2>1
  <2>3. \A i \in 1..(n + Len(s)) : (r \o s)[i] = IF i <= n THEN r[i] ELSE s[i - n]
    OBVIOUS
  <2>4. ASSUME NEW i \in 1..(n + Len(s))
        PROVE  (r \o s)[i] \in P <=> i \in A \cup C
    <3>1. CASE i <= n
      <4>1. i \notin C
        BY <1>1, <3>1
      <4>2. i \in A <=> r[i] \in P
        BY <1>1, <2>2, <2>4, <3>1 DEF Places
      <4> QED
        BY <2>3, <3>1, <4>1, <4>2
    <3>2. CASE ~(i <= n)
      <4>1. i \notin A
        BY <1>1, <3>2
      <4>2. i - n \in DOMAIN s
        BY <1>1, <2>2, <3>2
      <4>3. i \in C <=> i - n \in B
        BY <1>1, <3>2
      <4>4. i - n \in B <=> s[i - n] \in P
        BY <4>2 DEF Places
      <4> QED
        BY <2>3, <3>2, <4>1, <4>3, <4>4
    <3> QED
      BY <3>1, <3>2
  <2>5. A \cup C \subseteq 1..(n + Len(s))
    BY <1>1
  <2> HIDE DEF A, C
  <2> QED
    BY <2>2, <2>4, <2>5 DEF Places
<1>3. IsFiniteSet(A) /\ IsFiniteSet(B)
  BY NumberType
<1>4. IsFiniteSet(C) /\ Cardinality(C) = Cardinality(B)
  <2>1. f \in [B -> C] /\ \A i, j \in B : f[i] = f[j] => i = j
    BY <1>1
  <2>2. f \in Bijection(B, C)
    <3>1. \A c \in C : \E i \in B : f[i] = c
      OBVIOUS
    <3> HIDE DEF f, B, C
    <3> QED
      BY <2>1, <3>1 DEF Bijection, Injection, Surjection, IsInjective
  <2>3. ExistsBijection(B, C)
    BY <2>2 DEF ExistsBijection
  <2> HIDE DEF B, C, f
  <2> QED
    BY <1>3, <2>3, FS_Bijection
<1>5. A \cap C = {}
  BY <1>1
<1>6. Cardinality(A \cup C) = Cardinality(A) + Cardinality(C)
  <2>1. Cardinality(A \cap C) = 0
    BY <1>5, FS_EmptySet
  <2>2. Cardinality(A) \in Nat /\ Cardinality(C) \in Nat
    BY <1>3, <1>4, FS_CardinalityType
  <2> HIDE DEF A, C
  <2>3. Cardinality(A \cup C) = Cardinality(A) + Cardinality(C) - Cardinality(A \cap C)
    BY <1>3, <1>4, FS_Union
  <2> QED
    BY <2>1, <2>2, <2>3
<1> QED
  BY <1>2, <1>4, <1>6 DEF Number

LEMMA NumberTail ==
  ASSUME NEW S, NEW s \in Seq(S), s # <<>>, NEW P
  PROVE  Number(s, P) = One(Head(s) \in P) + Number(Tail(s), P)
<1>1. Head(s) \in S /\ Tail(s) \in Seq(S) /\ s = <<Head(s)>> \o Tail(s)
  OBVIOUS
<1>2. <<Head(s)>> \in Seq(S)
  BY <1>1
<1>3. Number(<<Head(s)>> \o Tail(s), P) = Number(<<Head(s)>>, P) + Number(Tail(s), P)
  BY <1>1, <1>2, NumberCat
<1> QED
  BY <1>1, <1>3, NumberOne

LEMMA NumberTwo ==
  ASSUME NEW e, NEW f, NEW P
  PROVE  Number(<<e, f>>, P) = One(e \in P) + One(f \in P)
<1> DEFINE S == {e, f}
<1>0. e \in S /\ f \in S
  OBVIOUS
<1> HIDE DEF S
<1>1. <<e, f>> \in Seq(S) /\ <<e, f>> # <<>> /\ Head(<<e, f>>) = e /\ Tail(<<e, f>>) = <<f>>
  BY <1>0
<1>2. Number(<<e, f>>, P) = One(e \in P) + Number(<<f>>, P)
  BY <1>1, NumberTail
<1> QED
  BY <1>2, NumberOne

(* Two sequences with the same places. *)
LEMMA NumberSame ==
  ASSUME NEW r, NEW s, NEW P, NEW Q, DOMAIN r = DOMAIN s,
         \A i \in DOMAIN r : r[i] \in P <=> s[i] \in Q
  PROVE  Number(r, P) = Number(s, Q)
  BY DEF Number, Places

(* All of a sequence. *)
LEMMA NumberAll ==
  ASSUME NEW S, NEW s \in Seq(S), NEW P, \A i \in DOMAIN s : s[i] \in P
  PROVE  Number(s, P) = Len(s)
<1>1. Len(s) \in Nat /\ Places(s, P) = 1..Len(s)
  BY DEF Places
<1> QED
  BY SMTT(30), <1>1, FS_Interval DEF Number

(***************************************************************************)
(* A family                                                                *)
(***************************************************************************)
LEMMA WhereAt ==
  ASSUME NEW s, NEW P, NEW q
  PROVE  q \in Where(s, P) <=> \E x \in DOMAIN s : \E i \in DOMAIN s[x] :
                                 s[x][i] \in P /\ q = <<x, i>>
  BY DEF Where, Places

LEMMA CountType ==
  ASSUME NEW X, IsFiniteSet(X), NEW S, NEW s \in Family(X, S), NEW P
  PROVE  IsFiniteSet(Where(s, P)) /\ Count(s, P) \in Nat
<1> DEFINE F == {{x} \X Places(s[x], P) : x \in X}
           g == [x \in X |-> {x} \X Places(s[x], P)]
<1>1. \A T \in F : IsFiniteSet(T)
  <2>1. ASSUME NEW x \in X
        PROVE  IsFiniteSet({x} \X Places(s[x], P))
    <3>1. IsFiniteSet({x}) /\ IsFiniteSet(Places(s[x], P))
      BY FS_Singleton, NumberType DEF Family
    <3> QED
      BY <3>1, FS_Product
  <2> QED
    BY <2>1
<1>2. IsFiniteSet(F)
  <2>1. g \in Surjection(X, F)
    BY DEF Surjection
  <2> HIDE DEF F, g
  <2> QED
    BY <2>1, FS_Surjection
<1>3. Where(s, P) = UNION F
  BY DEF Where, Family
<1>4. IsFiniteSet(Where(s, P))
  <2> HIDE DEF F
  <2> QED
    BY <1>1, <1>2, <1>3, FS_UNION
<1> QED
  BY <1>4, FS_CardinalityType DEF Count

(* A count is positive where one is found, and one found twice counts for two. *)
LEMMA CountNone ==
  ASSUME NEW X, IsFiniteSet(X), NEW S, NEW s \in Family(X, S), NEW P
  PROVE  /\ Count(s, P) = 0 <=> \A x \in X : \A i \in DOMAIN s[x] : s[x][i] \notin P
         /\ \A x \in X : \A i \in DOMAIN s[x] : s[x][i] \in P => Count(s, P) >= 1
         /\ Count(s, P) <= 1 =>
              \A x, y \in X : \A i \in DOMAIN s[x], j \in DOMAIN s[y] :
                s[x][i] \in P /\ s[y][j] \in P => x = y /\ i = j
<1>1. IsFiniteSet(Where(s, P)) /\ Count(s, P) \in Nat
  BY CountType
<1>2. Count(s, P) = 0 <=> Where(s, P) = {}
  BY <1>1, FS_EmptySet DEF Count
<1>3. Where(s, P) = {} <=> \A x \in X : \A i \in DOMAIN s[x] : s[x][i] \notin P
  <2>1. DOMAIN s = X
    BY DEF Family
  <2>2. ASSUME NEW x \in X, NEW i \in DOMAIN s[x], s[x][i] \in P
        PROVE  <<x, i>> \in Where(s, P)
    BY <2>1, <2>2, WhereAt
  <2>3. ASSUME NEW q \in Where(s, P)
        PROVE  \E x \in X : \E i \in DOMAIN s[x] : s[x][i] \in P
    BY <2>1, <2>3, WhereAt
  <2> QED
    BY <2>2, <2>3
<1>4. ASSUME Count(s, P) <= 1, NEW x \in X, NEW y \in X, NEW i \in DOMAIN s[x],
             NEW j \in DOMAIN s[y], s[x][i] \in P, s[y][j] \in P
      PROVE  x = y /\ i = j
  <2>1. <<x, i>> \in Where(s, P) /\ <<y, j>> \in Where(s, P)
    BY <1>4, WhereAt DEF Family
  <2>2. Count(s, P) = 1
    BY <1>1, <1>2, <1>4, <2>1
  <2>3. \E q : Where(s, P) = {q}
    BY <1>1, <2>2, FS_Singleton DEF Count
  <2> QED
    BY <2>1, <2>3
<1> QED
  BY <1>1, <1>2, <1>3, <1>4

LEMMA CountSame ==
  ASSUME NEW X, NEW r, NEW s, DOMAIN r = X, DOMAIN s = X, NEW P, NEW Q,
         \A x \in X : DOMAIN r[x] = DOMAIN s[x] /\ \A i \in DOMAIN r[x] : r[x][i] \in P <=> s[x][i] \in Q
  PROVE  Count(r, P) = Count(s, Q)
<1>1. \A x \in X : Places(r[x], P) = Places(s[x], Q)
  BY DEF Places
<1> QED
  BY <1>1 DEF Count, Where

(* A family in which one sequence changes. *)
LEMMA CountChange ==
  ASSUME NEW X, IsFiniteSet(X), NEW S, NEW s \in Family(X, S), NEW r \in Family(X, S),
         NEW x \in X, ButFor(x, r, s), NEW P
  PROVE  Count(r, P) + Number(s[x], P) = Count(s, P) + Number(r[x], P)
<1> DEFINE R == UNION {{y} \X Places(s[y], P) : y \in X \ {x}}
           A == {x} \X Places(s[x], P)
           B == {x} \X Places(r[x], P)
<1>1. Where(s, P) = R \cup A
  BY DEF Where, Family
<1>2. Where(r, P) = R \cup B
  <2>1. \A y \in X \ {x} : Places(r[y], P) = Places(s[y], P)
    BY DEF ButFor, Family
  <2>2. R = UNION {{y} \X Places(r[y], P) : y \in X \ {x}}
    BY <2>1
  <2> QED
    BY <2>2 DEF Where, Family
<1>3. R \cap A = {} /\ R \cap B = {}
  OBVIOUS
<1>4. /\ IsFiniteSet(A) /\ Cardinality(A) = Number(s[x], P)
      /\ IsFiniteSet(B) /\ Cardinality(B) = Number(r[x], P)
  <2>1. IsFiniteSet({x}) /\ Cardinality({x}) = 1
    BY FS_Singleton
  <2>2. /\ IsFiniteSet(Places(s[x], P)) /\ Number(s[x], P) \in Nat
        /\ IsFiniteSet(Places(r[x], P)) /\ Number(r[x], P) \in Nat
    BY NumberType DEF Family
  <2>3. \A T : IsFiniteSet(T) /\ Cardinality(T) \in Nat =>
               IsFiniteSet({x} \X T) /\ Cardinality({x} \X T) = Cardinality(T)
    <3>1. SUFFICES ASSUME NEW T, IsFiniteSet(T), Cardinality(T) \in Nat
                   PROVE  IsFiniteSet({x} \X T) /\ Cardinality({x} \X T) = Cardinality(T)
      OBVIOUS
    <3>2. IsFiniteSet({x} \X T) /\ Cardinality({x} \X T) = Cardinality({x}) * Cardinality(T)
      BY <2>1, <3>1, FS_Product
    <3> QED
      BY <2>1, <3>1, <3>2
  <2> QED
    BY <2>2, <2>3 DEF Number
<1>5. IsFiniteSet(R)
  <2>1. IsFiniteSet(Where(s, P)) /\ R \in SUBSET Where(s, P)
    BY <1>1, CountType
  <2> HIDE DEF R
  <2> QED
    BY <2>1, FS_Subset
<1> HIDE DEF R, A, B
<1>6. \A T : IsFiniteSet(T) /\ R \cap T = {} =>
             Cardinality(R \cup T) = Cardinality(R) + Cardinality(T)
  <2>1. SUFFICES ASSUME NEW T, IsFiniteSet(T), R \cap T = {}
                 PROVE  Cardinality(R \cup T) = Cardinality(R) + Cardinality(T)
    OBVIOUS
  <2>2. Cardinality(R \cup T) = Cardinality(R) + Cardinality(T) - Cardinality(R \cap T)
    BY <1>5, <2>1, FS_Union
  <2>3. Cardinality(R \cap T) = 0 /\ Cardinality(R) \in Nat /\ Cardinality(T) \in Nat
    BY <1>5, <2>1, FS_EmptySet, FS_CardinalityType
  <2> QED
    BY <2>2, <2>3
<1>7. Cardinality(R) \in Nat /\ Number(s[x], P) \in Nat /\ Number(r[x], P) \in Nat
  BY <1>4, <1>5, FS_CardinalityType
<1>8. Count(s, P) = Cardinality(R) + Number(s[x], P)
  BY <1>1, <1>3, <1>4, <1>6 DEF Count
<1>9. Count(r, P) = Cardinality(R) + Number(r[x], P)
  BY <1>2, <1>3, <1>4, <1>6 DEF Count
<1> QED
  BY <1>7, <1>8, <1>9

LEMMA CountAs ==
  ASSUME NEW X, IsFiniteSet(X), NEW S, NEW s \in Family(X, S), NEW x \in X, NEW c \in Seq(S),
         NEW r, Replaced(r, s, x, c), NEW P
  PROVE  /\ r \in Family(X, S)
         /\ Count(r, P) \in Nat /\ Count(s, P) \in Nat
         /\ Number(s[x], P) \in Nat /\ Number(c, P) \in Nat
         /\ Count(r, P) = Count(s, P) - Number(s[x], P) + Number(c, P)
<1>1. r \in Family(X, S) /\ r[x] = c /\ ButFor(x, r, s)
  BY DEF Replaced, Family, ButFor
<1>2. Count(r, P) + Number(s[x], P) = Count(s, P) + Number(r[x], P)
  BY <1>1, CountChange
<1>3. Count(r, P) \in Nat
  BY <1>1, CountType
<1>4. Count(s, P) \in Nat
  BY CountType
<1>5. s[x] \in Seq(S)
  BY DEF Family
<1>6. Number(s[x], P) \in Nat /\ Number(c, P) \in Nat
  BY <1>5, NumberType
<1> QED
  BY <1>1, <1>2, <1>3, <1>4, <1>6

(* One that goes on with fs instead of its head. *)
LEMMA CountThen ==
  ASSUME NEW X, IsFiniteSet(X), NEW S, NEW s \in Family(X, S), NEW x \in X, s[x] # <<>>,
         NEW fs \in Seq(S), NEW r, Onward(r, s, x, fs), NEW P
  PROVE  /\ r \in Family(X, S)
         /\ Count(r, P) \in Nat /\ Count(s, P) \in Nat /\ Number(fs, P) \in Nat
         /\ Count(r, P) = Count(s, P) - One(Head(s[x]) \in P) + Number(fs, P)
<1> DEFINE c == fs \o Tail(s[x])
<1>1. s[x] \in Seq(S)
  BY DEF Family
<1>2. Tail(s[x]) \in Seq(S) /\ c \in Seq(S)
  BY <1>1
<1>3. Number(c, P) = Number(fs, P) + Number(Tail(s[x]), P)
  BY <1>2, NumberCat
<1>4. Number(s[x], P) = One(Head(s[x]) \in P) + Number(Tail(s[x]), P)
  BY <1>1, NumberTail
<1>5. Number(fs, P) \in Nat /\ Number(Tail(s[x]), P) \in Nat /\ One(Head(s[x]) \in P) \in Nat
  BY <1>2, NumberType DEF One
<1>6. Replaced(r, s, x, c)
  BY DEF Onward, Replaced
<1> HIDE DEF c
<1>7. /\ r \in Family(X, S) /\ Count(r, P) \in Nat /\ Count(s, P) \in Nat
      /\ Count(r, P) = Count(s, P) - Number(s[x], P) + Number(c, P)
  BY <1>2, <1>6, CountAs
<1> QED
  BY <1>3, <1>4, <1>5, <1>7

(* One with fs put in front. *)
LEMMA CountOnto ==
  ASSUME NEW X, IsFiniteSet(X), NEW S, NEW s \in Family(X, S), NEW x \in X,
         NEW fs \in Seq(S), NEW r, Upon(r, s, x, fs), NEW P
  PROVE  /\ r \in Family(X, S)
         /\ Count(r, P) \in Nat /\ Count(s, P) \in Nat /\ Number(fs, P) \in Nat
         /\ Count(r, P) = Count(s, P) + Number(fs, P)
<1> DEFINE c == fs \o s[x]
<1>1. s[x] \in Seq(S)
  BY DEF Family
<1>2. c \in Seq(S) /\ Number(c, P) = Number(fs, P) + Number(s[x], P)
  BY <1>1, NumberCat
<1>3. Number(fs, P) \in Nat /\ Number(s[x], P) \in Nat
  BY <1>1, NumberType
<1>4. Replaced(r, s, x, c)
  BY DEF Upon, Replaced
<1> HIDE DEF c
<1>5. /\ r \in Family(X, S) /\ Count(r, P) \in Nat /\ Count(s, P) \in Nat
      /\ Count(r, P) = Count(s, P) - Number(s[x], P) + Number(c, P)
  BY <1>2, <1>4, CountAs
<1> QED
  BY <1>2, <1>3, <1>5

(***************************************************************************)
(* Places                                                                  *)
(***************************************************************************)
(* What r, a sequence fs put on top of s, has at its places. *)
OnTopOf(r, fs, s) ==
  /\ Len(r) = Len(fs) + Len(s)
  /\ \A i \in DOMAIN fs :
       /\ i \in DOMAIN r /\ r[i] = fs[i]
       /\ Prior(r, i) = Prior(fs, i)
       /\ After(fs, i) \subseteq After(r, i)
       /\ \A j \in DOMAIN s : s[j] \in After(r, i)
  /\ \A i \in DOMAIN s :
       /\ Len(fs) + i \in DOMAIN r /\ r[Len(fs) + i] = s[i]
       /\ After(r, Len(fs) + i) = After(s, i)
       /\ Prior(s, i) \subseteq Prior(r, Len(fs) + i)
  /\ \A i \in DOMAIN r : i \in DOMAIN fs \/ \E j \in DOMAIN s : i = Len(fs) + j

LEMMA OnTop ==
  ASSUME NEW S, NEW s \in Seq(S), NEW fs \in Seq(S)
  PROVE  fs \o s \in Seq(S) /\ OnTopOf(fs \o s, fs, s)
<1> DEFINE n == Len(fs)
           m == Len(s)
           c == fs \o s
<1>1. /\ n \in Nat /\ m \in Nat /\ c \in Seq(S) /\ Len(c) = n + m
      /\ DOMAIN fs = 1..n /\ DOMAIN s = 1..m /\ DOMAIN c = 1..(n + m)
      /\ \A i \in 1..n : c[i] = fs[i]
      /\ \A i \in 1..m : c[n + i] = s[i]
  OBVIOUS
<1> HIDE DEF n, m, c
<1>2. ASSUME NEW i \in 1..n
      PROVE  /\ Prior(c, i) = Prior(fs, i) /\ After(fs, i) \subseteq After(c, i)
             /\ \A j \in 1..m : s[j] \in After(c, i)
  <2>1. Prior(c, i) = Prior(fs, i)
    <3>1. \A k \in 1..(i - 1) : c[k] = fs[k]
      BY <1>1
    <3> QED
      BY <3>1 DEF Prior
  <2>2. After(fs, i) \subseteq After(c, i)
    <3>1. \A k \in (i + 1)..n : k \in (i + 1)..(n + m) /\ c[k] = fs[k]
      BY <1>1
    <3> QED
      BY <1>1, <3>1 DEF After, n
  <2>3. ASSUME NEW j \in 1..m
        PROVE  s[j] \in After(c, i)
    <3>1. n + j \in (i + 1)..(n + m) /\ c[n + j] = s[j]
      BY <1>1
    <3> QED
      BY <1>1, <3>1 DEF After
  <2> QED
    BY <2>1, <2>2, <2>3
<1>3. ASSUME NEW i \in 1..m
      PROVE  After(c, n + i) = After(s, i) /\ Prior(s, i) \subseteq Prior(c, n + i)
  <2>1. After(c, n + i) \subseteq After(s, i)
    <3>1. ASSUME NEW k \in (n + i + 1)..(n + m)
          PROVE  k - n \in (i + 1)..m /\ c[k] = s[k - n]
      <4>1. k - n \in 1..m /\ k - n \in (i + 1)..m /\ n + (k - n) = k
        BY <1>1
      <4> QED
        BY <1>1, <4>1
    <3> QED
      BY SMTT(30), <1>1, <3>1 DEF After, m
  <2>2. After(s, i) \subseteq After(c, n + i)
    <3>1. \A k \in (i + 1)..m : n + k \in (n + i + 1)..(n + m) /\ c[n + k] = s[k]
      BY <1>1
    <3> QED
      BY SMTT(30), <1>1, <3>1 DEF After, m
  <2>3. Prior(s, i) \subseteq Prior(c, n + i)
    <3>1. \A k \in 1..(i - 1) : n + k \in 1..((n + i) - 1) /\ c[n + k] = s[k]
      BY <1>1
    <3> QED
      BY <3>1 DEF Prior
  <2> QED
    BY <2>1, <2>2, <2>3
<1>4. ASSUME NEW i \in 1..(n + m)
      PROVE  i \in 1..n \/ \E j \in 1..m : i = n + j
  <2>1. i \in 1..n \/ (i - n \in 1..m /\ i = n + (i - n))
    BY <1>1
  <2> QED
    BY <2>1
<1>5. /\ \A i \in 1..n : i \in 1..(n + m)
      /\ \A i \in 1..m : n + i \in 1..(n + m)
  BY <1>1
<1> QED
  BY <1>1, <1>2, <1>3, <1>4, <1>5 DEF n, m, c, OnTopOf

LEMMA Behind ==
  ASSUME NEW S, NEW s \in Seq(S), s # <<>>
  PROVE  /\ Tail(s) \in Seq(S) /\ Len(Tail(s)) = Len(s) - 1 /\ s[1] = Head(s) /\ 1 \in DOMAIN s
         /\ \A i \in DOMAIN Tail(s) :
              /\ i + 1 \in DOMAIN s /\ Tail(s)[i] = s[i + 1] /\ Tail(s)[i] \in After(s, 1)
              /\ After(Tail(s), i) = After(s, i + 1)
              /\ Prior(s, i + 1) = Prior(Tail(s), i) \cup {Head(s)}
         /\ \A i \in DOMAIN s : i # 1 => i - 1 \in DOMAIN Tail(s) /\ (i - 1) + 1 = i
         /\ After(s, 1) = {Tail(s)[i] : i \in DOMAIN Tail(s)}
<1> DEFINE m == Len(s)
           r == Tail(s)
<1>1. /\ m \in Nat \ {0} /\ r \in Seq(S) /\ Len(r) = m - 1 /\ DOMAIN s = 1..m /\ DOMAIN r = 1..(m - 1)
      /\ s[1] = Head(s)
      /\ \A i \in 1..(m - 1) : r[i] = s[i + 1]
  OBVIOUS
<1> HIDE DEF m, r
<1>2. ASSUME NEW i \in 1..(m - 1)
      PROVE  /\ i + 1 \in 1..m /\ r[i] = s[i + 1] /\ r[i] \in After(s, 1)
             /\ After(r, i) = After(s, i + 1)
             /\ Prior(s, i + 1) = Prior(r, i) \cup {Head(s)}
  <2>1. i + 1 \in 2..m /\ r[i] = s[i + 1]
    BY <1>1
  <2>2. r[i] \in After(s, 1)
    BY <1>1, <2>1 DEF After, m
  <2>3. After(r, i) \subseteq After(s, i + 1)
    <3>1. \A k \in (i + 1)..(m - 1) : k + 1 \in ((i + 1) + 1)..m /\ r[k] = s[k + 1]
      BY <1>1
    <3> QED
      BY <1>1, <3>1 DEF After, m
  <2>4. After(s, i + 1) \subseteq After(r, i)
    <3>1. ASSUME NEW k \in ((i + 1) + 1)..m
          PROVE  k - 1 \in (i + 1)..(m - 1) /\ s[k] = r[k - 1]
      <4>1. k - 1 \in 1..(m - 1) /\ k - 1 \in (i + 1)..(m - 1) /\ (k - 1) + 1 = k
        BY <1>1
      <4> QED
        BY <1>1, <4>1
    <3> QED
      BY <1>1, <3>1 DEF After, m
  <2>5. Prior(s, i + 1) \subseteq Prior(r, i) \cup {Head(s)}
    <3>1. ASSUME NEW k \in 1..((i + 1) - 1)
          PROVE  s[k] \in Prior(r, i) \cup {Head(s)}
      <4>1. CASE k = 1
        BY <1>1, <4>1
      <4>2. CASE k # 1
        <5>1. k - 1 \in 1..(i - 1) /\ k - 1 \in 1..(m - 1) /\ (k - 1) + 1 = k
          BY <1>1, <4>2
        <5>2. s[k] = r[k - 1]
          BY <1>1, <5>1
        <5> QED
          BY <5>1, <5>2 DEF Prior
      <4> QED
        BY <4>1, <4>2
    <3> QED
      BY <3>1 DEF Prior
  <2>6. Prior(r, i) \cup {Head(s)} \subseteq Prior(s, i + 1)
    <3>1. 1 \in 1..((i + 1) - 1)
      BY <1>1
    <3>2. \A k \in 1..(i - 1) : k + 1 \in 1..((i + 1) - 1) /\ r[k] = s[k + 1]
      BY <1>1
    <3> QED
      BY <1>1, <3>1, <3>2 DEF Prior
  <2> QED
    BY <2>1, <2>2, <2>3, <2>4, <2>5, <2>6
<1>3. \A i \in 1..m : i # 1 => i - 1 \in 1..(m - 1) /\ (i - 1) + 1 = i
  BY <1>1
<1>4. After(s, 1) = {r[i] : i \in 1..(m - 1)}
  <2>1. \A k \in (1 + 1)..m : k - 1 \in 1..(m - 1) /\ s[k] = r[k - 1]
    <3>1. \A k \in (1 + 1)..m : k - 1 \in 1..(m - 1) /\ (k - 1) + 1 = k
      BY <1>1
    <3> QED
      BY <1>1, <3>1
  <2> QED
    BY SMTT(30), <1>2, <2>1 DEF After, m
<1>5. 1 \in 1..m
  BY <1>1
<1> QED
  BY <1>1, <1>2, <1>3, <1>4, <1>5 DEF m, r

(* Place i of r is of a sequence fs put in front of what came after the head of s. *)
Fresh(r, i, fs, s) ==
  /\ i \in DOMAIN fs /\ r[i] = fs[i] /\ Prior(r, i) = Prior(fs, i)
  /\ After(fs, i) \subseteq After(r, i) /\ After(s, 1) \subseteq After(r, i)

(* Place i of r was place j of s, behind its head. *)
Stale(r, i, s, j) ==
  /\ j # 1 /\ r[i] = s[j] /\ After(r, i) = After(s, j)
  /\ Prior(s, j) \subseteq Prior(r, i) \cup {Head(s)}
  /\ j = Len(s) => i = Len(r)

LEMMA GoesOn ==
  ASSUME NEW S, NEW s \in Seq(S), s # <<>>, NEW fs \in Seq(S)
  PROVE  LET r == fs \o Tail(s) IN
         /\ r \in Seq(S) /\ 1 \in DOMAIN s /\ s[1] = Head(s) /\ (Len(s) = 1 => Len(r) = Len(fs))
         /\ \A i \in DOMAIN r : Fresh(r, i, fs, s) \/ \E j \in DOMAIN s : Stale(r, i, s, j)
         /\ \A j \in DOMAIN s : j = 1 \/ \E i \in DOMAIN r : Stale(r, i, s, j)
         /\ \A i \in DOMAIN fs : i \in DOMAIN r /\ Fresh(r, i, fs, s)
<1> DEFINE t == Tail(s)
           r == fs \o t
           n == Len(fs)
<1>1. /\ t \in Seq(S) /\ Len(t) = Len(s) - 1 /\ s[1] = Head(s) /\ 1 \in DOMAIN s
      /\ \A i \in DOMAIN t : /\ i + 1 \in DOMAIN s /\ t[i] = s[i + 1] /\ t[i] \in After(s, 1)
                             /\ After(t, i) = After(s, i + 1)
                             /\ Prior(s, i + 1) = Prior(t, i) \cup {Head(s)}
      /\ \A i \in DOMAIN s : i # 1 => i - 1 \in DOMAIN t /\ (i - 1) + 1 = i
      /\ After(s, 1) = {t[i] : i \in DOMAIN t}
  BY Behind
<1>2. DOMAIN s = 1..Len(s) /\ Len(s) \in Nat /\ DOMAIN fs = 1..n /\ n \in Nat
  OBVIOUS
<1> HIDE DEF t
<1>0. r \in Seq(S) /\ OnTopOf(r, fs, t)
  BY <1>1, OnTop
<1> HIDE DEF r
<1>3. /\ r \in Seq(S) /\ Len(r) = n + Len(t)
      /\ \A i \in DOMAIN fs :
           /\ i \in DOMAIN r /\ r[i] = fs[i] /\ Prior(r, i) = Prior(fs, i)
           /\ After(fs, i) \subseteq After(r, i)
           /\ \A j \in DOMAIN t : t[j] \in After(r, i)
      /\ \A i \in DOMAIN t :
           /\ n + i \in DOMAIN r /\ r[n + i] = t[i] /\ After(r, n + i) = After(t, i)
           /\ Prior(t, i) \subseteq Prior(r, n + i)
      /\ \A i \in DOMAIN r : i \in DOMAIN fs \/ \E j \in DOMAIN t : i = n + j
  BY <1>0 DEF OnTopOf
<1>4. \A i \in DOMAIN fs : Fresh(r, i, fs, s)
  BY <1>1, <1>3 DEF Fresh
<1>5. ASSUME NEW j \in DOMAIN t
      PROVE  j + 1 \in DOMAIN s /\ Stale(r, n + j, s, j + 1)
  <2>1. j \in Nat \ {0}
    BY <1>1
  <2>2. j + 1 # 1 /\ (j + 1 = Len(s) => n + j = Len(r))
    BY SMTT(30), <1>1, <1>2, <1>3, <2>1
  <2> QED
    BY <1>1, <1>3, <2>2 DEF Stale
<1>6. ASSUME NEW j \in DOMAIN s, j # 1
      PROVE  \E i \in DOMAIN r : Stale(r, i, s, j)
  <2>1. j - 1 \in DOMAIN t /\ (j - 1) + 1 = j
    BY <1>1, <1>6
  <2>2. n + (j - 1) \in DOMAIN r /\ Stale(r, n + (j - 1), s, j)
    BY <1>3, <1>5, <2>1
  <2> QED
    BY <2>2
<1>7. ASSUME NEW i \in DOMAIN r
      PROVE  Fresh(r, i, fs, s) \/ \E j \in DOMAIN s : Stale(r, i, s, j)
  BY <1>3, <1>4, <1>5
<1>8. \A i \in DOMAIN fs : i \in DOMAIN r
  BY <1>3
<1>9. Len(s) = 1 => Len(r) = Len(fs)
  BY <1>1, <1>2, <1>3
<1> QED
  BY <1>1, <1>3, <1>4, <1>6, <1>7, <1>8, <1>9 DEF r, t
=============================================================================
