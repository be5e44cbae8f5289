--------------------------- MODULE SequenceLemmas ---------------------------
(***************************************************************************)
(* Facts about numbers, sequences and orders that the proofs of Pipeline   *)
(* and Collector share.                                                    *)
(***************************************************************************)
EXTENDS Integers, SequencesExt, FiniteSets, FiniteSetTheorems, WellFoundedInduction,
        TLAPS

(* Induction, about a set instead of a predicate: apply it to the set of   *)
(* the numbers that have a property.                                       *)
LEMMA NatSetInduction ==
  ASSUME NEW S, 0 \in S, \A n \in Nat : n \in S => n + 1 \in S
  PROVE  Nat \subseteq S
<1> DEFINE Less == {p \in Nat \X Nat : p[1] < p[2]}
           Left == Nat \ S
<1>1. SUFFICES ASSUME Left # {} PROVE FALSE
  OBVIOUS
<1>2. IsWellFoundedOn(Less, Nat)
  BY NatLessThanWellFounded DEF OpToRel
<1>3. Left \subseteq Nat
  OBVIOUS
<1> HIDE DEF Less, Left
<1>4. PICK x \in Left : \A y \in Left : ~(<<y, x>> \in Less)
  BY <1>1, <1>2, <1>3, WFMin
<1> USE DEF Less, Left
<1>5. x # 0
  OBVIOUS
<1>6. x - 1 \in Nat /\ <<x - 1, x>> \in Less
  BY <1>5
<1>7. x - 1 \in S
  BY <1>4, <1>6
<1> QED
  BY <1>6, <1>7

(* The same up to a bound                                                  *)
LEMMA BoundedInduction ==
  ASSUME NEW N \in Nat, NEW S, 0 \in S, \A n \in 1..N : n - 1 \in S => n \in S
  PROVE  0..N \subseteq S
<1> DEFINE T == {n \in Nat : n <= N => n \in S}
<1>1. 0 \in T
  OBVIOUS
<1>2. ASSUME NEW n \in Nat, n \in T PROVE n + 1 \in T
  <2>1. n + 1 <= N => n + 1 \in 1..N /\ (n + 1) - 1 = n /\ n <= N
    OBVIOUS
  <2> QED
    BY <1>2, <2>1
<1> HIDE DEF T
<1>3. Nat \subseteq T
  BY <1>1, <1>2, NatSetInduction
<1> QED
  BY <1>3 DEF T

(* f is a run of N rounds of a loop: Step[n] is what round n does *)
Runs(f, N, S, base, Step) ==
  /\ f \in [0..N -> S]
  /\ f[0] = base
  /\ \A n \in 1..N : f[n] = Step[n][f[n - 1]]

(* A loop over a sequence runs to its end.                                 *)
LEMMA LoopRuns ==
  ASSUME NEW N, N \in Nat, NEW S, NEW base, base \in S,
         NEW Step, Step \in [1..N -> [S -> S]]
  PROVE  \E f : Runs(f, N, S, base, Step)
<1> DEFINE T == {m \in Nat : \E f : Runs(f, m, S, base, Step)}
<1>1. 0 \in T
  <2>1. Runs([n \in 0..0 |-> base], 0, S, base, Step)
    BY DEF Runs
  <2> QED
    BY <2>1
<1>2. ASSUME NEW m \in 1..N, m - 1 \in T PROVE m \in T
  <2>1. PICK f : Runs(f, m - 1, S, base, Step)
    BY <1>2
  <2> DEFINE g == [n \in 0..m |-> IF n = m THEN Step[m][f[m - 1]] ELSE f[n]]
  <2>2. m \in Nat /\ m - 1 \in 0..(m - 1) /\ f[m - 1] \in S
    BY <2>1 DEF Runs
  <2>3. Step[m][f[m - 1]] \in S
    BY <2>2
  <2>4. g \in [0..m -> S]
    <3>1. ASSUME NEW n \in 0..m, n # m PROVE f[n] \in S
      <4>1. n \in 0..(m - 1)
        BY <3>1
      <4> QED
        BY <2>1, <4>1 DEF Runs
    <3> QED
      BY <2>3, <3>1
  <2>5. (\A n \in 0..(m - 1) : g[n] = f[n]) /\ g[m] = Step[m][f[m - 1]]
    OBVIOUS
  <2> HIDE DEF g
  <2>6. g[0] = base
    BY <2>1, <2>2, <2>5 DEF Runs
  <2>7. ASSUME NEW n \in 1..m PROVE g[n] = Step[n][g[n - 1]]
    <3>1. CASE n = m
      BY <2>2, <2>5, <3>1
    <3>2. CASE n # m
      <4>1. n \in 1..(m - 1) /\ n \in 0..(m - 1) /\ n - 1 \in 0..(m - 1)
        BY <3>2
      <4> QED
        BY <2>1, <2>5, <4>1 DEF Runs
    <3> QED
      BY <3>1, <3>2
  <2>8. Runs(g, m, S, base, Step)
    BY <2>4, <2>6, <2>7 DEF Runs
  <2> QED
    BY <2>2, <2>8
<1> HIDE DEF T
<1>3. 0..N \subseteq T
  BY <1>1, <1>2, BoundedInduction
<1>4. N \in T
  BY <1>3
<1> QED
  BY <1>4 DEF T

(* A sequence has the type of its elements.                                *)
LEMMA AppendIs ==
  ASSUME NEW T, NEW s \in Seq(T), NEW e
  PROVE  /\ Append(s, e) \in Seq(T \cup {e})
         /\ Len(s) \in Nat /\ DOMAIN s = 1..Len(s)
         /\ Len(Append(s, e)) = Len(s) + 1
         /\ DOMAIN Append(s, e) = 1..(Len(s) + 1)
         /\ \A i \in 1..Len(s) : Append(s, e)[i] = s[i]
         /\ Append(s, e)[Len(s) + 1] = e
<1>1. s \in Seq(T \cup {e}) /\ e \in T \cup {e}
  OBVIOUS
<1> QED
  BY <1>1

(* Above is a strict total order on S *)
Orders(Above, S) ==
  /\ Above \subseteq S \X S
  /\ \A x \in S : <<x, x>> \notin Above
  /\ \A x, y, z \in S : <<x, y>> \in Above /\ <<y, z>> \in Above => <<x, z>> \in Above
  /\ \A x, y \in S : x # y => <<x, y>> \in Above \/ <<y, x>> \in Above

(* Each element is placed behind as many as are above it *)
Places(Above, S) == [x \in S |-> 1 + Cardinality({y \in S : <<y, x>> \in Above})]

(* The elements take different places, in their order and without a gap *)
Ranks(place, Above, S) ==
  /\ \A x \in S : place[x] \in 1..Cardinality(S)
  /\ \A k \in 1..Cardinality(S) : \E x \in S : place[x] = k
  /\ \A x, y \in S : <<x, y>> \in Above <=> place[x] < place[y]
  /\ \A x, y \in S : place[x] = place[y] => x = y

(* In a finite set that is totally ordered, places are ranks.              *)
LEMMA PlacesAreRanks ==
  ASSUME NEW S, IsFiniteSet(S), NEW Above, Orders(Above, S)
  PROVE  Ranks(Places(Above, S), Above, S)
<1> DEFINE place == Places(Above, S)
<1> USE DEF Orders
<1> DEFINE Over(x) == {y \in S : <<y, x>> \in Above}
<1>1. ASSUME NEW x \in S
      PROVE  /\ IsFiniteSet(Over(x)) /\ Cardinality(Over(x)) \in Nat
             /\ Cardinality(Over(x)) < Cardinality(S) /\ Cardinality(S) \in Nat
  <2>1. Over(x) \subseteq S /\ Over(x) # S
    OBVIOUS
  <2> HIDE DEF Over
  <2> QED
    BY <2>1, FS_Subset, FS_CardinalityType
<1>2. ASSUME NEW x \in S, NEW y \in S, <<x, y>> \in Above
      PROVE  Cardinality(Over(x)) < Cardinality(Over(y))
  <2>1. Over(x) \subseteq Over(y) /\ x \in Over(y) /\ x \notin Over(x)
    BY <1>2
  <2>2. IsFiniteSet(Over(y)) /\ IsFiniteSet(Over(x))
    BY <1>1
  <2> HIDE DEF Over
  <2> QED
    BY <2>1, <2>2, FS_Subset, FS_CardinalityType
<1>3. place \in [S -> Int] /\ \A x \in S : place[x] = 1 + Cardinality(Over(x))
  <2>1. \A x \in S : Cardinality(Over(x)) \in Int
    BY <1>1
  <2>2. place = [x \in S |-> 1 + Cardinality(Over(x))]
    BY DEF Places
  <2> HIDE DEF Over, place
  <2> QED
    BY <2>1, <2>2
<1>4. \A x \in S : Cardinality(Over(x)) \in Nat /\ Cardinality(Over(x)) < Cardinality(S)
  BY <1>1
<1>5. \A x, y \in S : <<x, y>> \in Above => Cardinality(Over(x)) < Cardinality(Over(y))
  BY <1>2
<1>6. Cardinality(S) \in Nat
  BY FS_CardinalityType
<1> HIDE DEF Over, place
<1>7. \A x \in S : place[x] \in 1..Cardinality(S)
  BY <1>3, <1>4, <1>6
<1>8. \A x, y \in S : <<x, y>> \in Above => place[x] < place[y]
  BY <1>3, <1>4, <1>5
<1>9. \A x \in S : place[x] \in Int
  BY <1>3, <1>4
<1>10. \A x, y \in S : place[x] < place[y] => <<x, y>> \in Above
  <2> SUFFICES ASSUME NEW x \in S, NEW y \in S, place[x] < place[y]
               PROVE  <<x, y>> \in Above
    OBVIOUS
  <2>1. place[x] \in Int /\ place[y] \in Int
    BY <1>9
  <2>2. CASE x = y
    BY <2>1, <2>2
  <2>3. CASE <<y, x>> \in Above
    <3>1. place[y] < place[x]
      BY <2>3, <1>8
    <3> QED
      BY <2>1, <3>1
  <2> QED
    BY <2>2, <2>3
<1>11. \A x, y \in S : place[x] = place[y] => x = y
  <2> SUFFICES ASSUME NEW x \in S, NEW y \in S, x # y PROVE place[x] # place[y]
    OBVIOUS
  <2>1. place[x] < place[y] \/ place[y] < place[x]
    BY <1>8
  <2>2. place[x] \in Int /\ place[y] \in Int
    BY <1>9
  <2> QED
    BY <2>1, <2>2
<1>12. \A k \in 1..Cardinality(S) : \E x \in S : place[x] = k
  <2>1. place \in Injection(S, 1..Cardinality(S))
    BY <1>3, <1>7, <1>11 DEF Injection, IsInjective
  <2>2. /\ IsFiniteSet(1..Cardinality(S))
        /\ Cardinality(1..Cardinality(S)) = Cardinality(S)
    BY <1>6, FS_Interval
  <2>3. place \in Surjection(S, 1..Cardinality(S))
    BY <2>1, <2>2, FS_Injection
  <2> QED
    BY <2>3 DEF Surjection
<1> QED
  BY <1>7, <1>8, <1>10, <1>11, <1>12 DEF place, Ranks

-----------------------------------------------------------------------------
(* Lists *)

IsList(s) == s \in Seq(ToSet(s))

(* A list has its items at 1, 2 and so on.                                 *)
LEMMA ListIs ==
  ASSUME NEW s, IsList(s)
  PROVE  /\ Len(s) \in Nat /\ DOMAIN s = 1..Len(s)
         /\ \A i \in 1..Len(s) : s[i] \in ToSet(s)
         /\ \A x \in ToSet(s) : \E i \in 1..Len(s) : s[i] = x
         /\ s = [i \in 1..Len(s) |-> s[i]]
         /\ s # <<>> => Len(s) > 0
<1>1. s \in Seq(ToSet(s))
  BY DEF IsList
<1>2. Len(s) \in Nat /\ DOMAIN s = 1..Len(s)
  BY <1>1
<1>3. ToSet(s) = {s[i] : i \in 1..Len(s)}
  BY <1>2 DEF ToSet
<1>4. s # <<>> => Len(s) > 0
  BY <1>1
<1>5. s = [i \in 1..Len(s) |-> s[i]]
  BY <1>1
<1> QED
  BY <1>2, <1>3, <1>4, <1>5

(* What is a function on 1..n is a list.                                   *)
LEMMA IsListIf ==
  ASSUME NEW s, NEW n \in Nat, s = [i \in 1..n |-> s[i]]
  PROVE  IsList(s) /\ Len(s) = n
<1>1. DOMAIN s = 1..n
  OBVIOUS
<1>2. \A i \in 1..n : s[i] \in ToSet(s)
  BY <1>1 DEF ToSet
<1>3. s \in [1..n -> ToSet(s)]
  BY <1>2
<1> QED
  BY <1>3 DEF IsList

(* What is in a list of a type has the type.                               *)
LEMMA ListOf ==
  ASSUME NEW T, NEW s \in Seq(T)
  PROVE  IsList(s) /\ ToSet(s) \subseteq T /\ \A i \in 1..Len(s) : s[i] \in T
<1>1. Len(s) \in Nat /\ s = [i \in 1..Len(s) |-> s[i]] /\ DOMAIN s = 1..Len(s)
  OBVIOUS
<1>2. IsList(s)
  BY <1>1, IsListIf
<1>3. \A i \in 1..Len(s) : s[i] \in T
  OBVIOUS
<1> QED
  BY <1>1, <1>2, <1>3 DEF ToSet

(* One list after another                                                  *)
LEMMA ConcatIs ==
  ASSUME NEW s, NEW t, IsList(s), IsList(t)
  PROVE  /\ IsList(s \o t) /\ Len(s \o t) = Len(s) + Len(t)
         /\ Len(s) \in Nat /\ Len(t) \in Nat
         /\ \A i \in 1..Len(s) : (s \o t)[i] = s[i]
         /\ \A i \in 1..Len(t) : (s \o t)[Len(s) + i] = t[i]
         /\ ToSet(s \o t) = ToSet(s) \cup ToSet(t)
<1> DEFINE T == ToSet(s) \cup ToSet(t)
<1>1. s \in Seq(T) /\ t \in Seq(T)
  <2>1. s \in Seq(ToSet(s)) /\ t \in Seq(ToSet(t))
    BY DEF IsList
  <2> HIDE DEF T
  <2>2. ToSet(s) \subseteq T /\ ToSet(t) \subseteq T
    BY DEF T
  <2> QED
    BY <2>1, <2>2
<1> HIDE DEF T
<1>2. /\ s \o t \in Seq(T) /\ Len(s \o t) = Len(s) + Len(t)
      /\ Len(s) \in Nat /\ Len(t) \in Nat
      /\ \A i \in 1..Len(s) : (s \o t)[i] = s[i]
      /\ \A i \in 1..Len(t) : (s \o t)[Len(s) + i] = t[i]
  BY <1>1
<1>3. IsList(s \o t) /\ ToSet(s \o t) \subseteq T
  BY <1>2, ListOf
<1>4. \A x \in T : x \in ToSet(s \o t)
  <2> SUFFICES ASSUME NEW x \in T PROVE \E i \in 1..(Len(s) + Len(t)) : (s \o t)[i] = x
    <3>1. DOMAIN (s \o t) = 1..(Len(s) + Len(t))
      BY <1>2
    <3> QED
      BY <3>1 DEF ToSet
  <2>1. CASE x \in ToSet(s)
    <3>1. PICK i \in 1..Len(s) : s[i] = x
      BY <2>1, ListIs
    <3>2. i \in 1..(Len(s) + Len(t)) /\ (s \o t)[i] = x
      BY <1>2, <3>1
    <3> QED
      BY <3>2
  <2>2. CASE x \in ToSet(t)
    <3>1. PICK i \in 1..Len(t) : t[i] = x
      BY <2>2, ListIs
    <3>2. Len(s) + i \in 1..(Len(s) + Len(t)) /\ (s \o t)[Len(s) + i] = x
      BY <1>2, <3>1
    <3> QED
      BY <3>2
  <2> QED
    BY <2>1, <2>2 DEF T
<1> QED
  BY <1>2, <1>3, <1>4 DEF T

(* The head and the tail of a list                                         *)
LEMMA TailIs ==
  ASSUME NEW s, IsList(s), s # <<>>
  PROVE  /\ IsList(Tail(s)) /\ Len(Tail(s)) = Len(s) - 1 /\ Len(s) \in Nat /\ Len(s) > 0
         /\ Head(s) = s[1] /\ Head(s) \in ToSet(s)
         /\ \A i \in 1..Len(Tail(s)) : Tail(s)[i] = s[i + 1]
         /\ ToSet(Tail(s)) \subseteq ToSet(s)
<1>1. s \in Seq(ToSet(s))
  BY DEF IsList
<1>2. /\ Tail(s) \in Seq(ToSet(s)) /\ Len(Tail(s)) = Len(s) - 1
      /\ Len(s) \in Nat /\ Len(s) > 0 /\ Head(s) = s[1]
      /\ \A i \in 1..Len(Tail(s)) : Tail(s)[i] = s[i + 1]
  BY <1>1
<1>3. IsList(Tail(s)) /\ ToSet(Tail(s)) \subseteq ToSet(s)
  BY <1>2, ListOf
<1>4. s[1] \in ToSet(s)
  BY <1>2, ListIs
<1> QED
  BY <1>2, <1>3, <1>4

(* The items before one of a list                                          *)
LEMMA BeforeIs ==
  ASSUME NEW s, IsList(s), NEW i \in DOMAIN s
  PROVE  /\ IsList(SubSeq(s, 1, i - 1)) /\ Len(SubSeq(s, 1, i - 1)) = i - 1
         /\ \A j \in 1..(i - 1) : SubSeq(s, 1, i - 1)[j] = s[j]
         /\ ToSet(SubSeq(s, 1, i - 1)) \subseteq ToSet(s)
<1>1. s \in Seq(ToSet(s)) /\ i \in 1..Len(s) /\ Len(s) \in Nat
  BY ListIs DEF IsList
<1>2. /\ SubSeq(s, 1, i - 1) \in Seq(ToSet(s)) /\ Len(SubSeq(s, 1, i - 1)) = i - 1
      /\ \A j \in 1..(i - 1) : SubSeq(s, 1, i - 1)[j] = s[j]
  BY <1>1
<1> QED
  BY <1>2, ListOf
=============================================================================
