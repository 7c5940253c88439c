-------------------------------- MODULE Sums --------------------------------
(***************************************************************************)
(* Sums over finite sets, for the limits of tokens in KeyLimiter and the   *)
(* totals in Statistics.  MapThenSumSet is a recursive function on the     *)
(* subsets of a set, which takes out one element after the other.  What it *)
(* computes is shown by way of a smallest counterexample.                  *)
(***************************************************************************)
EXTENDS Integers, FiniteSetsExt, FiniteSetTheorems, WellFoundedInduction, TLAPS

\* A non-empty set of naturals has a least element.
LEMMA LeastNatural ==
    ASSUME NEW T, T \subseteq Nat, T # {}
    PROVE  \E i \in T : \A j \in T : ~ (j < i)
<1>1. PICK i \in T : \A j \in T : ~ (<<j, i>> \in OpToRel(<, Nat))
    BY NatLessThanWellFounded, WFMin
<1>2. \A j \in T : j < i => <<j, i>> \in OpToRel(<, Nat)
    BY DEF OpToRel
<1>3. QED
    BY <1>1, <1>2

\* So has a non-empty set of finite sets an element of the least size.
LEMMA LeastSet ==
    ASSUME NEW U, U # {}, \A s \in U : IsFiniteSet(s)
    PROVE  \E s \in U : \A t \in U : ~(Cardinality(t) < Cardinality(s))
<1> DEFINE T == {Cardinality(s) : s \in U}
<1>1. T \subseteq Nat /\ T # {}
    BY FS_CardinalityType
<1>2. PICK i \in T : \A j \in T : ~(j < i)
    BY <1>1, LeastNatural
<1>3. QED
    BY <1>2

LEMMA Smaller ==
    ASSUME NEW s, IsFiniteSet(s), NEW x \in s
    PROVE  /\ IsFiniteSet(s \ {x}) /\ Cardinality(s \ {x}) < Cardinality(s)
           /\ Cardinality(s \ {x}) \in Nat /\ Cardinality(s) \in Nat
<1>1. IsFiniteSet(s \ {x}) /\ Cardinality(s \ {x}) = Cardinality(s) - 1
    BY FS_RemoveElement
<1>2. QED
    BY <1>1, FS_CardinalityType

Some(s) == CHOOSE x \in s : TRUE

LEMMA SomeIn == ASSUME NEW s, s # {} PROVE Some(s) \in s
BY DEF Some

\* g is the sum of f on the subsets of S.
Sums(g, f, S) ==
    g = [s \in SUBSET S |-> IF s = {} THEN 0 ELSE f[Some(s)] + g[s \ {Some(s)}]]

SumOf(f, S) == (CHOOSE g : Sums(g, f, S))[S]

LEMMA SumsStep ==
    ASSUME NEW g, NEW f, NEW S, Sums(g, f, S), NEW s \in SUBSET S
    PROVE  g[s] = IF s = {} THEN 0 ELSE f[Some(s)] + g[s \ {Some(s)}]
BY DEF Sums

\* Two such functions agree where both are defined.
LEMMA SumsAgree ==
    ASSUME NEW f, NEW e, NEW g, NEW S, NEW h, NEW T, Sums(g, f, S), Sums(h, e, T),
           NEW s, s \subseteq S, s \subseteq T, IsFiniteSet(s), \A x \in s : f[x] = e[x]
    PROVE  g[s] = h[s]
<1> DEFINE U == {u \in SUBSET s : g[u] # h[u]}
<1> SUFFICES ASSUME U # {} PROVE FALSE
    OBVIOUS
<1>1. \A u \in U : IsFiniteSet(u)
    BY FS_Subset
<1>2. PICK u \in U : \A t \in U : ~(Cardinality(t) < Cardinality(u))
    BY <1>1, LeastSet
<1>3. u \in SUBSET S /\ u \in SUBSET T /\ u \in SUBSET s /\ IsFiniteSet(u)
    BY <1>1
<1>4. CASE u = {}
    BY <1>3, <1>4, SumsStep
<1>5. CASE u # {}
  <2> DEFINE x == Some(u)
  <2>1. x \in u
      BY <1>5, SomeIn
  <2>2. g[u] = f[x] + g[u \ {x}] /\ h[u] = e[x] + h[u \ {x}]
      BY <1>3, <1>5, SumsStep
  <2> HIDE DEF x
  <2>3. Cardinality(u \ {x}) < Cardinality(u) /\ u \ {x} \in SUBSET s
      BY <1>3, <2>1, Smaller
  <2>4. g[u \ {x}] = h[u \ {x}]
      BY <1>2, <2>3
  <2>5. QED
      BY <1>3, <2>1, <2>2, <2>4
<1>6. QED
    BY <1>4, <1>5

LEMMA SumsExist ==
    ASSUME NEW f, NEW S, IsFiniteSet(S)
    PROVE  \E g : Sums(g, f, S)
<1> DEFINE U == {u \in SUBSET S : ~ \E g : Sums(g, f, u)}
<1> SUFFICES ASSUME U # {} PROVE FALSE
    OBVIOUS
<1>1. \A u \in U : IsFiniteSet(u)
    BY FS_Subset
<1>2. PICK u \in U : \A t \in U : ~(Cardinality(t) < Cardinality(u))
    BY <1>1, LeastSet
<1>3. u \in SUBSET S /\ IsFiniteSet(u)
    BY <1>1
<1>4. ASSUME NEW t \in SUBSET u, t # u
      PROVE  Sums(CHOOSE g : Sums(g, f, t), f, t) /\ IsFiniteSet(t)
  <2>1. IsFiniteSet(t) /\ Cardinality(t) < Cardinality(u)
    <3>1. IsFiniteSet(t) /\ Cardinality(t) <= Cardinality(u) /\ (Cardinality(t) = Cardinality(u) => t = u)
        BY <1>3, FS_Subset
    <3>2. Cardinality(t) \in Nat /\ Cardinality(u) \in Nat
        BY <1>3, <3>1, FS_CardinalityType
    <3>3. QED
        BY <1>4, <3>1, <3>2
  <2>2. \E g : Sums(g, f, t)
      BY <1>2, <1>3, <2>1
  <2>3. QED
      BY <2>1, <2>2
<1> DEFINE g == [s \in SUBSET u |-> IF s = {} THEN 0
                    ELSE f[Some(s)] + SumOf(f, s \ {Some(s)})]
<1>5. ASSUME NEW s \in SUBSET u, s # u PROVE g[s] = SumOf(f, s)
  <2> DEFINE h == CHOOSE k : Sums(k, f, s)
  <2>1. Sums(h, f, s) /\ IsFiniteSet(s)
      BY <1>4, <1>5
  <2>2. SumOf(f, s) = h[s]
      BY DEF SumOf
  <2> HIDE DEF h
  <2>3. CASE s = {}
    <3>1. h[s] = 0
        BY <2>1, <2>3, SumsStep
    <3>2. QED
        BY <2>2, <2>3, <3>1
  <2>4. CASE s # {}
    <3> DEFINE x == Some(s)
               t == s \ {x}
               k == CHOOSE i : Sums(i, f, t)
    <3>1. x \in s
        BY <2>4, SomeIn
    <3>2. h[s] = f[x] + h[t]
        BY <2>1, <2>4, SumsStep
    <3>3. g[s] = f[x] + SumOf(f, t)
        BY <2>4
    <3> HIDE DEF x
    <3>4. t \in SUBSET u /\ t # u
        BY <1>5, <3>1
    <3>5. Sums(k, f, t) /\ IsFiniteSet(t)
        BY <1>4, <3>4
    <3>6. SumOf(f, t) = k[t]
        BY DEF SumOf
    <3> HIDE DEF k
    <3>7. t \subseteq s /\ t \subseteq t
        OBVIOUS
    <3> HIDE DEF t
    <3>8. h[t] = k[t]
        BY <2>1, <3>5, <3>7, SumsAgree
    <3>9. QED
        BY <2>2, <3>2, <3>3, <3>6, <3>8
  <2>5. QED
      BY <2>3, <2>4
<1>6. \A s \in SUBSET u : g[s] = IF s = {} THEN 0 ELSE f[Some(s)] + g[s \ {Some(s)}]
  <2> SUFFICES ASSUME NEW s \in SUBSET u, s # {}
               PROVE  g[s] = f[Some(s)] + g[s \ {Some(s)}]
      OBVIOUS
  <2>1. Some(s) \in s
      BY SomeIn
  <2>2. s \ {Some(s)} \in SUBSET u /\ s \ {Some(s)} # u
      BY <2>1
  <2>3. g[s \ {Some(s)}] = SumOf(f, s \ {Some(s)})
      BY <1>5, <2>2
  <2>4. g[s] = f[Some(s)] + SumOf(f, s \ {Some(s)})
      OBVIOUS
  <2>5. QED
      BY <2>3, <2>4
<1>7. g = [s \in SUBSET u |-> g[s]]
    OBVIOUS
<1> HIDE DEF g
<1>8. Sums(g, f, u)
    BY <1>6, <1>7 DEF Sums
<1>9. QED
    BY <1>2, <1>8

\* What a sum is.
LEMMA SumUnfold ==
    ASSUME NEW f, NEW S, IsFiniteSet(S)
    PROVE  SumOf(f, S) = IF S = {} THEN 0 ELSE f[Some(S)] + SumOf(f, S \ {Some(S)})
<1> DEFINE g == CHOOSE k : Sums(k, f, S)
           t == S \ {Some(S)}
           h == CHOOSE k : Sums(k, f, t)
<1>1. Sums(g, f, S) /\ SumOf(f, S) = g[S]
    BY SumsExist DEF SumOf
<1>2. IsFiniteSet(t) /\ t \subseteq S /\ t \subseteq t
    BY FS_Subset
<1>3. Sums(h, f, t) /\ SumOf(f, t) = h[t]
  <2>1. \E k : Sums(k, f, t)
      BY <1>2, SumsExist
  <2>2. QED
      BY <2>1 DEF SumOf
<1> HIDE DEF g, h
<1>4. g[S] = IF S = {} THEN 0 ELSE f[Some(S)] + g[t]
    BY <1>1, SumsStep
<1> HIDE DEF t
<1>5. g[t] = h[t]
    BY <1>1, <1>2, <1>3, SumsAgree
<1>6. QED
    BY <1>1, <1>3, <1>4, <1>5 DEF t

\* Any function that adds up as Sums says gives the sum.
LEMMA SumIs ==
    ASSUME NEW f, NEW S, IsFiniteSet(S), NEW g, Sums(g, f, S)
    PROVE  g[S] = SumOf(f, S)
<1> DEFINE h == CHOOSE k : Sums(k, f, S)
<1>1. Sums(h, f, S) /\ SumOf(f, S) = h[S]
    BY SumsExist DEF SumOf
<1> HIDE DEF h
<1>2. S \subseteq S
    OBVIOUS
<1>3. g[S] = h[S]
    BY <1>1, <1>2, SumsAgree
<1>4. QED
    BY <1>1, <1>3

LEMMA SumSame ==
    ASSUME NEW f, NEW e, NEW S, IsFiniteSet(S), \A x \in S : f[x] = e[x]
    PROVE  SumOf(f, S) = SumOf(e, S)
<1> DEFINE g == CHOOSE k : Sums(k, f, S)
           h == CHOOSE k : Sums(k, e, S)
<1>1. Sums(g, f, S) /\ SumOf(f, S) = g[S] /\ Sums(h, e, S) /\ SumOf(e, S) = h[S]
    BY SumsExist DEF SumOf
<1> HIDE DEF g, h
<1>2. S \subseteq S
    OBVIOUS
<1>3. g[S] = h[S]
    BY <1>1, <1>2, SumsAgree
<1>4. QED
    BY <1>1, <1>3

LEMMA SumEmpty == ASSUME NEW f PROVE SumOf(f, {}) = 0
BY SumUnfold, FS_EmptySet

LEMMA SumNat ==
    ASSUME NEW f, NEW S, IsFiniteSet(S), \A x \in S : f[x] \in Nat
    PROVE  SumOf(f, S) \in Nat
<1> DEFINE U == {u \in SUBSET S : SumOf(f, u) \notin Nat}
<1> SUFFICES ASSUME U # {} PROVE FALSE
    OBVIOUS
<1>1. \A u \in U : IsFiniteSet(u)
    BY FS_Subset
<1>2. PICK u \in U : \A t \in U : ~(Cardinality(t) < Cardinality(u))
    BY <1>1, LeastSet
<1>3. u \in SUBSET S /\ IsFiniteSet(u)
    BY <1>1
<1>4. u # {}
    BY <1>2, SumEmpty
<1> DEFINE x == Some(u)
<1>5. x \in u /\ SumOf(f, u) = f[x] + SumOf(f, u \ {x})
    BY <1>3, <1>4, SomeIn, SumUnfold
<1> HIDE DEF x
<1>6. Cardinality(u \ {x}) < Cardinality(u) /\ u \ {x} \in SUBSET S
    BY <1>3, <1>5, Smaller
<1>7. SumOf(f, u \ {x}) \in Nat
    BY <1>2, <1>6
<1>8. SumOf(f, u) \in Nat
    BY <1>3, <1>5, <1>7
<1>9. QED
    BY <1>2, <1>8

\* It does not matter which element is taken out.
LEMMA SumRemove ==
    ASSUME NEW f, NEW S, IsFiniteSet(S), \A x \in S : f[x] \in Nat, NEW c \in S
    PROVE  SumOf(f, S) = SumOf(f, S \ {c}) + f[c]
<1> DEFINE U == {u \in SUBSET S : \E d \in u : SumOf(f, u) # SumOf(f, u \ {d}) + f[d]}
<1> SUFFICES ASSUME U # {} PROVE FALSE
    OBVIOUS
<1>1. \A u \in U : IsFiniteSet(u)
    BY FS_Subset
<1>2. PICK u \in U : \A t \in U : ~(Cardinality(t) < Cardinality(u))
    BY <1>1, LeastSet
<1>3. u \in SUBSET S /\ IsFiniteSet(u)
    BY <1>1
<1>4. PICK d \in u : SumOf(f, u) # SumOf(f, u \ {d}) + f[d]
    BY <1>2
<1> DEFINE x == Some(u)
<1>5. x \in u /\ SumOf(f, u) = f[x] + SumOf(f, u \ {x})
    BY <1>3, <1>4, SomeIn, SumUnfold
<1> HIDE DEF x
<1>6. \A s \in SUBSET u : IsFiniteSet(s) /\ SumOf(f, s) \in Nat
  <2> SUFFICES ASSUME NEW s \in SUBSET u PROVE IsFiniteSet(s) /\ SumOf(f, s) \in Nat
      OBVIOUS
  <2>1. IsFiniteSet(s)
      BY <1>3, FS_Subset
  <2>2. \A y \in s : f[y] \in Nat
      BY <1>3
  <2>3. QED
      BY <2>1, <2>2, SumNat
<1>7. f[x] \in Nat /\ f[d] \in Nat
    BY <1>3, <1>5
<1>8. CASE x = d
    BY <1>4, <1>5, <1>6, <1>7, <1>8
<1>9. CASE x # d
  <2> DEFINE ux == u \ {x}
             ud == u \ {d}
             uxd == ux \ {d}
  <2>1. /\ ux \in SUBSET S /\ ud \in SUBSET S /\ d \in ux /\ x \in ud /\ uxd = ud \ {x}
        /\ ux \in SUBSET u /\ ud \in SUBSET u /\ uxd \in SUBSET u
      BY <1>3, <1>5, <1>9
  <2>2. Cardinality(ux) < Cardinality(u) /\ Cardinality(ud) < Cardinality(u)
      BY <1>3, <1>5, Smaller
  <2> HIDE DEF ux, ud, uxd
  <2>3. SumOf(f, ux) = SumOf(f, ux \ {d}) + f[d]
      BY <1>2, <2>1, <2>2
  <2>4. SumOf(f, ud) = SumOf(f, ud \ {x}) + f[x]
      BY <1>2, <2>1, <2>2
  <2>5. SumOf(f, ux) \in Nat /\ SumOf(f, ud) \in Nat /\ SumOf(f, uxd) \in Nat
      BY <1>6, <2>1
  <2>6. SumOf(f, ux) = SumOf(f, uxd) + f[d] /\ SumOf(f, ud) = SumOf(f, uxd) + f[x]
      BY <2>1, <2>3, <2>4 DEF uxd
  <2>7. SumOf(f, u) = f[x] + SumOf(f, ux) /\ SumOf(f, u) # SumOf(f, ud) + f[d]
      BY <1>4, <1>5 DEF ux, ud
  <2>8. QED
      BY <1>7, <2>5, <2>6, <2>7
<1>10. QED
    BY <1>8, <1>9

LEMMA SumAdd ==
    ASSUME NEW f, NEW S, IsFiniteSet(S), NEW c, c \notin S, \A x \in S \cup {c} : f[x] \in Nat
    PROVE  SumOf(f, S \cup {c}) = SumOf(f, S) + f[c]
<1>1. IsFiniteSet(S \cup {c}) /\ (S \cup {c}) \ {c} = S
    BY FS_AddElement
<1>2. QED
    BY <1>1, SumRemove

LEMMA SumPart ==
    ASSUME NEW f, NEW T, IsFiniteSet(T), \A x \in T : f[x] \in Nat, NEW S \in SUBSET T
    PROVE  SumOf(f, S) <= SumOf(f, T)
<1> DEFINE U == {u \in SUBSET T : S \subseteq u /\ ~(SumOf(f, S) <= SumOf(f, u))}
<1> SUFFICES ASSUME U # {} PROVE FALSE
    OBVIOUS
<1>1. \A u \in U : IsFiniteSet(u)
    BY FS_Subset
<1>2. PICK u \in U : \A t \in U : ~(Cardinality(t) < Cardinality(u))
    BY <1>1, LeastSet
<1>3. u \in SUBSET T /\ IsFiniteSet(u) /\ S \subseteq u /\ IsFiniteSet(S)
    BY <1>1, FS_Subset
<1>4. SumOf(f, S) \in Nat
    BY <1>3, SumNat
<1>5. u # S
    BY <1>2, <1>4
<1>6. PICK x \in u : x \notin S
    BY <1>3, <1>5
<1>7. /\ u \ {x} \in SUBSET T /\ S \subseteq u \ {x}
      /\ Cardinality(u \ {x}) < Cardinality(u) /\ IsFiniteSet(u \ {x})
    BY <1>3, <1>6, Smaller
<1>8. SumOf(f, S) <= SumOf(f, u \ {x})
    BY <1>2, <1>7
<1>9. SumOf(f, u) = SumOf(f, u \ {x}) + f[x]
    BY <1>3, SumRemove
<1>10. SumOf(f, u \ {x}) \in Nat /\ f[x] \in Nat
    BY <1>3, <1>7, SumNat
<1>11. SumOf(f, S) <= SumOf(f, u)
    BY <1>4, <1>8, <1>9, <1>10
<1>12. QED
    BY <1>2, <1>11

LEMMA SumHalves ==
    ASSUME NEW f, NEW T, NEW V, IsFiniteSet(T), IsFiniteSet(V), \A x \in T \cup V : f[x] \in Nat
    PROVE  SumOf(f, T \cup V) <= SumOf(f, T) + SumOf(f, V)
<1> DEFINE U == {u \in SUBSET T : ~(SumOf(f, u \cup V) <= SumOf(f, u) + SumOf(f, V))}
<1> SUFFICES ASSUME U # {} PROVE FALSE
    OBVIOUS
<1>1. \A u \in U : IsFiniteSet(u)
    BY FS_Subset
<1>2. PICK u \in U : \A t \in U : ~(Cardinality(t) < Cardinality(u))
    BY <1>1, LeastSet
<1>3. u \in SUBSET T /\ IsFiniteSet(u)
    BY <1>1
<1>4. SumOf(f, V) \in Nat
    BY SumNat
<1>5. u # {}
  <2> SUFFICES ASSUME u = {} PROVE FALSE
      OBVIOUS
  <2>1. SumOf(f, u) = 0 /\ u \cup V = V
      BY SumEmpty
  <2>2. QED
      BY <1>2, <1>4, <2>1
<1>6. PICK x \in u : TRUE
    BY <1>5
<1> DEFINE w == u \ {x}
<1>7. w \in SUBSET T /\ Cardinality(w) < Cardinality(u) /\ IsFiniteSet(w) /\ IsFiniteSet(w \cup V)
    BY <1>3, Smaller, FS_Union
<1>8. SumOf(f, w \cup V) <= SumOf(f, w) + SumOf(f, V)
  <2> HIDE DEF w
  <2>1. QED
      BY <1>2, <1>7
<1>9. SumOf(f, u) = SumOf(f, w) + f[x]
    BY <1>3, SumRemove
<1>10. SumOf(f, w) \in Nat /\ f[x] \in Nat /\ SumOf(f, w \cup V) \in Nat
    BY <1>3, <1>7, SumNat
<1>11. SumOf(f, u \cup V) <= SumOf(f, w \cup V) + f[x]
  <2>1. CASE x \in V
    <3>1. u \cup V = w \cup V
        BY <2>1
    <3> DEFINE wV == w \cup V
    <3>2. SumOf(f, u \cup V) = SumOf(f, wV) /\ SumOf(f, wV) \in Nat
        BY <1>10, <3>1
    <3> HIDE DEF w, wV
    <3>3. SumOf(f, u \cup V) <= SumOf(f, wV) + f[x]
        BY <1>10, <3>2
    <3>4. QED
        BY <3>3 DEF wV
  <2>2. CASE x \notin V
    <3>1. u \cup V = (w \cup V) \cup {x} /\ x \notin w \cup V /\ \A y \in (w \cup V) \cup {x} : f[y] \in Nat
        BY <1>3, <2>2
    <3>2. SumOf(f, (w \cup V) \cup {x}) = SumOf(f, w \cup V) + f[x]
        BY <1>7, <3>1, SumAdd
    <3> DEFINE wV == w \cup V
    <3>3. SumOf(f, u \cup V) = SumOf(f, wV) + f[x] /\ SumOf(f, wV) \in Nat
        BY <1>10, <3>1, <3>2
    <3> HIDE DEF w, wV
    <3>4. SumOf(f, u \cup V) <= SumOf(f, wV) + f[x]
        BY <1>10, <3>3
    <3>5. QED
        BY <3>4 DEF wV
  <2>3. QED
      BY <2>1, <2>2
<1> HIDE DEF w
<1>12. SumOf(f, u) \in Nat /\ IsFiniteSet(u \cup V)
    BY <1>3, SumNat, FS_Union
<1>13. SumOf(f, u \cup V) \in Nat
    BY <1>3, <1>12, SumNat
<1>14. SumOf(f, u \cup V) <= SumOf(f, u) + SumOf(f, V)
    BY <1>4, <1>8, <1>9, <1>10, <1>11, <1>12, <1>13
<1>15. QED
    BY <1>2, <1>14

\* Smaller terms make a smaller sum.
LEMMA SumMono ==
    ASSUME NEW f, NEW e, NEW S, IsFiniteSet(S),
           \A x \in S : f[x] \in Nat /\ e[x] \in Nat /\ f[x] <= e[x]
    PROVE  SumOf(f, S) <= SumOf(e, S)
<1> DEFINE U == {u \in SUBSET S : ~(SumOf(f, u) <= SumOf(e, u))}
<1> SUFFICES ASSUME U # {} PROVE FALSE
    OBVIOUS
<1>1. \A u \in U : IsFiniteSet(u)
    BY FS_Subset
<1>2. PICK u \in U : \A t \in U : ~(Cardinality(t) < Cardinality(u))
    BY <1>1, LeastSet
<1>3. u \in SUBSET S /\ IsFiniteSet(u) /\ ~(SumOf(f, u) <= SumOf(e, u))
    BY <1>1
<1>4. u # {}
    BY <1>3, SumEmpty
<1>5. PICK x \in u : TRUE
    BY <1>4
<1>6. u \ {x} \in SUBSET S /\ Cardinality(u \ {x}) < Cardinality(u) /\ IsFiniteSet(u \ {x})
    BY <1>3, Smaller
<1>7. SumOf(f, u \ {x}) <= SumOf(e, u \ {x})
    BY <1>2, <1>6
<1>8. SumOf(f, u) = SumOf(f, u \ {x}) + f[x] /\ SumOf(e, u) = SumOf(e, u \ {x}) + e[x]
    BY <1>3, SumRemove
<1>9. SumOf(f, u \ {x}) \in Nat /\ SumOf(e, u \ {x}) \in Nat
    BY <1>3, <1>6, SumNat
<1>10. f[x] \in Nat /\ e[x] \in Nat /\ f[x] <= e[x]
    BY <1>3
<1>11. QED
    BY <1>3, <1>7, <1>8, <1>9, <1>10

\* One term grows by k.
LEMMA SumUpdate ==
    ASSUME NEW f, NEW e, NEW S, IsFiniteSet(S), \A x \in S : f[x] \in Nat /\ e[x] \in Nat,
           NEW c \in S, NEW k \in Nat, e[c] = f[c] + k, \A x \in S \ {c} : e[x] = f[x]
    PROVE  SumOf(e, S) = SumOf(f, S) + k
<1>1. IsFiniteSet(S \ {c})
    BY FS_RemoveElement
<1>2. SumOf(e, S \ {c}) = SumOf(f, S \ {c})
    BY <1>1, SumSame
<1>3. SumOf(f, S) = SumOf(f, S \ {c}) + f[c] /\ SumOf(e, S) = SumOf(e, S \ {c}) + e[c]
    BY SumRemove
<1>4. SumOf(f, S \ {c}) \in Nat /\ f[c] \in Nat
    BY <1>1, SumNat
<1>5. QED
    BY <1>2, <1>3, <1>4

\* At most one term grows, and by at most one.
LEMMA SumAtMostOneMore ==
    ASSUME NEW f, NEW e, NEW S, IsFiniteSet(S), \A x \in S : f[x] \in Nat /\ e[x] \in Nat,
           NEW c \in S, e[c] <= f[c] + 1, \A x \in S \ {c} : e[x] <= f[x]
    PROVE  SumOf(e, S) <= SumOf(f, S) + 1
<1>1. IsFiniteSet(S \ {c})
    BY FS_RemoveElement
<1>2. SumOf(e, S \ {c}) <= SumOf(f, S \ {c})
    BY <1>1, SumMono
<1>3. SumOf(f, S) = SumOf(f, S \ {c}) + f[c] /\ SumOf(e, S) = SumOf(e, S \ {c}) + e[c]
    BY SumRemove
<1>4. SumOf(f, S \ {c}) \in Nat /\ f[c] \in Nat /\ SumOf(e, S \ {c}) \in Nat /\ e[c] \in Nat
    BY <1>1, SumNat
<1>5. QED
    BY <1>2, <1>3, <1>4

\* Adding up term by term.
LEMMA SumPlus ==
    ASSUME NEW f, NEW g, NEW e, NEW S, IsFiniteSet(S),
           \A x \in S : f[x] \in Nat /\ g[x] \in Nat /\ e[x] = f[x] + g[x]
    PROVE  SumOf(e, S) = SumOf(f, S) + SumOf(g, S)
<1> DEFINE U == {u \in SUBSET S : ~(SumOf(e, u) = SumOf(f, u) + SumOf(g, u))}
<1> SUFFICES ASSUME U # {} PROVE FALSE
    OBVIOUS
<1>1. \A u \in U : IsFiniteSet(u)
    BY FS_Subset
<1>2. PICK u \in U : \A t \in U : ~(Cardinality(t) < Cardinality(u))
    BY <1>1, LeastSet
<1>3. u \in SUBSET S /\ IsFiniteSet(u) /\ ~(SumOf(e, u) = SumOf(f, u) + SumOf(g, u))
    BY <1>1
<1>4. u # {}
  <2>1. SumOf(e, {}) = 0 /\ SumOf(f, {}) = 0 /\ SumOf(g, {}) = 0
      BY SumEmpty
  <2>2. SumOf(e, {}) = SumOf(f, {}) + SumOf(g, {})
      BY <2>1
  <2> HIDE DEF U
  <2>3. QED
      BY <1>3, <2>2
<1>5. PICK x \in u : TRUE
    BY <1>4
<1>6. u \ {x} \in SUBSET S /\ Cardinality(u \ {x}) < Cardinality(u) /\ IsFiniteSet(u \ {x})
    BY <1>3, Smaller
<1>7. SumOf(e, u \ {x}) = SumOf(f, u \ {x}) + SumOf(g, u \ {x})
    BY <1>2, <1>6
<1>8. /\ SumOf(f, u) = SumOf(f, u \ {x}) + f[x] /\ SumOf(g, u) = SumOf(g, u \ {x}) + g[x]
      /\ SumOf(e, u) = SumOf(e, u \ {x}) + e[x]
  <2>1. \A y \in u : f[y] \in Nat /\ g[y] \in Nat /\ e[y] \in Nat
      BY <1>3
  <2>2. QED
      BY <1>3, <2>1, SumRemove
<1>9. SumOf(f, u \ {x}) \in Nat /\ SumOf(g, u \ {x}) \in Nat
    BY <1>3, <1>6, SumNat
<1>10. f[x] \in Nat /\ g[x] \in Nat /\ e[x] = f[x] + g[x]
    BY <1>3
<1>11. QED
    BY <1>3, <1>7, <1>8, <1>9, <1>10

LEMMA SumZero ==
    ASSUME NEW f, NEW S, IsFiniteSet(S), \A x \in S : f[x] = 0
    PROVE  SumOf(f, S) = 0
<1> DEFINE s == SumOf(f, S)
<1>1. s = s + s
    BY SumPlus
<1>2. s \in Nat
    BY SumNat
<1> HIDE DEF s
<1>3. s = 0
    BY <1>1, <1>2
<1>4. QED
    BY <1>3 DEF s

\* A set has as many elements as it has ones.
LEMMA SumOnes ==
    ASSUME NEW f, NEW S, IsFiniteSet(S), \A x \in S : f[x] = 1
    PROVE  SumOf(f, S) = Cardinality(S)
<1> DEFINE U == {u \in SUBSET S : ~(SumOf(f, u) = Cardinality(u))}
<1> SUFFICES ASSUME U # {} PROVE FALSE
    OBVIOUS
<1>1. \A u \in U : IsFiniteSet(u)
    BY FS_Subset
<1>2. PICK u \in U : \A t \in U : ~(Cardinality(t) < Cardinality(u))
    BY <1>1, LeastSet
<1>3. u \in SUBSET S /\ IsFiniteSet(u) /\ ~(SumOf(f, u) = Cardinality(u))
    BY <1>1
<1>4. u # {}
    BY <1>3, SumEmpty, FS_EmptySet
<1>5. PICK x \in u : TRUE
    BY <1>4
<1>6. u \ {x} \in SUBSET S /\ Cardinality(u \ {x}) < Cardinality(u) /\ IsFiniteSet(u \ {x})
    BY <1>3, Smaller
<1>7. SumOf(f, u \ {x}) = Cardinality(u \ {x})
    BY <1>2, <1>6
<1>8. SumOf(f, u) = SumOf(f, u \ {x}) + f[x]
    BY <1>3, SumRemove
<1>9. Cardinality(u \ {x}) = Cardinality(u) - 1 /\ Cardinality(u) \in Nat
    BY <1>3, FS_RemoveElement, FS_CardinalityType
<1>10. f[x] = 1
    BY <1>3
<1>11. QED
    BY <1>3, <1>7, <1>8, <1>9, <1>10

LEMMA SumUnion ==
    ASSUME NEW f, NEW S, NEW T, IsFiniteSet(S), IsFiniteSet(T), S \cap T = {},
           \A x \in S \cup T : f[x] \in Nat
    PROVE  SumOf(f, S \cup T) = SumOf(f, S) + SumOf(f, T)
<1> DEFINE U == {u \in SUBSET S : ~(SumOf(f, u \cup T) = SumOf(f, u) + SumOf(f, T))}
<1> SUFFICES ASSUME U # {} PROVE FALSE
    OBVIOUS
<1>1. \A u \in U : IsFiniteSet(u)
    BY FS_Subset
<1>2. PICK u \in U : \A t \in U : ~(Cardinality(t) < Cardinality(u))
    BY <1>1, LeastSet
<1>3. u \in SUBSET S /\ IsFiniteSet(u) /\ ~(SumOf(f, u \cup T) = SumOf(f, u) + SumOf(f, T))
    BY <1>1
<1>4. SumOf(f, T) \in Nat
    BY SumNat
<1>5. u # {}
  <2> SUFFICES ASSUME u = {} PROVE FALSE
      OBVIOUS
  <2>1. SumOf(f, u) = 0 /\ u \cup T = T
      BY SumEmpty
  <2>2. QED
      BY <1>3, <1>4, <2>1
<1>6. PICK x \in u : TRUE
    BY <1>5
<1> DEFINE w == u \ {x}
           wT == w \cup T
<1>7. w \in SUBSET S /\ Cardinality(w) < Cardinality(u) /\ IsFiniteSet(w)
    BY <1>3, Smaller
<1>8. IsFiniteSet(wT) /\ u \cup T = wT \cup {x} /\ x \notin wT
    BY <1>3, <1>7, FS_Union
<1>9. SumOf(f, wT) = SumOf(f, w) + SumOf(f, T)
  <2> HIDE DEF w
  <2>1. QED
      BY <1>2, <1>7
<1>10. SumOf(f, u) = SumOf(f, w) + f[x]
    BY <1>3, SumRemove
<1>11. \A y \in wT \cup {x} : f[y] \in Nat
    BY <1>3
<1>12. SumOf(f, w) \in Nat /\ f[x] \in Nat
    BY <1>7, <1>11, SumNat
<1> HIDE DEF w, wT
<1>13. SumOf(f, wT \cup {x}) = SumOf(f, wT) + f[x]
    BY <1>8, <1>11, SumAdd
<1>14. SumOf(f, u \cup T) = SumOf(f, wT \cup {x})
    BY <1>8
<1> HIDE DEF U
<1>15. QED
    BY <1>3, <1>4, <1>9, <1>10, <1>12, <1>13, <1>14

\* A sum over the parts of a set, each with its label in D.
Parts(e, f, p, K, D) ==
    /\ \A x \in K : f[x] \in Nat
    /\ \A d \in D : e[d] = SumOf(f, {x \in K : p[x] = d})

LEMMA SumParts ==
    ASSUME NEW K, IsFiniteSet(K), NEW D, IsFiniteSet(D),
           NEW e, NEW f, NEW p, Parts(e, f, p, K, D)
    PROVE  SumOf(e, D) = SumOf(f, {x \in K : p[x] \in D})
<1> USE DEF Parts
<1> DEFINE In(u) == {x \in K : p[x] \in u}
           Of(d) == {x \in K : p[x] = d}
           U == {u \in SUBSET D : ~(SumOf(e, u) = SumOf(f, In(u)))}
<1> SUFFICES ASSUME U # {} PROVE FALSE
    OBVIOUS
<1>0. \A u : IsFiniteSet(In(u)) /\ SumOf(f, In(u)) \in Nat
  <2> SUFFICES ASSUME NEW u PROVE IsFiniteSet(In(u)) /\ SumOf(f, In(u)) \in Nat
      OBVIOUS
  <2>1. In(u) \in SUBSET K
      OBVIOUS
  <2>2. IsFiniteSet(In(u)) /\ \A x \in In(u) : f[x] \in Nat
      BY <2>1, FS_Subset
  <2> HIDE DEF In
  <2>3. QED
      BY <2>2, SumNat
<1>00. \A d : IsFiniteSet(Of(d)) /\ SumOf(f, Of(d)) \in Nat
  <2> SUFFICES ASSUME NEW d PROVE IsFiniteSet(Of(d)) /\ SumOf(f, Of(d)) \in Nat
      OBVIOUS
  <2>1. Of(d) \in SUBSET K
      OBVIOUS
  <2>2. IsFiniteSet(Of(d)) /\ \A x \in Of(d) : f[x] \in Nat
      BY <2>1, FS_Subset
  <2> HIDE DEF Of
  <2>3. QED
      BY <2>2, SumNat
<1>1. \A u \in U : IsFiniteSet(u)
    BY FS_Subset
<1>2. PICK u \in U : \A t \in U : ~(Cardinality(t) < Cardinality(u))
    BY <1>1, LeastSet
<1>3. u \in SUBSET D /\ IsFiniteSet(u) /\ ~(SumOf(e, u) = SumOf(f, In(u)))
    BY <1>1
<1>4. u # {}
  <2> SUFFICES ASSUME u = {} PROVE FALSE
      OBVIOUS
  <2>1. In(u) = {}
      OBVIOUS
  <2> HIDE DEF In
  <2>2. QED
      BY <1>3, <2>1, SumEmpty
<1>5. PICK d \in u : TRUE
    BY <1>4
<1> DEFINE w == u \ {d}
<1>6. w \in SUBSET D /\ Cardinality(w) < Cardinality(u) /\ IsFiniteSet(w)
    BY <1>3, Smaller
<1>7. In(u) = In(w) \cup Of(d) /\ In(w) \cap Of(d) = {} /\ In(w) \cup Of(d) \in SUBSET K
    BY <1>5
<1>8. e[d] = SumOf(f, Of(d))
    BY <1>3
<1>9. \A y \in u : e[y] \in Nat
  <2>1. \A y \in u : e[y] = SumOf(f, Of(y))
      BY <1>3
  <2> HIDE DEF Of
  <2>2. QED
      BY <1>00, <2>1
<1>10. SumOf(e, u) = SumOf(e, w) + e[d]
    BY <1>3, <1>9, SumRemove
<1>11. SumOf(e, w) = SumOf(f, In(w))
  <2> HIDE DEF w, In
  <2>1. QED
      BY <1>2, <1>6
<1> HIDE DEF w, In, Of
<1>12. SumOf(f, In(w) \cup Of(d)) = SumOf(f, In(w)) + SumOf(f, Of(d))
    BY <1>0, <1>00, <1>7, SumUnion
<1>13. QED
    BY <1>0, <1>00, <1>3, <1>7, <1>8, <1>10, <1>11, <1>12

\* The order of two sums does not matter: a holds the sums of the rows of g, b
\* those of its columns c.
Table(g, c, a, b, S, T) ==
    /\ \A x \in S, y \in T : g[x][y] \in Nat /\ c[y][x] = g[x][y]
    /\ \A x \in S : a[x] = SumOf(g[x], T)
    /\ \A y \in T : b[y] = SumOf(c[y], S)

LEMMA SumSwap ==
    ASSUME NEW S, IsFiniteSet(S), NEW T, IsFiniteSet(T),
           NEW g, NEW c, NEW a, NEW b, Table(g, c, a, b, S, T)
    PROVE  SumOf(a, S) = SumOf(b, T)
<1> USE DEF Table
<1> DEFINE Cols(u) == [y \in T |-> SumOf(c[y], u)]
           U == {u \in SUBSET S : ~(SumOf(a, u) = SumOf(Cols(u), T))}
<1>0. SumOf(b, T) = SumOf(Cols(S), T)
  <2>1. \A y \in T : b[y] = Cols(S)[y]
      OBVIOUS
  <2> HIDE DEF Cols
  <2>2. QED
      BY <2>1, SumSame
<1> SUFFICES ASSUME U # {} PROVE FALSE
    BY <1>0
<1>1. \A u \in U : IsFiniteSet(u)
    BY FS_Subset
<1>2. PICK u \in U : \A t \in U : ~(Cardinality(t) < Cardinality(u))
    BY <1>1, LeastSet
<1>3. u \in SUBSET S /\ IsFiniteSet(u) /\ ~(SumOf(a, u) = SumOf(Cols(u), T))
    BY <1>1
<1>4. u # {}
  <2> SUFFICES ASSUME u = {} PROVE FALSE
      OBVIOUS
  <2>1. \A y \in T : Cols(u)[y] = 0
      BY SumEmpty
  <2> HIDE DEF Cols
  <2>2. SumOf(Cols(u), T) = 0
      BY <2>1, SumZero
  <2>3. QED
      BY <1>3, <2>2, SumEmpty
<1>5. PICK x \in u : TRUE
    BY <1>4
<1> DEFINE w == u \ {x}
<1>6. w \in SUBSET S /\ Cardinality(w) < Cardinality(u) /\ IsFiniteSet(w)
    BY <1>3, Smaller
<1>7. \A z \in S : a[z] \in Nat
    BY SumNat
<1>8. SumOf(a, u) = SumOf(a, w) + a[x]
  <2>1. IsFiniteSet(u) /\ \A z \in u : a[z] \in Nat
      BY <1>3, <1>7
  <2> HIDE DEF U, Cols
  <2>2. QED
      BY <2>1, SumRemove
<1>9. SumOf(a, w) = SumOf(Cols(w), T)
  <2> HIDE DEF w, Cols
  <2>1. QED
      BY <1>2, <1>6
<1>10. \A y \in T : Cols(w)[y] \in Nat /\ g[x][y] \in Nat /\ Cols(u)[y] = Cols(w)[y] + g[x][y]
  <2> SUFFICES ASSUME NEW y \in T
               PROVE  Cols(w)[y] \in Nat /\ g[x][y] \in Nat /\ Cols(u)[y] = Cols(w)[y] + g[x][y]
      OBVIOUS
  <2>1. \A z \in u : c[y][z] \in Nat
      BY <1>3
  <2>2. c[y][x] = g[x][y] /\ g[x][y] \in Nat
      BY <1>3
  <2>3. Cols(w)[y] = SumOf(c[y], w) /\ Cols(u)[y] = SumOf(c[y], u)
      OBVIOUS
  <2> HIDE DEF Cols
  <2>4. SumOf(c[y], u) = SumOf(c[y], w) + c[y][x]
      BY <1>3, <2>1, SumRemove
  <2>5. SumOf(c[y], w) \in Nat
      BY <1>6, <2>1, SumNat
  <2>6. QED
      BY <2>2, <2>3, <2>4, <2>5
<1>11. a[x] = SumOf(g[x], T)
    BY <1>3
<1> HIDE DEF w, Cols
<1>12. SumOf(Cols(u), T) = SumOf(Cols(w), T) + SumOf(g[x], T)
    BY <1>10, SumPlus
<1>13. QED
    BY <1>3, <1>8, <1>9, <1>11, <1>12
=============================================================================
