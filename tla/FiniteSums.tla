----------------------------- MODULE FiniteSums -----------------------------
(***************************************************************************)
(* Sums over finite sets: what SumFunctionOnSet of the community modules   *)
(* returns, from its recursive definition.                                 *)
(***************************************************************************)
EXTENDS Integers, FiniteSetsExt, FiniteSetTheorems, TLAPS

Chosen(T) == CHOOSE x \in T : TRUE

\* g is the function by which SumFunctionOnSet(f, T) is computed.
IsSum(f, T, g) ==
  g = [s \in SUBSET T |-> IF s = {} THEN 0 ELSE f[Chosen(s)] + g[s \ {Chosen(s)}]]

LEMMA SumByDefinition ==
  ASSUME NEW f, NEW T
  PROVE  SumFunctionOnSet(f, T) = (CHOOSE g : IsSum(f, T, g))[T]
  BY DEF SumFunctionOnSet, FoldFunctionOnSet, MapThenFoldSet, IsSum, Chosen

LEMMA MinimalSet ==
  ASSUME NEW D, IsFiniteSet(D), NEW C, C \subseteq SUBSET D, C # {}
  PROVE  \E m \in C : \A s \in C : s \subseteq m => s = m
<1> DEFINE R == StrictSubsetOrdering(D)
<1>1. FiniteSubsetsOf(D) = SUBSET D
  BY FS_FiniteSubsetsOfFinite
<1>2. IsWellFoundedOn(R, SUBSET D)
  BY <1>1, FS_StrictSubsetOrderingWellFounded
<1>3. \E m \in C : \A s \in C : ~ (<<s, m>> \in R)
  <2> HIDE DEF R
  <2> QED BY <1>2, WFMin
<1> QED BY <1>3 DEF StrictSubsetOrdering

LEMMA SumIsUnique ==
  ASSUME NEW f, NEW S, NEW T, IsFiniteSet(S), NEW g, NEW h,
         IsSum(f, S, g), IsSum(f, T, h)
  PROVE  \A r \in SUBSET (S \cap T) : g[r] = h[r]
<1> DEFINE C == {r \in SUBSET (S \cap T) : g[r] # h[r]}
<1> SUFFICES ASSUME C # {} PROVE FALSE
  OBVIOUS
<1>0. IsFiniteSet(S \cap T)
  BY FS_Intersection
<1>1. PICK m \in C : \A s \in C : s \subseteq m => s = m
  <2> HIDE DEF C
  <2>1. C \subseteq SUBSET (S \cap T)
    BY DEF C
  <2> QED BY <1>0, <2>1, MinimalSet
<1>2. m # {}
  BY DEF IsSum
<1> DEFINE c == Chosen(m)
<1>3. c \in m
  BY <1>2 DEF Chosen
<1>4. m \ {c} \in SUBSET (S \cap T) /\ m \ {c} \notin C
  BY <1>1, <1>3
<1>5. g[m \ {c}] = h[m \ {c}]
  BY <1>4
<1>6. g[m] = f[c] + g[m \ {c}] /\ h[m] = f[c] + h[m \ {c}]
  BY <1>2 DEF IsSum
<1> QED BY <1>5, <1>6

\* Such a function exists for every finite set.
LEMMA SumExists ==
  ASSUME NEW f, NEW D, IsFiniteSet(D)
  PROVE  \A T \in SUBSET D : \E g : IsSum(f, T, g)
<1> DEFINE C == {T \in SUBSET D : ~ \E g : IsSum(f, T, g)}
<1> SUFFICES ASSUME C # {} PROVE FALSE
  OBVIOUS
<1>1. PICK T \in C : \A s \in C : s \subseteq T => s = T
  <2> HIDE DEF C
  <2>1. C \subseteq SUBSET D
    BY DEF C
  <2> QED BY <2>1, MinimalSet
<1> DEFINE G == [s \in SUBSET T |-> CHOOSE g : IsSum(f, s, g)]
           h == [s \in SUBSET T |->
                   IF s = {} THEN 0
                   ELSE f[Chosen(s)] + G[s \ {Chosen(s)}][s \ {Chosen(s)}]]
<1>2. \A s \in SUBSET T : s # T => IsSum(f, s, G[s])
  <2> SUFFICES ASSUME NEW s \in SUBSET T, s # T PROVE IsSum(f, s, G[s])
    OBVIOUS
  <2>1. \E g : IsSum(f, s, g)
    BY <1>1
  <2> QED BY <2>1
<1>3. \A s \in SUBSET T : s # T => G[s][s] = h[s]
  <2> SUFFICES ASSUME NEW s \in SUBSET T, s # T PROVE G[s][s] = h[s]
    OBVIOUS
  <2>1. CASE s = {}
    <3>1. G[s][s] = 0
      <4> HIDE DEF G
      <4> QED BY <1>2, <2>1 DEF IsSum
    <3> QED BY <3>1, <2>1
  <2>2. CASE s # {}
    <3> DEFINE u == s \ {Chosen(s)}
    <3>1. u \in SUBSET T /\ u \in SUBSET s /\ u # T
      OBVIOUS
    <3>2. IsFiniteSet(s)
      BY <1>1, FS_Subset
    <3>3. IsSum(f, s, G[s]) /\ IsSum(f, u, G[u])
      BY <1>2, <3>1
    <3>4. G[s][u] = G[u][u]
      <4>1. u \in SUBSET (s \cap u)
        OBVIOUS
      <4> HIDE DEF G, u, h, C
      <4>2. \A r \in SUBSET (s \cap u) : G[s][r] = G[u][r]
        BY <3>2, <3>3, SumIsUnique
      <4> QED BY <4>1, <4>2
    <3>5. G[s][s] = f[Chosen(s)] + G[s][u]
      <4> HIDE DEF G
      <4> QED BY <2>2, <3>3 DEF IsSum
    <3>6. h[s] = f[Chosen(s)] + G[u][u]
      BY <2>2
    <3> QED BY <3>4, <3>5, <3>6
  <2> QED BY <2>1, <2>2
<1>4. \A s \in SUBSET T : s # {} => s \ {Chosen(s)} # T /\ s \ {Chosen(s)} \in SUBSET T
  BY DEF Chosen
<1>5. h = [s \in SUBSET T |->
             IF s = {} THEN 0 ELSE f[Chosen(s)] + h[s \ {Chosen(s)}]]
  <2>1. \A s \in SUBSET T : s # {} =>
           G[s \ {Chosen(s)}][s \ {Chosen(s)}] = h[s \ {Chosen(s)}]
    <3> HIDE DEF G, h
    <3> QED BY <1>3, <1>4
  <2> DEFINE k(s) == f[Chosen(s)] + G[s \ {Chosen(s)}][s \ {Chosen(s)}]
  <2>2. \A s \in SUBSET T : s # {} => k(s) = f[Chosen(s)] + h[s \ {Chosen(s)}]
    <3> HIDE DEF G, h
    <3> QED BY <2>1
  <2>3. h = [s \in SUBSET T |-> IF s = {} THEN 0 ELSE k(s)]
    OBVIOUS
  <2> HIDE DEF k, h
  <2> QED BY <2>2, <2>3
<1>6. IsSum(f, T, h)
  <2> HIDE DEF h
  <2> QED BY <1>5 DEF IsSum
<1> QED BY <1>6, <1>1

\* The sum over a nonempty set: what the chosen element adds to the others.
LEMMA SumUnfolds ==
  ASSUME NEW f, NEW T, IsFiniteSet(T)
  PROVE  /\ SumFunctionOnSet(f, {}) = 0
         /\ T # {} => SumFunctionOnSet(f, T) =
              f[Chosen(T)] + SumFunctionOnSet(f, T \ {Chosen(T)})
<1> DEFINE G(s) == CHOOSE g : IsSum(f, s, g)
           c == Chosen(T)
<1>1. \A s \in SUBSET T : IsSum(f, s, G(s))
  <2> SUFFICES ASSUME NEW s \in SUBSET T PROVE IsSum(f, s, G(s))
    OBVIOUS
  <2>1. \E g : IsSum(f, s, g)
    BY SumExists
  <2> QED BY <2>1
<1>2. \A s : SumFunctionOnSet(f, s) = G(s)[s]
  BY SumByDefinition
<1> HIDE DEF G
<1>3. SumFunctionOnSet(f, {}) = 0
  <2>1. IsSum(f, {}, G({}))
    BY <1>1
  <2>2. G({})[{}] = 0
    BY <2>1 DEF IsSum
  <2> QED BY <1>2, <2>2
<1>4. ASSUME T # {}
      PROVE  SumFunctionOnSet(f, T) = f[c] + SumFunctionOnSet(f, T \ {c})
  <2>1. IsSum(f, T, G(T)) /\ IsSum(f, T \ {c}, G(T \ {c}))
    BY <1>1
  <2>2. G(T)[T] = f[c] + G(T)[T \ {c}]
    BY <2>1, <1>4 DEF IsSum
  <2> HIDE DEF c
  <2>3. \A r \in SUBSET (T \cap (T \ {c})) : G(T)[r] = G(T \ {c})[r]
    BY <2>1, SumIsUnique
  <2>4. T \ {c} \in SUBSET (T \cap (T \ {c}))
    OBVIOUS
  <2> QED BY <1>2, <2>2, <2>3, <2>4
<1> QED BY <1>3, <1>4

\* Nothing to add up gives 0; a sum of integers is an integer.
LEMMA SumEmpty ==
  ASSUME NEW f
  PROVE  SumFunctionOnSet(f, {}) = 0
  BY SumUnfolds, FS_EmptySet

LEMMA SumType ==
  ASSUME NEW D, IsFiniteSet(D), NEW f, \A x \in D : f[x] \in Int
  PROVE  \A T \in SUBSET D : SumFunctionOnSet(f, T) \in Int
<1> DEFINE C == {T \in SUBSET D : SumFunctionOnSet(f, T) \notin Int}
<1> SUFFICES ASSUME C # {} PROVE FALSE
  OBVIOUS
<1>1. PICK T \in C : \A s \in C : s \subseteq T => s = T
  <2> HIDE DEF C
  <2>1. C \subseteq SUBSET D
    BY DEF C
  <2> QED BY <2>1, MinimalSet
<1>2. T # {}
  BY SumEmpty
<1> DEFINE c == Chosen(T)
<1>3. c \in T
  BY <1>2 DEF Chosen
<1> HIDE DEF c
<1>4. SumFunctionOnSet(f, T \ {c}) \in Int
  BY <1>1, <1>3
<1>5. SumFunctionOnSet(f, T) = f[c] + SumFunctionOnSet(f, T \ {c})
  <2>1. IsFiniteSet(T)
    BY FS_Subset
  <2> QED BY <2>1, <1>2, SumUnfolds DEF c
<1> QED BY <1>3, <1>4, <1>5

\* The order in which the elements are added does not matter.
LEMMA SumRemove ==
  ASSUME NEW D, IsFiniteSet(D), NEW f, \A x \in D : f[x] \in Int
  PROVE  \A T \in SUBSET D : \A x \in T :
           SumFunctionOnSet(f, T) = f[x] + SumFunctionOnSet(f, T \ {x})
<1> DEFINE S(t) == SumFunctionOnSet(f, t)
           C == {T \in SUBSET D : ~ \A x \in T : S(T) = f[x] + S(T \ {x})}
<1> SUFFICES ASSUME C # {} PROVE FALSE
  OBVIOUS
<1>1. PICK T \in C : \A s \in C : s \subseteq T => s = T
  <2> HIDE DEF C
  <2>1. C \subseteq SUBSET D
    BY DEF C
  <2> QED BY <2>1, MinimalSet
<1>2. PICK x \in T : S(T) # f[x] + S(T \ {x})
  OBVIOUS
<1> DEFINE c == Chosen(T)
<1>3. c \in T /\ T \in SUBSET D
  BY <1>2 DEF Chosen
<1>4. \A t \in SUBSET D : S(t) \in Int
  BY SumType
<1>5. \A s \in SUBSET T : s # {} => S(s) = f[Chosen(s)] + S(s \ {Chosen(s)})
  <2> SUFFICES ASSUME NEW s \in SUBSET T, s # {}
               PROVE  S(s) = f[Chosen(s)] + S(s \ {Chosen(s)})
    OBVIOUS
  <2>1. IsFiniteSet(s)
    BY FS_Subset
  <2> QED BY <2>1, SumUnfolds
<1>6. \A s \in SUBSET T : s # T => \A y \in s : S(s) = f[y] + S(s \ {y})
  BY <1>1
<1> HIDE DEF S, C
<1>7. S(T) = f[c] + S(T \ {c})
  BY <1>3, <1>5
<1>8. c # x
  BY <1>2, <1>7
<1> HIDE DEF c
<1>9. S(T \ {c}) = f[x] + S((T \ {c}) \ {x})
  BY <1>3, <1>6, <1>8
<1>10. S(T \ {x}) = f[c] + S((T \ {x}) \ {c})
  BY <1>3, <1>6, <1>8
<1>11. (T \ {c}) \ {x} = (T \ {x}) \ {c}
  OBVIOUS
<1> DEFINE rest == S((T \ {c}) \ {x})
<1>12. f[x] \in Int /\ f[c] \in Int /\ rest \in Int
  BY <1>3, <1>4
<1>13. S(T) = f[c] + (f[x] + rest) /\ S(T \ {x}) = f[c] + rest
  BY <1>7, <1>9, <1>10, <1>11
<1> HIDE DEF rest
<1> QED BY <1>2, <1>12, <1>13

LEMMA SumAdd ==
  ASSUME NEW D, IsFiniteSet(D), NEW x, x \notin D,
         NEW f, \A y \in D \cup {x} : f[y] \in Int
  PROVE  SumFunctionOnSet(f, D \cup {x}) = f[x] + SumFunctionOnSet(f, D)
<1> DEFINE E == D \cup {x}
<1>1. IsFiniteSet(E) /\ E \in SUBSET E /\ x \in E /\ E \ {x} = D
  BY FS_AddElement
<1> HIDE DEF E
<1>2. SumFunctionOnSet(f, E) = f[x] + SumFunctionOnSet(f, E \ {x})
  <2>1. \A y \in E : f[y] \in Int
    BY DEF E
  <2> QED BY <1>1, <2>1, SumRemove
<1> QED BY <1>1, <1>2 DEF E

\* The sum over one element is its value.
LEMMA SumOfOne ==
  ASSUME NEW x, NEW f, f[x] \in Int
  PROVE  SumFunctionOnSet(f, {x}) = f[x]
<1>1. IsFiniteSet({}) /\ x \notin {} /\ {} \cup {x} = {x}
  BY FS_EmptySet
<1>2. SumFunctionOnSet(f, {} \cup {x}) = f[x] + SumFunctionOnSet(f, {})
  <2>1. \A y \in {} \cup {x} : f[y] \in Int
    OBVIOUS
  <2> QED BY <1>1, <2>1, SumAdd
<1> QED BY <1>1, <1>2, SumEmpty

\* Only what is added up matters.
LEMMA SumSame ==
  ASSUME NEW D, IsFiniteSet(D), NEW f, NEW h, \A x \in D : f[x] = h[x]
  PROVE  SumFunctionOnSet(f, D) = SumFunctionOnSet(h, D)
<1> DEFINE C == {T \in SUBSET D : SumFunctionOnSet(f, T) # SumFunctionOnSet(h, T)}
<1> SUFFICES ASSUME C # {} PROVE FALSE
  OBVIOUS
<1>1. PICK T \in C : \A s \in C : s \subseteq T => s = T
  <2> HIDE DEF C
  <2>1. C \subseteq SUBSET D
    BY DEF C
  <2> QED BY <2>1, MinimalSet
<1>2. T # {}
  BY SumEmpty
<1> DEFINE c == Chosen(T)
<1>3. c \in T
  BY <1>2 DEF Chosen
<1>4. IsFiniteSet(T)
  BY FS_Subset
<1>5. /\ SumFunctionOnSet(f, T) = f[c] + SumFunctionOnSet(f, T \ {c})
      /\ SumFunctionOnSet(h, T) = h[c] + SumFunctionOnSet(h, T \ {c})
  BY <1>2, <1>4, SumUnfolds
<1> HIDE DEF c
<1>6. SumFunctionOnSet(f, T \ {c}) = SumFunctionOnSet(h, T \ {c})
  BY <1>1, <1>3
<1> QED BY <1>3, <1>5, <1>6

\* Two terms that differ in one place differ by what they differ there.
LEMMA SumChange ==
  ASSUME NEW D, IsFiniteSet(D), NEW x \in D,
         NEW f, NEW h, \A y \in D : f[y] \in Int /\ h[y] \in Int,
         \A y \in D \ {x} : f[y] = h[y]
  PROVE  SumFunctionOnSet(h, D) = SumFunctionOnSet(f, D) - f[x] + h[x]
<1>1. SumFunctionOnSet(f, D) = f[x] + SumFunctionOnSet(f, D \ {x})
  BY SumRemove
<1>2. SumFunctionOnSet(h, D) = h[x] + SumFunctionOnSet(h, D \ {x})
  BY SumRemove
<1>3. SumFunctionOnSet(f, D \ {x}) = SumFunctionOnSet(h, D \ {x})
  BY FS_RemoveElement, SumSame
<1>4. SumFunctionOnSet(h, D \ {x}) \in Int
  <2>1. D \ {x} \in SUBSET D
    OBVIOUS
  <2> QED BY <2>1, SumType
<1> QED BY <1>1, <1>2, <1>3, <1>4

\* More terms that are not negative are not less.
LEMMA SumGrows ==
  ASSUME NEW D, IsFiniteSet(D), NEW S, S \subseteq D,
         NEW f, \A x \in D : f[x] \in Nat
  PROVE  SumFunctionOnSet(f, S) <= SumFunctionOnSet(f, D)
<1> DEFINE C == {T \in SUBSET D : S \subseteq T /\ ~ (SumFunctionOnSet(f, S) <= SumFunctionOnSet(f, T))}
<1> SUFFICES ASSUME C # {} PROVE FALSE
  OBVIOUS
<1>1. PICK T \in C : \A s \in C : s \subseteq T => s = T
  <2> HIDE DEF C
  <2>1. C \subseteq SUBSET D
    BY DEF C
  <2> QED BY <2>1, MinimalSet
<1>2. \A t \in SUBSET D : SumFunctionOnSet(f, t) \in Int
  BY SumType
<1>3. PICK c \in T : c \notin S
  <2>1. S # T
    BY <1>2
  <2> QED BY <2>1
<1>4. SumFunctionOnSet(f, T) = f[c] + SumFunctionOnSet(f, T \ {c})
  BY SumRemove
<1>5. T \ {c} \in SUBSET D /\ S \subseteq T \ {c} /\ T \ {c} \notin C
  BY <1>1, <1>3
<1>6. SumFunctionOnSet(f, S) <= SumFunctionOnSet(f, T \ {c})
  BY <1>5
<1>7. SumFunctionOnSet(f, S) \in Int /\ SumFunctionOnSet(f, T \ {c}) \in Int /\ f[c] \in Nat
  BY <1>2, <1>5
<1> QED BY <1>4, <1>6, <1>7

LEMMA SumNat ==
  ASSUME NEW D, IsFiniteSet(D), NEW f, \A x \in D : f[x] \in Nat
  PROVE  SumFunctionOnSet(f, D) \in Nat
<1>1. SumFunctionOnSet(f, {}) <= SumFunctionOnSet(f, D)
  BY SumGrows
<1>2. SumFunctionOnSet(f, D) \in Int
  <2>1. D \in SUBSET D
    OBVIOUS
  <2> QED BY <2>1, SumType
<1> QED BY <1>1, <1>2, SumEmpty

\* A sum is not more than another one if its terms are bounded by different
\* terms of that one.
LEMMA SumBounded ==
  ASSUME NEW S, IsFiniteSet(S), NEW T, IsFiniteSet(T), NEW g \in [S -> T],
         \A x, y \in S : g[x] = g[y] => x = y,
         NEW f, NEW h,
         \A y \in T : h[y] \in Nat,
         \A x \in S : f[x] \in Int /\ f[x] <= h[g[x]]
  PROVE  SumFunctionOnSet(f, S) <= SumFunctionOnSet(h, T)
<1> DEFINE Image(s) == {g[x] : x \in s}
           C == {s \in SUBSET S : ~ (SumFunctionOnSet(f, s) <= SumFunctionOnSet(h, Image(s)))}
<1>0. \A s \in SUBSET S : Image(s) \in SUBSET T
  OBVIOUS
<1>1. C = {}
  <2> SUFFICES ASSUME C # {} PROVE FALSE
    OBVIOUS
  <2>1. PICK s \in C : \A t \in C : t \subseteq s => t = s
    <3> HIDE DEF C
    <3>1. C \subseteq SUBSET S
      BY DEF C
    <3> QED BY <3>1, MinimalSet
  <2>2. \A t \in SUBSET S : SumFunctionOnSet(f, t) \in Int
    BY SumType
  <2>3. \A t \in SUBSET T : SumFunctionOnSet(h, t) \in Int
    BY SumType
  <2>4. s # {}
    <3>1. Image({}) = {}
      OBVIOUS
    <3> HIDE DEF Image
    <3> QED BY <3>1, SumEmpty
  <2>5. PICK c \in s : TRUE
    BY <2>4
  <2>6. SumFunctionOnSet(f, s) = f[c] + SumFunctionOnSet(f, s \ {c})
    BY SumRemove
  <2>7. Image(s) \ {g[c]} = Image(s \ {c}) /\ g[c] \in Image(s)
    OBVIOUS
  <2>8. s \ {c} \in SUBSET S /\ s \ {c} \notin C
    BY <2>1
  <2>9. SumFunctionOnSet(f, s \ {c}) <= SumFunctionOnSet(h, Image(s \ {c}))
    BY <2>8
  <2> HIDE DEF Image, C
  <2>10. SumFunctionOnSet(h, Image(s)) = h[g[c]] + SumFunctionOnSet(h, Image(s) \ {g[c]})
    <3>1. Image(s) \in SUBSET T
      BY <1>0 DEF C
    <3>2. \A y \in T : h[y] \in Int
      OBVIOUS
    <3> QED BY <2>7, <3>1, <3>2, SumRemove
  <2> DEFINE a == SumFunctionOnSet(f, s \ {c})
             b == SumFunctionOnSet(h, Image(s \ {c}))
  <2>11. a \in Int /\ b \in Int /\ f[c] \in Int /\ h[g[c]] \in Int /\ f[c] <= h[g[c]]
    BY <1>0, <2>2, <2>3, <2>8 DEF C
  <2>12. SumFunctionOnSet(f, s) = f[c] + a /\ SumFunctionOnSet(h, Image(s)) = h[g[c]] + b
    BY <2>6, <2>7, <2>10
  <2>13. a <= b
    BY <2>9
  <2> HIDE DEF a, b
  <2>14. SumFunctionOnSet(f, s) <= SumFunctionOnSet(h, Image(s))
    BY <2>11, <2>12, <2>13
  <2> QED BY <2>14 DEF C
<1>2. SumFunctionOnSet(f, S) <= SumFunctionOnSet(h, Image(S))
  BY <1>1
<1>3. SumFunctionOnSet(h, Image(S)) <= SumFunctionOnSet(h, T)
  <2> HIDE DEF Image
  <2> QED BY <1>0, SumGrows
<1>4. /\ SumFunctionOnSet(f, S) \in Int
      /\ SumFunctionOnSet(h, Image(S)) \in Int
      /\ SumFunctionOnSet(h, T) \in Int
  <2>1. S \in SUBSET S /\ T \in SUBSET T /\ Image(S) \in SUBSET T
    BY <1>0
  <2> HIDE DEF Image
  <2> QED BY <2>1, SumType
<1> HIDE DEF Image
<1> QED BY <1>2, <1>3, <1>4

\* Sums of terms that are sums.
LEMMA SumOfSums ==
  ASSUME NEW D, IsFiniteSet(D), NEW e, NEW f, NEW h,
         \A x \in D : f[x] \in Int /\ h[x] \in Int /\ e[x] = f[x] + h[x]
  PROVE  SumFunctionOnSet(e, D) = SumFunctionOnSet(f, D) + SumFunctionOnSet(h, D)
<1> DEFINE S(g, t) == SumFunctionOnSet(g, t)
           C == {T \in SUBSET D : S(e, T) # S(f, T) + S(h, T)}
<1> SUFFICES ASSUME C # {} PROVE FALSE
  BY DEF S
<1>1. PICK T \in C : \A s \in C : s \subseteq T => s = T
  <2> HIDE DEF C
  <2>1. C \subseteq SUBSET D
    BY DEF C
  <2> QED BY <2>1, MinimalSet
<1>2. T # {}
  <2> SUFFICES ASSUME T = {} PROVE FALSE
    OBVIOUS
  <2> DEFINE a == S(e, T)
             b == S(f, T)
             d == S(h, T)
  <2>1. a = 0 /\ b = 0 /\ d = 0
    BY SumEmpty
  <2>2. a # b + d
    OBVIOUS
  <2> HIDE DEF a, b, d
  <2> QED BY <2>1, <2>2
<1>3. PICK c \in T : TRUE
  BY <1>2
<1>4. /\ S(e, T) = e[c] + S(e, T \ {c})
      /\ S(f, T) = f[c] + S(f, T \ {c})
      /\ S(h, T) = h[c] + S(h, T \ {c})
  <2>1. \A x \in D : e[x] \in Int
    OBVIOUS
  <2> QED BY <2>1, SumRemove
<1>5. S(f, T \ {c}) \in Int /\ S(h, T \ {c}) \in Int
  <2>1. T \ {c} \in SUBSET D
    OBVIOUS
  <2> QED BY <2>1, SumType
<1>6. S(e, T \ {c}) = S(f, T \ {c}) + S(h, T \ {c})
  BY <1>1, <1>3
<1>7. e[c] = f[c] + h[c] /\ f[c] \in Int /\ h[c] \in Int
  OBVIOUS
<1>8. S(e, T) # S(f, T) + S(h, T)
  OBVIOUS
<1> HIDE DEF S, C
<1> QED BY <1>4, <1>5, <1>6, <1>7, <1>8

LEMMA SumOfZeros ==
  ASSUME NEW D, IsFiniteSet(D), NEW f, \A x \in D : f[x] = 0
  PROVE  SumFunctionOnSet(f, D) = 0
<1>1. SumFunctionOnSet(f, D) = SumFunctionOnSet(f, D) + SumFunctionOnSet(f, D)
  <2>1. \A x \in D : f[x] \in Int /\ f[x] \in Int /\ f[x] = f[x] + f[x]
    OBVIOUS
  <2> QED BY <2>1, SumOfSums
<1>2. SumFunctionOnSet(f, D) \in Int
  <2>1. D \in SUBSET D
    OBVIOUS
  <2> QED BY <2>1, SumType
<1> DEFINE n == SumFunctionOnSet(f, D)
<1>3. n = n + n /\ n \in Int
  BY <1>1, <1>2
<1> HIDE DEF n
<1>4. n = 0
  BY <1>3
<1> QED BY <1>4 DEF n

\* Terms that are zero add nothing.
LEMMA SumExtended ==
  ASSUME NEW E, IsFiniteSet(E), NEW D, D \subseteq E,
         NEW f, NEW h, \A x \in D : f[x] \in Int /\ h[x] = f[x],
         \A x \in E \ D : h[x] = 0
  PROVE  SumFunctionOnSet(h, E) = SumFunctionOnSet(f, D)
<1>1. IsFiniteSet(D) /\ \A x \in E : h[x] \in Int
  BY FS_Subset
<1>2. SumFunctionOnSet(h, D) = SumFunctionOnSet(f, D)
  BY <1>1, SumSame
<1> DEFINE C == {T \in SUBSET E :
                   D \subseteq T /\ SumFunctionOnSet(h, T) # SumFunctionOnSet(h, D)}
<1>3. C = {}
  <2> SUFFICES ASSUME C # {} PROVE FALSE
    OBVIOUS
  <2>1. PICK T \in C : \A s \in C : s \subseteq T => s = T
    <3> HIDE DEF C
    <3>1. C \subseteq SUBSET E
      BY DEF C
    <3> QED BY <3>1, MinimalSet
  <2>a. /\ T \in SUBSET E /\ D \subseteq T
        /\ SumFunctionOnSet(h, T) # SumFunctionOnSet(h, D)
    OBVIOUS
  <2>b. T # D
    BY <2>a
  <2>2. PICK c \in T : c \notin D
    BY <2>a, <2>b
  <2>3. SumFunctionOnSet(h, T) = h[c] + SumFunctionOnSet(h, T \ {c})
    BY <1>1, <2>2, SumRemove
  <2>4. T \ {c} \in SUBSET E /\ D \subseteq T \ {c} /\ T \ {c} \notin C
    BY <2>1, <2>2, <2>a
  <2>5. SumFunctionOnSet(h, T \ {c}) = SumFunctionOnSet(h, D)
    BY <2>4
  <2>6. SumFunctionOnSet(h, T \ {c}) \in Int /\ h[c] = 0
    BY <1>1, <2>2, <2>4, SumType
  <2> QED BY <2>3, <2>5, <2>6
<1> QED BY <1>2, <1>3

\* Adding up by key.
LEMMA SumByKey ==
  ASSUME NEW K, IsFiniteSet(K), NEW L, IsFiniteSet(L), NEW key \in [L -> K],
         NEW f, \A l \in L : f[l] \in Int
  PROVE  SumFunctionOnSet([k \in K |-> SumFunctionOnSet(f, {l \in L : key[l] = k})], K)
           = SumFunctionOnSet(f, L)
<1> DEFINE S(k, t) == SumFunctionOnSet(f, {l \in t : key[l] = k})
           by(t) == [k \in K |-> S(k, t)]
           C == {t \in SUBSET L : SumFunctionOnSet(by(t), K) # SumFunctionOnSet(f, t)}
<1>i. \A t \in SUBSET L : SumFunctionOnSet(f, t) \in Int
  BY SumType
<1>j. \A t \in SUBSET L, k \in K : S(k, t) \in Int
  <2> TAKE t \in SUBSET L, k \in K
  <2>1. {l \in t : key[l] = k} \in SUBSET L
    OBVIOUS
  <2> QED BY <2>1, <1>i
<1>1. C = {}
  <2> SUFFICES ASSUME C # {} PROVE FALSE
    OBVIOUS
  <2>1. PICK t \in C : \A s \in C : s \subseteq t => s = t
    <3> HIDE DEF C
    <3>1. C \subseteq SUBSET L
      BY DEF C
    <3> QED BY <3>1, MinimalSet
  <2>2. t # {}
    <3> SUFFICES ASSUME t = {} PROVE FALSE
      OBVIOUS
    <3>1. \A k \in K : by(t)[k] = 0
      <4> TAKE k \in K
      <4>1. {l \in t : key[l] = k} = {}
        OBVIOUS
      <4> QED BY <4>1, SumEmpty
    <3>2. SumFunctionOnSet(f, t) = 0
      BY SumEmpty
    <3> DEFINE z == by(t)
    <3>3. \A k \in K : z[k] = 0
      BY <3>1
    <3>4. SumFunctionOnSet(z, K) # SumFunctionOnSet(f, t)
      OBVIOUS
    <3> HIDE DEF z
    <3>5. SumFunctionOnSet(z, K) = 0
      BY <3>3, SumOfZeros
    <3> QED BY <3>2, <3>4, <3>5
  <2>3. PICK c \in t : TRUE
    BY <2>2
  <2> DEFINE u == t \ {c}
             a == by(u)
             b == by(t)
  <2>4. u \in SUBSET L /\ u \notin C
    BY <2>1
  <2>5. SumFunctionOnSet(a, K) = SumFunctionOnSet(f, u)
    BY <2>4
  <2>6. \A k \in K : k # key[c] => b[k] = a[k]
    <3> SUFFICES ASSUME NEW k \in K, k # key[c] PROVE b[k] = a[k]
      OBVIOUS
    <3>1. {l \in t : key[l] = k} = {l \in u : key[l] = k}
      OBVIOUS
    <3> QED BY <3>1
  <2>7. b[key[c]] = f[c] + a[key[c]]
    <3> DEFINE m == {l \in t : key[l] = key[c]}
    <3>1. m \in SUBSET L /\ c \in m /\ m \ {c} = {l \in u : key[l] = key[c]}
      OBVIOUS
    <3> HIDE DEF m
    <3>2. SumFunctionOnSet(f, m) = f[c] + SumFunctionOnSet(f, m \ {c})
      BY <3>1, SumRemove
    <3>3. SumFunctionOnSet(f, m) = f[c] + SumFunctionOnSet(f, {l \in u : key[l] = key[c]})
      BY <3>1, <3>2
    <3> QED BY <3>3 DEF m
  <2>8. SumFunctionOnSet(f, t) = f[c] + SumFunctionOnSet(f, u)
    BY SumRemove
  <2>9. \A k \in K : a[k] \in Int /\ b[k] \in Int
    BY <1>j, <2>4
  <2>10. SumFunctionOnSet(b, K) # SumFunctionOnSet(f, t) /\ key[c] \in K /\ f[c] \in Int
    OBVIOUS
  <2>11. SumFunctionOnSet(f, u) \in Int
    BY <1>i, <2>4
  <2> HIDE DEF a, b, u
  <2>12. SumFunctionOnSet(b, K) = SumFunctionOnSet(a, K) - a[key[c]] + b[key[c]]
    <3> HIDE DEF C, S
    <3>1. key[c] \in K
      BY <2>10
    <3>2. \A y \in K \ {key[c]} : a[y] = b[y]
      BY <2>6
    <3> QED BY <2>9, <3>1, <3>2, SumChange
  <2>13. a[key[c]] \in Int
    BY <2>9, <2>10
  <2> QED BY <2>5, <2>7, <2>8, <2>10, <2>11, <2>12, <2>13
<1>2. SumFunctionOnSet(by(L), K) = SumFunctionOnSet(f, L)
  BY <1>1
<1> QED BY <1>2

LEMMA SumOfSame ==
  ASSUME NEW D, IsFiniteSet(D), NEW f, NEW k \in Int, \A x \in D : f[x] = k
  PROVE  SumFunctionOnSet(f, D) = k * Cardinality(D)
<1> DEFINE C == {T \in SUBSET D : SumFunctionOnSet(f, T) # k * Cardinality(T)}
<1> SUFFICES ASSUME C # {} PROVE FALSE
  OBVIOUS
<1>1. PICK T \in C : \A r \in C : r \subseteq T => r = T
  <2> HIDE DEF C
  <2>1. C \subseteq SUBSET D
    BY DEF C
  <2> QED BY <2>1, MinimalSet
<1>2. T # {}
  <2>1. k * Cardinality({}) = 0 /\ SumFunctionOnSet(f, {}) = 0
    BY SumEmpty, FS_EmptySet
  <2> QED BY <2>1
<1>3. PICK c \in T : TRUE
  BY <1>2
<1>4. T \ {c} \in SUBSET D /\ T \ {c} \notin C
  BY <1>1, <1>3
<1>5. SumFunctionOnSet(f, T \ {c}) = k * Cardinality(T \ {c})
  BY <1>4
<1>6. SumFunctionOnSet(f, T) = k + SumFunctionOnSet(f, T \ {c})
  <2>1. SumFunctionOnSet(f, T) = f[c] + SumFunctionOnSet(f, T \ {c})
    BY <1>3, SumRemove
  <2>2. f[c] = k
    BY <1>3
  <2> QED BY <2>1, <2>2
<1>7. Cardinality(T \ {c}) = Cardinality(T) - 1 /\ Cardinality(T) \in Nat
  <2>1. IsFiniteSet(T)
    BY FS_Subset
  <2> QED BY <1>3, <2>1, FS_RemoveElement, FS_CardinalityType
<1>8. SumFunctionOnSet(f, T) = k * Cardinality(T)
  BY <1>5, <1>6, <1>7
<1> QED BY <1>8

(* Counting is adding ones.                                                *)
LEMMA CountIsSum ==
  ASSUME NEW D, IsFiniteSet(D), NEW f, \A x \in D : f[x] = 1
  PROVE  SumFunctionOnSet(f, D) = Cardinality(D)
<1>1. SumFunctionOnSet(f, D) = 1 * Cardinality(D) /\ Cardinality(D) \in Nat
  BY SumOfSame, FS_CardinalityType
<1> QED BY <1>1

(* The members of the groups are the members of the whole.                 *)
LEMMA CountByKey ==
  ASSUME NEW K, IsFiniteSet(K), NEW L, IsFiniteSet(L), NEW key \in [L -> K]
  PROVE  SumFunctionOnSet([k \in K |-> Cardinality({l \in L : key[l] = k})], K)
           = Cardinality(L)
<1> DEFINE one == [l \in L |-> 1]
           at(k) == {l \in L : key[l] = k}
           sums == [k \in K |-> SumFunctionOnSet(one, at(k))]
           cards == [k \in K |-> Cardinality(at(k))]
<1>1. SumFunctionOnSet(one, L) = Cardinality(L)
  <2>1. \A l \in L : one[l] = 1
    OBVIOUS
  <2> HIDE DEF one
  <2> QED BY <2>1, CountIsSum
<1>2. \A k \in K : sums[k] = cards[k]
  <2> TAKE k \in K
  <2>1. IsFiniteSet(at(k)) /\ \A l \in at(k) : one[l] = 1
    BY FS_Subset
  <2> HIDE DEF one, at
  <2>2. SumFunctionOnSet(one, at(k)) = Cardinality(at(k))
    BY <2>1, CountIsSum
  <2> QED BY <2>2
<1>3. SumFunctionOnSet(sums, K) = SumFunctionOnSet(one, L)
  <2>1. \A l \in L : one[l] \in Int
    OBVIOUS
  <2> HIDE DEF one
  <2> QED BY <2>1, SumByKey
<1>4. SumFunctionOnSet(sums, K) = SumFunctionOnSet(cards, K)
  <2> HIDE DEF sums, cards
  <2> QED BY <1>2, SumSame
<1> QED BY <1>1, <1>3, <1>4

(* Two sums are as near to each other as their summands are together.      *)
LEMMA SumNear ==
  ASSUME NEW D, IsFiniteSet(D), NEW s, NEW e,
         \A x \in D : s[x] \in Int /\ e[x] \in Int,
         NEW m \in Int, NEW n \in Int, NEW k \in Int,
         \A x \in D : -k <= m * s[x] - n * e[x] /\ m * s[x] - n * e[x] <= k
  PROVE  LET d == m * SumFunctionOnSet(s, D) - n * SumFunctionOnSet(e, D)
         IN  -(k * Cardinality(D)) <= d /\ d <= k * Cardinality(D)
<1> DEFINE d(T) == m * SumFunctionOnSet(s, T) - n * SumFunctionOnSet(e, T)
           Near(T) == -(k * Cardinality(T)) <= d(T) /\ d(T) <= k * Cardinality(T)
           C == {T \in SUBSET D : ~ Near(T)}
<1> SUFFICES ASSUME C # {} PROVE FALSE
  OBVIOUS
<1>1. PICK T \in C : \A r \in C : r \subseteq T => r = T
  <2> HIDE DEF C
  <2>1. C \subseteq SUBSET D
    BY DEF C
  <2> QED BY <2>1, MinimalSet
<1>2. T # {}
  <2>1. d({}) = 0 /\ k * Cardinality({}) = 0
    BY SumEmpty, FS_EmptySet
  <2>2. Near({})
    BY <2>1
  <2> QED BY <2>2
<1>3. PICK c \in T : TRUE
  BY <1>2
<1> DEFINE R == T \ {c}
<1>4. /\ SumFunctionOnSet(s, T) = s[c] + SumFunctionOnSet(s, R)
      /\ SumFunctionOnSet(e, T) = e[c] + SumFunctionOnSet(e, R)
  BY SumRemove
<1>5. /\ SumFunctionOnSet(s, R) \in Int /\ SumFunctionOnSet(e, R) \in Int
      /\ s[c] \in Int /\ e[c] \in Int
  BY SumType
<1>6. IsFiniteSet(T) /\ Cardinality(R) = Cardinality(T) - 1 /\ Cardinality(T) \in Nat
  BY FS_Subset, FS_RemoveElement, FS_CardinalityType
<1>7. Near(R)
  BY <1>1, <1>3
<1> HIDE DEF R
<1>8. d(T) = (m * s[c] - n * e[c]) + d(R)
  BY <1>4, <1>5
<1>9. k * Cardinality(T) = k * Cardinality(R) + k
  BY <1>6
<1>10. -k <= m * s[c] - n * e[c] /\ m * s[c] - n * e[c] <= k
  OBVIOUS
<1>11. m * s[c] - n * e[c] \in Int /\ d(R) \in Int /\ k * Cardinality(R) \in Int
  BY <1>5, <1>6
<1> QED BY <1>1, <1>7, <1>8, <1>9, <1>10, <1>11

\* Images

LEMMA FiniteImage ==
  ASSUME NEW S, IsFiniteSet(S), NEW f
  PROVE  IsFiniteSet({f[x] : x \in S})
<1> DEFINE T == {f[x] : x \in S}
           g == [x \in S |-> f[x]]
<1>1. g \in Surjection(S, T)
  BY DEF Surjection
<1>2. IsFiniteSet(T)
  <2> HIDE DEF g, T
  <2> QED BY <1>1, FS_Surjection
<1> QED BY <1>2

\* Extremes

HasGreatest(T) == \E m \in T : \A x \in T : m >= x

LEMMA MaxOfFinite ==
  ASSUME NEW S, IsFiniteSet(S), \A x \in S : x \in Int, S # {}
  PROVE  Max(S) \in S /\ \A x \in S : x <= Max(S)
<1> DEFINE C == {T \in SUBSET S : T # {} /\ ~ HasGreatest(T)}
<1>1. C = {}
  <2> SUFFICES ASSUME C # {} PROVE FALSE
    OBVIOUS
  <2>3. PICK T \in C : \A s \in C : s \subseteq T => s = T
    <3> HIDE DEF C
    <3>1. C \subseteq SUBSET S
      BY DEF C
    <3> QED BY <3>1, MinimalSet
  <2>4. PICK c \in T : TRUE
    OBVIOUS
  <2>5. CASE T = {c}
    BY <2>5 DEF HasGreatest
  <2>6. CASE T # {c}
    <3>1. T \ {c} \in SUBSET S /\ T \ {c} # {}
      BY <2>6
    <3>2. T \ {c} \notin C
      BY <2>3, <2>4
    <3>3. HasGreatest(T \ {c})
      BY <3>1, <3>2
    <3>4. PICK m \in T \ {c} : \A x \in T \ {c} : m >= x
      BY <3>3 DEF HasGreatest
    <3>5. c \in Int /\ m \in Int /\ T \subseteq Int
      OBVIOUS
    <3>6. CASE m >= c
      BY <3>4, <3>6 DEF HasGreatest
    <3>7. CASE ~ (m >= c)
      <4>1. \A x \in T : c >= x
        BY <3>4, <3>5, <3>7
      <4> QED BY <4>1, <2>4 DEF HasGreatest
    <3> QED BY <3>6, <3>7
  <2> QED BY <2>5, <2>6
<1>2. S \in SUBSET S /\ S \notin C
  BY <1>1
<1>3. \E m \in S : \A x \in S : m >= x
  BY <1>2 DEF HasGreatest
<1>4. Max(S) \in S /\ \A x \in S : Max(S) >= x
  BY <1>3 DEF Max
<1> QED BY <1>4

LEMMA MinOfNat ==
  ASSUME NEW S, S \subseteq Nat, S # {}
  PROVE  Min(S) \in S /\ \A x \in S : Min(S) <= x
<1>1. PICK n \in S : TRUE
  OBVIOUS
<1> DEFINE L == {x \in S : x <= n}
           N == {0 - x : x \in L}
<1>2. IsFiniteSet(L)
  <2>1. IsFiniteSet(0 .. n)
    BY FS_Interval
  <2>2. ASSUME NEW x \in L PROVE x \in 0 .. n
    OBVIOUS
  <2>3. L \subseteq 0 .. n
    <3> HIDE DEF L
    <3> QED BY <2>2
  <2> QED BY <2>1, <2>3, FS_Subset
<1>3. IsFiniteSet(N) /\ N # {} /\ N \subseteq Int
  <2>1. N # {} /\ N \subseteq Int
    <3>1. n \in L
      BY <1>1
    <3>2. 0 - n \in N
      BY <3>1
    <3>3. \A x \in L : 0 - x \in Int
      OBVIOUS
    <3> QED BY <3>2, <3>3
  <2>2. IsFiniteSet(N)
    <3> DEFINE f == [x \in L |-> 0 - x]
    <3>1. IsFiniteSet({f[x] : x \in L})
      <4> HIDE DEF f, L
      <4> QED BY <1>2, FiniteImage
    <3> QED BY <3>1
  <2> QED BY <2>1, <2>2
<1>4. PICK m \in N : \A x \in N : x <= m
  <2> HIDE DEF N
  <2> QED BY <1>3, MaxOfFinite
<1>5. PICK y \in L : m = 0 - y
  OBVIOUS
<1>6. \A x \in L : y <= x
  <2> SUFFICES ASSUME NEW x \in L PROVE y <= x
    OBVIOUS
  <2>1. 0 - x <= 0 - y
    BY <1>4, <1>5
  <2> QED BY <2>1
<1>7. y \in S /\ \A x \in S : y <= x
  BY <1>6
<1> QED BY <1>7 DEF Min
=============================================================================
