----------------------------- MODULE LedgerLemmas -----------------------------
(***************************************************************************)
(* Facts about finite sums and about the lines of journal entries, for the *)
(* proofs of every module that keeps balances.  SumFunction of the         *)
(* community modules is defined by a table over all subsets of its domain, *)
(* filled by taking one element away; that there is exactly one such table *)
(* makes it possible to reason about it.                                   *)
(*                                                                         *)
(* Induction over a finite set: there is no smallest subset without the    *)
(* property, since containment is a well-founded order on finite sets.     *)
(***************************************************************************)
EXTENDS DoubleEntry, FiniteSetTheorems, TLAPS

SumPick(s) == CHOOSE x \in s : TRUE

SumEntry(f, g, s) == IF s = {} THEN 0 ELSE f[SumPick(s)] + g[s \ {SumPick(s)}]

SumTable(f, S, g) == g = [s \in SUBSET S |-> SumEntry(f, g, s)]

\* The sum of f over a set is what the table over its subsets says of it.
LEMMA SumUnfold == ASSUME NEW f, NEW S PROVE SumFunctionOnSet(f, S) = (CHOOSE g : SumTable(f, S, g))[S]
BY DEF SumFunctionOnSet, FoldFunctionOnSet, MapThenFoldSet, SumPick, SumTable, SumEntry

\* Of sets of which some are bad, one is bad and has no bad proper subset.
LEMMA SmallestBad ==
    ASSUME NEW S, IsFiniteSet(S), NEW Bad, Bad \subseteq SUBSET S, Bad # {}
    PROVE  \E T \in Bad : \A U \in Bad : U \subseteq T => U = T
<1>1. IsWellFoundedOn(StrictSubsetOrdering(S), FiniteSubsetsOf(S))
      BY FS_StrictSubsetOrderingWellFounded
<1>2. Bad \subseteq FiniteSubsetsOf(S)
      BY FS_Subset DEF FiniteSubsetsOf
<1>3. \E T \in Bad : \A U \in Bad : ~(<<U, T>> \in StrictSubsetOrdering(S))
      BY <1>1, <1>2, WFMin
<1> QED BY <1>3 DEF StrictSubsetOrdering

\* A set of subsets that holds the empty one, and each of which it holds all
\* that have one element less, holds them all.
LEMMA SetInduction ==
    ASSUME NEW S, IsFiniteSet(S), NEW Good, {} \in Good,
           \A T \in SUBSET S : T # {} /\ (\A x \in T : T \ {x} \in Good) => T \in Good
    PROVE  S \in Good
<1> DEFINE Bad == {T \in SUBSET S : T \notin Good}
<1> SUFFICES ASSUME S \notin Good PROVE FALSE
    OBVIOUS
<1>1. Bad \subseteq SUBSET S /\ Bad # {}
      OBVIOUS
<1>2. PICK T \in Bad : \A U \in Bad : U \subseteq T => U = T
  <2> HIDE DEF Bad
  <2> QED BY <1>1, SmallestBad
<1>3. ASSUME NEW x \in T PROVE T \ {x} \in Good
      BY <1>2, <1>3
<1> QED BY <1>2, <1>3

\* The element taken away first is one of the set.
LEMMA SumPickIn == ASSUME NEW s, s # {} PROVE SumPick(s) \in s
BY DEF SumPick

\* There is at most one table of sums.
LEMMA TablesAgree ==
    ASSUME NEW f, NEW S, IsFiniteSet(S), NEW T, T \subseteq S, NEW g, SumTable(f, S, g),
           NEW h, SumTable(f, T, h), NEW s \in SUBSET T
    PROVE  g[s] = h[s]
<1> DEFINE Bad == {t \in SUBSET T : g[t] # h[t]}
<1> SUFFICES ASSUME Bad # {} PROVE FALSE
    OBVIOUS
<1>1. IsFiniteSet(T) /\ Bad \subseteq SUBSET T
      BY FS_Subset
<1>2. PICK t \in Bad : \A u \in Bad : u \subseteq t => u = t
  <2> HIDE DEF Bad
  <2> QED BY <1>1, SmallestBad
<1>3. t \in SUBSET T /\ g[t] = SumEntry(f, g, t) /\ h[t] = SumEntry(f, h, t) /\ g[t] # h[t]
      BY DEF SumTable
<1>4. t # {}
      BY <1>3 DEF SumEntry
<1>5. PICK u : u = t \ {SumPick(t)}
      OBVIOUS
<1>6. u \in SUBSET T /\ u # t /\ u \subseteq t
      BY <1>3, <1>4, <1>5, SumPickIn
<1>7. g[u] = h[u]
      BY <1>2, <1>6
<1> QED BY <1>3, <1>5, <1>7 DEF SumEntry

\* There is a table of sums.
LEMMA TableExists == ASSUME NEW f, NEW S, IsFiniteSet(S) PROVE \E g : SumTable(f, S, g)
<1> DEFINE Bad == {T \in SUBSET S : ~\E g : SumTable(f, T, g)}
<1> SUFFICES ASSUME Bad # {} PROVE FALSE
    OBVIOUS
<1>1. PICK T \in Bad : \A U \in Bad : U \subseteq T => U = T
  <2> HIDE DEF Bad
  <2>1. Bad \subseteq SUBSET S
        BY DEF Bad
  <2> QED BY <2>1, SmallestBad
<1>2. IsFiniteSet(T) /\ T \subseteq S
      BY FS_Subset
<1>3. \A U \in SUBSET T : U # T => \E g : SumTable(f, U, g)
      BY <1>1
<1> DEFINE tab(U) == CHOOSE g : SumTable(f, U, g)
           h == [s \in SUBSET T |-> IF s = T THEN IF T = {} THEN 0
                                              ELSE f[SumPick(T)] + tab(T \ {SumPick(T)})[T \ {SumPick(T)}]
                                    ELSE tab(s)[s]]
<1>4. \A U \in SUBSET T : U # T => SumTable(f, U, tab(U))
      BY <1>3
<1>5. ASSUME NEW s \in SUBSET T PROVE h[s] = SumEntry(f, h, s)
  <2>1. CASE s = {}
    <3>1. CASE s = T
          BY <2>1, <3>1 DEF SumEntry
    <3>2. CASE s # T
      <4>1. SumTable(f, s, tab(s))
            BY <1>4, <3>2
      <4>2. tab(s)[s] = SumEntry(f, tab(s), s)
            BY <4>1 DEF SumTable
      <4> QED BY <2>1, <3>2, <4>2 DEF SumEntry
    <3> QED BY <3>1, <3>2
  <2>2. CASE s # {}
    <3>1. PICK u : u = s \ {SumPick(s)}
          OBVIOUS
    <3>2. u \in SUBSET T /\ u # T /\ u \subseteq s /\ u # s
          BY <2>2, <3>1, SumPickIn
    <3>3. h[u] = tab(u)[u] /\ SumTable(f, u, tab(u))
          BY <1>4, <3>2
    <3>4. CASE s = T
          BY <2>2, <3>1, <3>3, <3>4 DEF SumEntry
    <3>5. CASE s # T
      <4>1. SumTable(f, s, tab(s)) /\ h[s] = tab(s)[s] /\ IsFiniteSet(s)
            BY <1>2, <1>4, <3>5, FS_Subset
      <4>2. tab(s)[s] = SumEntry(f, tab(s), s)
            BY <4>1 DEF SumTable
      <4>3. PICK g, k : g = tab(s) /\ k = tab(u)
            OBVIOUS
      <4>4. g[u] = k[u]
            BY <3>2, <3>3, <4>1, <4>3, TablesAgree
      <4> QED BY <2>2, <3>1, <3>3, <4>1, <4>2, <4>3, <4>4 DEF SumEntry
    <3> QED BY <3>4, <3>5
  <2> QED BY <2>1, <2>2
<1>6. SumTable(f, T, h)
      BY <1>5 DEF SumTable
<1> QED BY <1>6

\* The table of a set has the sums over all its subsets.
LEMMA SumOfTable == ASSUME NEW f, NEW S, IsFiniteSet(S), NEW g, SumTable(f, S, g), NEW s \in SUBSET S
    PROVE SumFunctionOnSet(f, s) = g[s]
<1>1. IsFiniteSet(s)
      BY FS_Subset
<1>2. PICK h : h = (CHOOSE k : SumTable(f, s, k))
      OBVIOUS
<1>3. SumTable(f, s, h)
      BY <1>1, <1>2, TableExists
<1>4. SumFunctionOnSet(f, s) = h[s]
      BY <1>2, SumUnfold
<1> QED BY <1>3, <1>4, TablesAgree

\* A sum is that of one element and that of the rest.
LEMMA SumUnrolls == ASSUME NEW f, NEW S, IsFiniteSet(S), S # {}
    PROVE SumFunctionOnSet(f, S) = f[SumPick(S)] + SumFunctionOnSet(f, S \ {SumPick(S)})
<1>1. PICK g : SumTable(f, S, g)
      BY TableExists
<1>2. SumFunctionOnSet(f, S) = g[S]
      BY <1>1, SumOfTable
<1>3. SumFunctionOnSet(f, S \ {SumPick(S)}) = g[S \ {SumPick(S)}]
      BY <1>1, SumOfTable
<1>4. g[S] = SumEntry(f, g, S)
      BY <1>1 DEF SumTable
<1> QED BY <1>2, <1>3, <1>4 DEF SumEntry

\* The sum over no element is zero.
LEMMA SumEmpty == ASSUME NEW f PROVE SumFunctionOnSet(f, {}) = 0
<1>1. IsFiniteSet({})
      BY FS_EmptySet
<1>2. PICK g : SumTable(f, {}, g)
      BY <1>1, TableExists
<1>3. SumFunctionOnSet(f, {}) = g[{}]
      BY <1>1, <1>2, SumOfTable
<1> QED BY <1>2, <1>3 DEF SumTable, SumEntry


\* A sum of integers is an integer.
LEMMA SumInt ==
    ASSUME NEW f, NEW S, IsFiniteSet(S), \A x \in S : f[x] \in Int
    PROVE  SumFunctionOnSet(f, S) \in Int
<1> DEFINE Good == {T \in SUBSET S : SumFunctionOnSet(f, T) \in Int}
<1>1. {} \in Good
      BY SumEmpty
<1>2. ASSUME NEW T \in SUBSET S, T # {}, \A x \in T : T \ {x} \in Good PROVE T \in Good
  <2>1. PICK c \in T : c = SumPick(T)
        BY <1>2, SumPickIn
  <2>2. SumFunctionOnSet(f, T) = f[c] + SumFunctionOnSet(f, T \ {c})
        BY <1>2, <2>1, FS_Subset, SumUnrolls
  <2> QED BY <1>2, <2>2
<1>3. S \in Good
  <2> HIDE DEF Good
  <2> QED BY <1>1, <1>2, SetInduction
<1> QED BY <1>3

\* Any of the elements may be taken out first.
LEMMA SumTakes ==
    ASSUME NEW f, NEW S, IsFiniteSet(S), \A x \in S : f[x] \in Int, NEW a \in S
    PROVE  SumFunctionOnSet(f, S) = f[a] + SumFunctionOnSet(f, S \ {a})
<1> DEFINE Good == {T \in SUBSET S : \A x \in T :
                        SumFunctionOnSet(f, T) = f[x] + SumFunctionOnSet(f, T \ {x})}
<1>1. {} \in Good
      OBVIOUS
<1>2. ASSUME NEW T \in SUBSET S, T # {}, \A x \in T : T \ {x} \in Good PROVE T \in Good
  <2>1. PICK c \in T : c = SumPick(T)
        BY <1>2, SumPickIn
  <2>2. SumFunctionOnSet(f, T) = f[c] + SumFunctionOnSet(f, T \ {c})
        BY <1>2, <2>1, FS_Subset, SumUnrolls
  <2>3. ASSUME NEW x \in T, x # c
        PROVE  SumFunctionOnSet(f, T) = f[x] + SumFunctionOnSet(f, T \ {x})
    <3>1. PICK U, V, W : U = T \ {c} /\ V = T \ {x} /\ W = T \ {x, c}
          OBVIOUS
    <3>2. W = U \ {x} /\ W = V \ {c} /\ x \in U /\ c \in V /\ U \in Good /\ V \in Good
          BY <1>2, <2>3, <3>1
    <3>3. /\ SumFunctionOnSet(f, U) = f[x] + SumFunctionOnSet(f, W)
          /\ SumFunctionOnSet(f, V) = f[c] + SumFunctionOnSet(f, W)
          BY <3>2
    <3>4. IsFiniteSet(W) /\ \A y \in W : f[y] \in Int
          BY <3>1, FS_Subset
    <3>5. SumFunctionOnSet(f, W) \in Int
          BY <3>4, SumInt
    <3>6. f[x] \in Int /\ f[c] \in Int
          OBVIOUS
    <3> QED BY <2>2, <3>1, <3>3, <3>5, <3>6
  <2> QED BY <2>2, <2>3
<1>3. S \in Good
  <2> HIDE DEF Good
  <2> QED BY <1>1, <1>2, SetInduction
<1> QED BY <1>3

\* Only the terms count.
LEMMA SumSame ==
    ASSUME NEW f, NEW g, NEW S, IsFiniteSet(S), \A x \in S : f[x] = g[x]
    PROVE  SumFunctionOnSet(f, S) = SumFunctionOnSet(g, S)
<1> DEFINE Good == {T \in SUBSET S : SumFunctionOnSet(f, T) = SumFunctionOnSet(g, T)}
<1>1. {} \in Good
      BY SumEmpty
<1>2. ASSUME NEW T \in SUBSET S, T # {}, \A x \in T : T \ {x} \in Good PROVE T \in Good
  <2>1. PICK c \in T : c = SumPick(T)
        BY <1>2, SumPickIn
  <2>2. /\ SumFunctionOnSet(f, T) = f[c] + SumFunctionOnSet(f, T \ {c})
        /\ SumFunctionOnSet(g, T) = g[c] + SumFunctionOnSet(g, T \ {c})
        BY <1>2, <2>1, FS_Subset, SumUnrolls
  <2> QED BY <1>2, <2>2
<1>3. S \in Good
  <2> HIDE DEF Good
  <2> QED BY <1>1, <1>2, SetInduction
<1> QED BY <1>3

\* A sum of natural numbers is one, and it is zero if all its terms are.
LEMMA SumNat ==
    ASSUME NEW f, NEW S, IsFiniteSet(S), \A x \in S : f[x] \in Nat
    PROVE  /\ SumFunctionOnSet(f, S) \in Nat
           /\ (\A x \in S : f[x] = 0) => SumFunctionOnSet(f, S) = 0
<1> DEFINE Good == {T \in SUBSET S :
                        /\ SumFunctionOnSet(f, T) \in Nat
                        /\ (\A x \in T : f[x] = 0) => SumFunctionOnSet(f, T) = 0}
<1>1. {} \in Good
      BY SumEmpty
<1>2. ASSUME NEW T \in SUBSET S, T # {}, \A x \in T : T \ {x} \in Good PROVE T \in Good
  <2>1. PICK c \in T : c = SumPick(T)
        BY <1>2, SumPickIn
  <2>2. SumFunctionOnSet(f, T) = f[c] + SumFunctionOnSet(f, T \ {c})
        BY <1>2, <2>1, FS_Subset, SumUnrolls
  <2>3. f[c] \in Nat /\ T \ {c} \in Good
        BY <1>2
  <2> QED BY <2>2, <2>3
<1>3. S \in Good
  <2> HIDE DEF Good
  <2> QED BY <1>1, <1>2, SetInduction
<1> QED BY <1>3

\* The sum of two tables is the sum of their sums.
LEMMA SumPlus ==
    ASSUME NEW f, NEW g, NEW h, NEW S, IsFiniteSet(S),
           \A x \in S : f[x] \in Int /\ g[x] \in Int /\ h[x] = f[x] + g[x]
    PROVE  SumFunctionOnSet(h, S) = SumFunctionOnSet(f, S) + SumFunctionOnSet(g, S)
<1> DEFINE Good == {T \in SUBSET S :
                        SumFunctionOnSet(h, T) = SumFunctionOnSet(f, T) + SumFunctionOnSet(g, T)}
<1>1. {} \in Good
      BY SumEmpty
<1>2. ASSUME NEW T \in SUBSET S, T # {}, \A x \in T : T \ {x} \in Good PROVE T \in Good
  <2>1. PICK c \in T : c = SumPick(T)
        BY <1>2, SumPickIn
  <2>2. /\ SumFunctionOnSet(f, T) = f[c] + SumFunctionOnSet(f, T \ {c})
        /\ SumFunctionOnSet(g, T) = g[c] + SumFunctionOnSet(g, T \ {c})
        /\ SumFunctionOnSet(h, T) = h[c] + SumFunctionOnSet(h, T \ {c})
        BY <1>2, <2>1, FS_Subset, SumUnrolls
  <2>3. PICK U : U = T \ {c}
        OBVIOUS
  <2>4. IsFiniteSet(U) /\ U \in Good /\ \A x \in U : f[x] \in Int /\ g[x] \in Int
        BY <1>2, <2>3, FS_Subset
  <2>5. SumFunctionOnSet(f, U) \in Int /\ SumFunctionOnSet(g, U) \in Int
        BY <2>4, SumInt
  <2>6. f[c] \in Int /\ g[c] \in Int /\ h[c] = f[c] + g[c]
        OBVIOUS
  <2> QED BY <2>2, <2>3, <2>4, <2>5, <2>6
<1>3. S \in Good
  <2> HIDE DEF Good
  <2> QED BY <1>1, <1>2, SetInduction
<1> QED BY <1>3

\* The sum with the signs turned.
LEMMA SumNegated ==
    ASSUME NEW f, NEW g, NEW S, IsFiniteSet(S), \A x \in S : f[x] \in Int /\ g[x] = -f[x]
    PROVE  SumFunctionOnSet(g, S) = -SumFunctionOnSet(f, S)
<1>1. PICK z : z = [x \in S |-> 0]
      OBVIOUS
<1>2. \A x \in S : z[x] \in Nat /\ z[x] = 0 /\ f[x] \in Int /\ g[x] \in Int /\ z[x] = f[x] + g[x]
      BY <1>1
<1>3. SumFunctionOnSet(z, S) = SumFunctionOnSet(f, S) + SumFunctionOnSet(g, S)
      BY <1>2, SumPlus
<1>4. SumFunctionOnSet(z, S) = 0
      BY <1>2, SumNat
<1>5. SumFunctionOnSet(f, S) \in Int /\ SumFunctionOnSet(g, S) \in Int
      BY <1>2, SumInt
<1> QED BY <1>3, <1>4, <1>5

\* Terms that are zero can be left out.
LEMMA SumSupport ==
    ASSUME NEW f, NEW S, IsFiniteSet(S), \A x \in S : f[x] \in Int,
           NEW R \in SUBSET S, \A x \in S \ R : f[x] = 0
    PROVE  SumFunctionOnSet(f, S) = SumFunctionOnSet(f, R)
<1> DEFINE Good == {T \in SUBSET S : SumFunctionOnSet(f, T) = SumFunctionOnSet(f, T \cap R)}
<1>1. {} \in Good
      OBVIOUS
<1>2. ASSUME NEW T \in SUBSET S, T # {}, \A x \in T : T \ {x} \in Good PROVE T \in Good
  <2>1. PICK c : c \in T
        BY <1>2
  <2>2. PICK U, V, W : U = T \ {c} /\ V = T \cap R /\ W = U \cap R
        OBVIOUS
  <2>3. /\ IsFiniteSet(T) /\ IsFiniteSet(U) /\ IsFiniteSet(V) /\ IsFiniteSet(W)
        /\ \A x \in T : f[x] \in Int
        /\ \A x \in V : f[x] \in Int
        /\ \A x \in W : f[x] \in Int
        BY <2>2, FS_Subset
  <2>4. SumFunctionOnSet(f, T) = f[c] + SumFunctionOnSet(f, U)
        BY <2>1, <2>2, <2>3, SumTakes
  <2>5. SumFunctionOnSet(f, U) = SumFunctionOnSet(f, W)
        BY <1>2, <2>1, <2>2
  <2>6. SumFunctionOnSet(f, V) = f[c] + SumFunctionOnSet(f, W)
    <3>1. CASE c \in R
      <4>1. c \in V /\ W = V \ {c}
            BY <2>1, <2>2, <3>1
      <4> QED BY <2>3, <4>1, SumTakes
    <3>2. CASE c \notin R
      <4>1. W = V /\ f[c] = 0
            BY <2>1, <2>2, <3>2
      <4>2. SumFunctionOnSet(f, W) \in Int
            BY <2>3, SumInt
      <4> QED BY <4>1, <4>2
    <3> QED BY <3>1, <3>2
  <2> QED BY <2>2, <2>4, <2>5, <2>6
<1>3. S \in Good
  <2> HIDE DEF Good
  <2> QED BY <1>1, <1>2, SetInduction
<1>4. S \cap R = R
      OBVIOUS
<1> QED BY <1>3, <1>4

\* A table f and the same by columns, g, with the sums of its rows and columns.
SumsOf(f, g, S, T, rows, cols) ==
    /\ \A x \in S : \A y \in T : f[x][y] \in Int /\ g[y][x] = f[x][y]
    /\ \A x \in S : rows[x] = SumFunctionOnSet(f[x], T)
    /\ \A y \in T : cols[y] = SumFunctionOnSet(g[y], S)

\* Rows first or columns first: the sum of the table is the same.
LEMMA SumSwaps ==
    ASSUME NEW S, IsFiniteSet(S), NEW T, IsFiniteSet(T),
           NEW f, NEW g, NEW rows, NEW cols, SumsOf(f, g, S, T, rows, cols)
    PROVE  SumFunctionOnSet(rows, S) = SumFunctionOnSet(cols, T)
<1>0. /\ \A x \in S : \A y \in T : f[x][y] \in Int /\ g[y][x] = f[x][y]
      /\ \A x \in S : rows[x] = SumFunctionOnSet(f[x], T)
      /\ \A y \in T : cols[y] = SumFunctionOnSet(g[y], S)
      BY DEF SumsOf
<1> DEFINE Col(R) == [y \in T |-> SumFunctionOnSet([x \in S |-> f[x][y]], R)]
           Good == {R \in SUBSET S : SumFunctionOnSet(rows, R) = SumFunctionOnSet(Col(R), T)}
<1>1. {} \in Good
  <2>1. PICK z : z = Col({})
        OBVIOUS
  <2>2. \A y \in T : z[y] \in Nat /\ z[y] = 0
        BY <2>1, SumEmpty
  <2>3. SumFunctionOnSet(z, T) = 0
        BY <2>2, SumNat
  <2> QED BY <2>1, <2>3, SumEmpty
<1>2. ASSUME NEW R \in SUBSET S, R # {}, \A x \in R : R \ {x} \in Good PROVE R \in Good
  <2>1. PICK c : c \in R
        BY <1>2
  <2>2. PICK U : U = R \ {c}
        OBVIOUS
  <2>3. IsFiniteSet(R) /\ IsFiniteSet(U) /\ \A x \in R : rows[x] \in Int
    <3>1. IsFiniteSet(R) /\ IsFiniteSet(U)
          BY <2>2, FS_Subset
    <3>2. ASSUME NEW x \in R PROVE rows[x] \in Int
      <4>1. PICK i : i = f[x]
            OBVIOUS
      <4>2. \A y \in T : i[y] \in Int
            BY <1>0, <4>1
      <4>3. SumFunctionOnSet(i, T) \in Int
            BY <4>2, SumInt
      <4> QED BY <1>0, <4>1, <4>3
    <3> QED BY <3>1, <3>2
  <2>4. SumFunctionOnSet(rows, R) = rows[c] + SumFunctionOnSet(rows, U)
        BY <2>1, <2>2, <2>3, SumTakes
  <2>5. PICK i, h, k : i = f[c] /\ h = Col(U) /\ k = Col(R)
        OBVIOUS
  <2>6. ASSUME NEW y \in T PROVE i[y] \in Int /\ h[y] \in Int /\ k[y] = i[y] + h[y]
    <3>1. PICK col : col = [x \in S |-> f[x][y]]
          OBVIOUS
    <3>2. /\ \A x \in R : col[x] \in Int
          /\ \A x \in U : col[x] \in Int
          /\ col[c] = i[y] /\ i[y] \in Int
          BY <1>0, <2>1, <2>2, <2>5, <3>1
    <3>3. h[y] = SumFunctionOnSet(col, U) /\ k[y] = SumFunctionOnSet(col, R)
          BY <2>5, <3>1
    <3>4. SumFunctionOnSet(col, U) \in Int
          BY <2>3, <3>2, SumInt
    <3>5. SumFunctionOnSet(col, R) = col[c] + SumFunctionOnSet(col, U)
          BY <2>1, <2>2, <2>3, <3>2, SumTakes
    <3> QED BY <3>2, <3>3, <3>4, <3>5
  <2>7. SumFunctionOnSet(k, T) = SumFunctionOnSet(i, T) + SumFunctionOnSet(h, T)
        BY <2>6, SumPlus
  <2>8. rows[c] = SumFunctionOnSet(i, T)
        BY <1>0, <2>1, <2>5
  <2>9. SumFunctionOnSet(rows, U) = SumFunctionOnSet(h, T)
        BY <1>2, <2>1, <2>2, <2>5
  <2> QED BY <2>4, <2>5, <2>7, <2>8, <2>9
<1>3. S \in Good
  <2> HIDE DEF Good
  <2> QED BY <1>1, <1>2, SetInduction
<1>4. PICK z : z = Col(S)
      OBVIOUS
<1>5. ASSUME NEW y \in T PROVE z[y] = cols[y]
  <2>1. PICK col, h : col = [x \in S |-> f[x][y]] /\ h = g[y]
        OBVIOUS
  <2>2. \A x \in S : col[x] = h[x]
        BY <1>0, <2>1
  <2>3. SumFunctionOnSet(col, S) = SumFunctionOnSet(h, S)
        BY <2>2, SumSame
  <2> QED BY <1>0, <1>4, <2>1, <2>3
<1>6. SumFunctionOnSet(z, T) = SumFunctionOnSet(cols, T)
      BY <1>5, SumSame
<1> QED BY <1>3, <1>4, <1>6

\* The sum over two sets that have nothing in common.
LEMMA SumJoins ==
    ASSUME NEW f, NEW S, IsFiniteSet(S), NEW R, IsFiniteSet(R), S \cap R = {},
           \A x \in S \cup R : f[x] \in Int
    PROVE  SumFunctionOnSet(f, S \cup R) = SumFunctionOnSet(f, S) + SumFunctionOnSet(f, R)
<1> DEFINE g == [x \in S \cup R |-> IF x \in S THEN f[x] ELSE 0]
           h == [x \in S \cup R |-> IF x \in R THEN f[x] ELSE 0]
<1>1. PICK A : A = S \cup R
      OBVIOUS
<1>2. IsFiniteSet(A)
      BY <1>1, FS_Union
<1>3. \A x \in A : g[x] \in Int /\ h[x] \in Int /\ f[x] = g[x] + h[x]
      BY <1>1
<1>4. /\ \A x \in A \ S : g[x] = 0
      /\ \A x \in A \ R : h[x] = 0
      /\ \A x \in S : g[x] = f[x]
      /\ \A x \in R : h[x] = f[x]
      /\ S \in SUBSET A /\ R \in SUBSET A
      BY <1>1
<1> HIDE DEF g, h
<1>5. SumFunctionOnSet(f, A) = SumFunctionOnSet(g, A) + SumFunctionOnSet(h, A)
      BY <1>2, <1>3, SumPlus
<1>6. SumFunctionOnSet(g, A) = SumFunctionOnSet(g, S) /\ SumFunctionOnSet(h, A) = SumFunctionOnSet(h, R)
      BY <1>2, <1>3, <1>4, SumSupport
<1>7. SumFunctionOnSet(g, S) = SumFunctionOnSet(f, S) /\ SumFunctionOnSet(h, R) = SumFunctionOnSet(f, R)
      BY <1>4, SumSame
<1> QED BY <1>1, <1>5, <1>6, <1>7

\* The sums over what has a key in T, added up key by key.
KeyedSums(f, S, key, parts, T) ==
    /\ \A x \in S : key[x] \in T
    /\ \A x \in S : f[x] \in Int
    /\ \A y \in T : parts[y] = SumFunctionOnSet(f, {x \in S : key[x] = y})

\* The elements may be sorted by a key and summed key by key.
LEMMA SumByKey ==
    ASSUME NEW S, IsFiniteSet(S), NEW T, IsFiniteSet(T), NEW key, NEW f, NEW parts,
           KeyedSums(f, S, key, parts, T)
    PROVE  SumFunctionOnSet(f, S) = SumFunctionOnSet(parts, T)
<1>1. /\ \A x \in S : key[x] \in T
      /\ \A x \in S : f[x] \in Int
      /\ \A y \in T : parts[y] = SumFunctionOnSet(f, {x \in S : key[x] = y})
      BY DEF KeyedSums
<1>2. PICK t, u : /\ t = [x \in S |-> [y \in T |-> IF key[x] = y THEN f[x] ELSE 0]]
                  /\ u = [y \in T |-> [x \in S |-> IF key[x] = y THEN f[x] ELSE 0]]
      OBVIOUS
<1>3. \A x \in S : \A y \in T : t[x][y] = (IF key[x] = y THEN f[x] ELSE 0) /\ u[y][x] = t[x][y]
      BY <1>2
<1>4. ASSUME NEW x \in S PROVE f[x] = SumFunctionOnSet(t[x], T)
  <2>1. PICK g, k : g = t[x] /\ k = key[x]
        OBVIOUS
  <2>2. /\ \A y \in T : g[y] \in Int
        /\ \A y \in T \ {k} : g[y] = 0
        /\ k \in T /\ {k} \in SUBSET T /\ g[k] = f[x] /\ f[x] \in Int
        BY <1>3, <1>1, <2>1
  <2>3. SumFunctionOnSet(g, T) = SumFunctionOnSet(g, {k})
        BY <2>2, SumSupport
  <2>4. IsFiniteSet({k}) /\ {k} \ {k} = {}
        BY FS_Singleton
  <2>5. SumFunctionOnSet(g, {k}) = g[k] + SumFunctionOnSet(g, {k} \ {k})
        BY <2>2, <2>4, SumTakes
  <2>6. SumFunctionOnSet(g, {k} \ {k}) = 0
        BY <2>4, SumEmpty
  <2>7. SumFunctionOnSet(g, T) = f[x]
        BY <2>2, <2>3, <2>5, <2>6
  <2> QED BY <2>1, <2>7
<1>5. ASSUME NEW y \in T PROVE parts[y] = SumFunctionOnSet(u[y], S)
  <2>1. PICK c, R : c = u[y] /\ R = {x \in S : key[x] = y}
        OBVIOUS
  <2>2. /\ R \in SUBSET S /\ IsFiniteSet(R)
        /\ \A x \in S : c[x] \in Int
        /\ \A x \in S \ R : c[x] = 0
        /\ \A x \in R : c[x] = f[x]
        BY <1>3, <1>1, <2>1, FS_Subset
  <2>3. SumFunctionOnSet(c, S) = SumFunctionOnSet(c, R)
        BY <2>2, SumSupport
  <2>4. SumFunctionOnSet(c, R) = SumFunctionOnSet(f, R)
        BY <2>2, SumSame
  <2> QED BY <1>1, <2>1, <2>3, <2>4
<1>6. SumsOf(t, u, S, T, f, parts)
      BY <1>3, <1>4, <1>5, <1>1 DEF SumsOf
<1> QED BY <1>6, SumSwaps

----------------------------------------------------------------------------
(* Sums of functions *)

\* The sum of a function is its sum over its domain.
LEMMA SumOverDomain == ASSUME NEW f PROVE SumFunction(f) = SumFunctionOnSet(f, DOMAIN f)
BY DEF SumFunction, SumFunctionOnSet, FoldFunction, FoldFunctionOnSet

\* A finite sum of integers is an integer.
LEMMA SumFunctionInt ==
    ASSUME NEW f, IsFiniteSet(DOMAIN f), \A x \in DOMAIN f : f[x] \in Int
    PROVE  SumFunction(f) \in Int
BY SumOverDomain, SumInt

\* A finite sum of naturals is a natural, and zero if all of them are.
LEMMA SumFunctionNat ==
    ASSUME NEW f, IsFiniteSet(DOMAIN f), \A x \in DOMAIN f : f[x] \in Nat
    PROVE  /\ SumFunction(f) \in Nat
           /\ (\A x \in DOMAIN f : f[x] = 0) => SumFunction(f) = 0
BY SumOverDomain, SumNat

\* One term more.
LEMMA SumGrows ==
    ASSUME NEW f, IsFiniteSet(DOMAIN f), NEW a, a \notin DOMAIN f,
           NEW g, DOMAIN g = DOMAIN f \cup {a},
           \A x \in DOMAIN g : g[x] \in Int,
           \A x \in DOMAIN f : g[x] = f[x]
    PROVE  SumFunction(g) = SumFunction(f) + g[a]
<1>1. PICK S, R : S = DOMAIN f /\ R = DOMAIN g
      OBVIOUS
<1>2. IsFiniteSet(S) /\ IsFiniteSet(R) /\ R \ {a} = S /\ a \in R
      BY <1>1, FS_AddElement
<1>3. SumFunctionOnSet(g, R) = g[a] + SumFunctionOnSet(g, R \ {a})
      BY <1>1, <1>2, SumTakes
<1>4. SumFunctionOnSet(g, S) = SumFunctionOnSet(f, S)
      BY <1>1, <1>2, SumSame
<1>5. SumFunctionOnSet(g, S) \in Int /\ g[a] \in Int
  <2>1. \A x \in S : g[x] \in Int
        BY <1>1
  <2> QED BY <1>1, <1>2, <2>1, SumInt
<1> QED BY <1>1, <1>2, <1>3, <1>4, <1>5, SumOverDomain

\* One term changed.
LEMMA SumChanges ==
    ASSUME NEW f, IsFiniteSet(DOMAIN f), NEW a \in DOMAIN f, NEW g, DOMAIN g = DOMAIN f,
           \A x \in DOMAIN f : f[x] \in Int,
           g[a] \in Int, \A x \in DOMAIN f : x # a => g[x] = f[x]
    PROVE  SumFunction(g) = SumFunction(f) - f[a] + g[a]
<1>1. PICK S, R : S = DOMAIN f /\ R = S \ {a}
      OBVIOUS
<1>2. /\ IsFiniteSet(S) /\ IsFiniteSet(R)
      /\ \A x \in S : f[x] \in Int /\ g[x] \in Int
      /\ \A x \in R : f[x] \in Int /\ g[x] = f[x]
      BY <1>1, FS_Subset
<1>3. /\ SumFunctionOnSet(f, S) = f[a] + SumFunctionOnSet(f, R)
      /\ SumFunctionOnSet(g, S) = g[a] + SumFunctionOnSet(g, R)
      BY <1>1, <1>2, SumTakes
<1>4. SumFunctionOnSet(g, R) = SumFunctionOnSet(f, R) /\ SumFunctionOnSet(f, R) \in Int
      BY <1>2, SumSame, SumInt
<1> QED BY <1>1, <1>2, <1>3, <1>4, SumOverDomain

\* Term by term sums.
LEMMA SumFunctionPlus ==
    ASSUME NEW f, IsFiniteSet(DOMAIN f), NEW g, DOMAIN g = DOMAIN f, NEW h, DOMAIN h = DOMAIN f,
           \A x \in DOMAIN f : f[x] \in Int /\ g[x] \in Int /\ h[x] = f[x] + g[x]
    PROVE  SumFunction(h) = SumFunction(f) + SumFunction(g)
BY SumOverDomain, SumPlus

\* All of the terms zero but one.
LEMMA SumOfOne ==
    ASSUME NEW f, IsFiniteSet(DOMAIN f), NEW a \in DOMAIN f, f[a] \in Int,
           \A x \in DOMAIN f : x # a => f[x] = 0
    PROVE  SumFunction(f) = f[a]
<1>1. PICK S, R : S = DOMAIN f /\ R = S \ {a}
      OBVIOUS
<1>2. /\ IsFiniteSet(S) /\ IsFiniteSet(R) /\ a \in S
      /\ \A x \in S : f[x] \in Int
      /\ \A x \in R : f[x] \in Nat /\ f[x] = 0
      BY <1>1, FS_Subset
<1>3. SumFunctionOnSet(f, S) = f[a] + SumFunctionOnSet(f, R)
      BY <1>1, <1>2, SumTakes
<1>4. SumFunctionOnSet(f, R) = 0
      BY <1>2, SumNat
<1> QED BY <1>1, <1>3, <1>4, SumOverDomain

----------------------------------------------------------------------------
(* Lines and entries *)

\* Lines whose amounts can be added up.
HasAmounts(lines) == IsFiniteSet(DOMAIN lines) /\ \A i \in DOMAIN lines : lines[i].amount \in Int

\* Finitely many lines with integer amounts.
LEMMA SequenceHasAmounts ==
    ASSUME NEW LineType, \A l \in LineType : l.amount \in Int, NEW lines \in Seq(LineType)
    PROVE  HasAmounts(lines)
<1>1. DOMAIN lines = 1..Len(lines) /\ Len(lines) \in Nat
      OBVIOUS
<1>2. IsFiniteSet(DOMAIN lines)
      BY <1>1, FS_Interval
<1>3. ASSUME NEW i \in DOMAIN lines PROVE lines[i].amount \in Int
  <2>1. lines[i] \in LineType
        OBVIOUS
  <2> QED BY <2>1
<1> QED BY <1>2, <1>3 DEF HasAmounts

\* What lines do to an account depends on its own type only.
LEMMA DeltaOfType ==
    ASSUME NEW types, NEW others, NEW lines, NEW a, types[a] = others[a]
    PROVE  Delta(types, lines, a) = Delta(others, lines, a)
BY DEF Delta

\* The debits of the lines less their credits.
LEMMA BalancedCancels ==
    ASSUME NEW lines, HasAmounts(lines), Balanced(lines),
           \A i \in DOMAIN lines : lines[i].side \in {"DEBIT", "CREDIT"},
           NEW w, DOMAIN w = DOMAIN lines,
           \A i \in DOMAIN lines : w[i] = IF lines[i].side = "DEBIT" THEN lines[i].amount ELSE -lines[i].amount
    PROVE  SumFunction(w) = 0
<1>1. PICK d, c :
        /\ d = [i \in DOMAIN lines |-> IF lines[i].side = "DEBIT" THEN lines[i].amount ELSE 0]
        /\ c = [i \in DOMAIN lines |-> IF lines[i].side = "CREDIT" THEN lines[i].amount ELSE 0]
      OBVIOUS
<1>2. /\ IsFiniteSet(DOMAIN c) /\ DOMAIN w = DOMAIN c /\ DOMAIN d = DOMAIN c
      /\ \A i \in DOMAIN c : c[i] \in Int /\ w[i] \in Int /\ d[i] = c[i] + w[i]
      BY <1>1 DEF HasAmounts
<1>3. SumFunction(d) = SumFunction(c) + SumFunction(w)
      BY <1>2, SumFunctionPlus
<1>4. SumFunction(d) = SumFunction(c)
      BY <1>1 DEF Balanced, SideTotal
<1>5. \A i \in DOMAIN w : w[i] \in Int
      BY <1>2
<1>6. SumFunction(c) \in Int /\ SumFunction(w) \in Int
  <2>1. \A i \in DOMAIN c : c[i] \in Int
        BY <1>2
  <2>2. SumFunction(c) \in Int
        BY <1>2, <2>1, SumFunctionInt
  <2>3. IsFiniteSet(DOMAIN w)
        BY <1>2
  <2>4. SumFunction(w) \in Int
        BY <1>5, <2>3, SumFunctionInt
  <2> QED BY <2>2, <2>4
<1> QED BY <1>3, <1>4, <1>6

\* What lines do to an account: its lines alone, with the sign of their sides if a
\* debit raises it, and against it if it does not.
RaisedByDebit(type) == type \in {"ASSET", "EXPENSE", "BANK"}

\* A balance moves by the debits less the credits, or the other way round.
LEMMA DeltaBySign ==
    ASSUME NEW lines, HasAmounts(lines), NEW types, NEW a,
           \A i \in DOMAIN lines : lines[i].side \in {"DEBIT", "CREDIT"},
           NEW w, DOMAIN w = DOMAIN lines,
           \A i \in DOMAIN lines : w[i] = IF lines[i].side = "DEBIT" THEN lines[i].amount ELSE -lines[i].amount
    PROVE  SumFunctionOnSet(w, {i \in DOMAIN lines : lines[i].account = a}) =
              IF RaisedByDebit(types[a]) THEN Delta(types, lines, a) ELSE -Delta(types, lines, a)
<1>1. PICK f : f = [i \in DOMAIN lines |->
                      IF lines[i].account = a
                      THEN balanceDelta(types[a], lines[i].side, lines[i].amount) ELSE 0]
      OBVIOUS
<1>2. PICK R : R = {i \in DOMAIN lines : lines[i].account = a}
      OBVIOUS
<1>3. \A i \in DOMAIN lines : w[i] \in Int
      BY DEF HasAmounts
<1>4. \A i \in R : f[i] = IF RaisedByDebit(types[a]) THEN w[i] ELSE -w[i]
      BY <1>1, <1>2 DEF balanceDelta, RaisedByDebit, HasAmounts
<1>5. \A i \in DOMAIN lines : f[i] \in Int
      BY <1>1 DEF balanceDelta, HasAmounts
<1>6. \A i \in DOMAIN lines \ R : f[i] = 0
      BY <1>1, <1>2
<1>7. IsFiniteSet(DOMAIN lines) /\ DOMAIN f = DOMAIN lines /\ R \in SUBSET DOMAIN lines
      BY <1>1, <1>2 DEF HasAmounts
<1>8. SumFunctionOnSet(f, DOMAIN lines) = SumFunctionOnSet(f, R)
      BY <1>5, <1>6, <1>7, SumSupport
<1>9. Delta(types, lines, a) = SumFunctionOnSet(f, R)
      BY <1>1, <1>7, <1>8, SumOverDomain DEF Delta
<1>10. IsFiniteSet(R) /\ \A i \in R : w[i] \in Int /\ f[i] \in Int
      BY <1>3, <1>5, <1>7, FS_Subset
<1>11. CASE RaisedByDebit(types[a])
  <2>1. \A i \in R : f[i] = w[i]
        BY <1>4, <1>11
  <2>2. SumFunctionOnSet(f, R) = SumFunctionOnSet(w, R)
        BY <1>10, <2>1, SumSame
  <2> QED BY <1>2, <1>9, <1>11, <2>2
<1>12. CASE ~RaisedByDebit(types[a])
  <2>1. \A i \in R : f[i] \in Int /\ w[i] = -f[i]
        BY <1>4, <1>10, <1>12
  <2>2. SumFunctionOnSet(w, R) = -SumFunctionOnSet(f, R)
        BY <1>10, <2>1, SumNegated
  <2> QED BY <1>2, <1>9, <1>12, <2>2
<1> QED BY <1>11, <1>12

\* What balanced lines do to the accounts of a chart cancels out: what they raise
\* of what the company owns and spends they raise of the rest.
LEMMA EntryCancels ==
    ASSUME NEW lines, HasAmounts(lines), Balanced(lines), NEW types,
           \A i \in DOMAIN lines : lines[i].side \in {"DEBIT", "CREDIT"},
           NEW S, IsFiniteSet(S), \A i \in DOMAIN lines : lines[i].account \in S,
           NEW d, \A a \in S : d[a] = IF RaisedByDebit(types[a]) THEN Delta(types, lines, a)
                                      ELSE -Delta(types, lines, a)
    PROVE  SumFunctionOnSet(d, S) = 0
<1>1. PICK w, key :
        /\ w = [i \in DOMAIN lines |->
                  IF lines[i].side = "DEBIT" THEN lines[i].amount ELSE -lines[i].amount]
        /\ key = [i \in DOMAIN lines |-> lines[i].account]
      OBVIOUS
<1>2. DOMAIN w = DOMAIN lines /\ DOMAIN key = DOMAIN lines /\ \A i \in DOMAIN lines :
         w[i] = IF lines[i].side = "DEBIT" THEN lines[i].amount ELSE -lines[i].amount
      BY <1>1
<1>3. PICK I : I = DOMAIN lines
      OBVIOUS
<1>4. \A i \in I : w[i] \in Int /\ key[i] \in S
      BY <1>1, <1>3 DEF HasAmounts
<1>5. IsFiniteSet(I)
      BY <1>3 DEF HasAmounts
<1>6. \A a \in S : d[a] = SumFunctionOnSet(w, {i \in I : key[i] = a})
  <2>1. TAKE a \in S
  <2>2. {i \in I : key[i] = a} = {i \in DOMAIN lines : lines[i].account = a}
        BY <1>1, <1>3
  <2>3. SumFunctionOnSet(w, {i \in DOMAIN lines : lines[i].account = a}) = d[a]
        BY <1>2, DeltaBySign
  <2> QED BY <2>2, <2>3
<1>7. SumFunctionOnSet(w, I) = SumFunctionOnSet(d, S)
  <2>1. \A i \in I : w[i] \in Int
        BY <1>4
  <2>2. \A i \in I : key[i] \in S
        BY <1>4
  <2>3. KeyedSums(w, I, key, d, S)
        BY <1>6, <2>1, <2>2 DEF KeyedSums
  <2> QED BY <1>5, <2>3, SumByKey
<1>8. SumFunction(w) = 0
      BY <1>2, BalancedCancels
<1> QED BY <1>2, <1>3, <1>7, <1>8, SumOverDomain

\* What lines do to an account only one of them names, and to one none names.
LEMMA DeltaOfOne ==
    ASSUME NEW types, NEW lines, NEW a, HasAmounts(lines), NEW i \in DOMAIN lines,
           lines[i].account = a, \A j \in DOMAIN lines : lines[j].account = a => j = i
    PROVE  Delta(types, lines, a) = balanceDelta(types[a], lines[i].side, lines[i].amount)
<1>1. PICK f : f = [j \in DOMAIN lines |->
                      IF lines[j].account = a
                      THEN balanceDelta(types[a], lines[j].side, lines[j].amount)
                      ELSE 0]
      OBVIOUS
<1>2. /\ IsFiniteSet(DOMAIN f) /\ i \in DOMAIN f
      /\ \A x \in DOMAIN f : x # i => f[x] = 0
      BY <1>1 DEF HasAmounts
<1>3. f[i] \in Int
      BY <1>1 DEF HasAmounts, balanceDelta
<1>4. SumFunction(f) = f[i]
      BY <1>2, <1>3, SumOfOne
<1> QED BY <1>1, <1>4 DEF Delta

\* Lines of other accounts leave a balance as it is.
LEMMA DeltaOfNone ==
    ASSUME NEW types, NEW lines, NEW a, HasAmounts(lines),
           \A j \in DOMAIN lines : lines[j].account # a
    PROVE  Delta(types, lines, a) = 0
<1>1. PICK f : f = [j \in DOMAIN lines |->
                      IF lines[j].account = a
                      THEN balanceDelta(types[a], lines[j].side, lines[j].amount)
                      ELSE 0]
      OBVIOUS
<1>2. IsFiniteSet(DOMAIN f) /\ \A x \in DOMAIN f : f[x] \in Nat /\ f[x] = 0
      BY <1>1 DEF HasAmounts
<1>3. SumFunction(f) = 0
      BY <1>2, SumFunctionNat
<1> QED BY <1>1, <1>3 DEF Delta

\* A balance moves by an integer.
LEMMA DeltaInt ==
    ASSUME NEW types, NEW lines, NEW a, HasAmounts(lines)
    PROVE  Delta(types, lines, a) \in Int
<1>1. PICK f : f = [i \in DOMAIN lines |->
                      IF lines[i].account = a
                      THEN balanceDelta(types[a], lines[i].side, lines[i].amount)
                      ELSE 0]
      OBVIOUS
<1>2. IsFiniteSet(DOMAIN f) /\ \A i \in DOMAIN f : f[i] \in Int
      BY <1>1 DEF HasAmounts, balanceDelta
<1>3. SumFunction(f) \in Int
      BY <1>2, SumFunctionInt
<1> QED BY <1>1, <1>3 DEF Delta

\* So it does under any finite set of entries.
LEMMA TotalDeltaInt ==
    ASSUME NEW types, NEW entries, IsFiniteSet(entries), NEW a, \A e \in entries : HasAmounts(e.lines)
    PROVE  TotalDelta(types, entries, a) \in Int
<1>1. PICK f : f = [e \in entries |-> Delta(types, e.lines, a)]
      OBVIOUS
<1>2. IsFiniteSet(DOMAIN f) /\ \A e \in DOMAIN f : f[e] \in Int
      BY <1>1, DeltaInt
<1>3. SumFunction(f) \in Int
      BY <1>2, SumFunctionInt
<1> QED BY <1>1, <1>3 DEF TotalDelta

\* No entry moves no balance.
LEMMA TotalDeltaEmpty == ASSUME NEW types, NEW a PROVE TotalDelta(types, {}, a) = 0
<1>1. PICK f : f = [e \in {} |-> Delta(types, e.lines, a)]
      OBVIOUS
<1>2. IsFiniteSet(DOMAIN f) /\ (\A e \in DOMAIN f : f[e] \in Nat /\ f[e] = 0)
      BY <1>1, FS_EmptySet
<1>3. SumFunction(f) = 0
      BY <1>2, SumFunctionNat
<1> QED BY <1>1, <1>3 DEF TotalDelta

\* Entries that are no others add what they come to.
LEMMA TotalDeltaJoins ==
    ASSUME NEW types, NEW a, NEW entries, IsFiniteSet(entries), NEW more, IsFiniteSet(more),
           entries \cap more = {},
           \A e \in entries \cup more : HasAmounts(e.lines)
    PROVE  TotalDelta(types, entries \cup more, a) = TotalDelta(types, entries, a) + TotalDelta(types, more, a)
<1>1. PICK all : all = entries \cup more
      OBVIOUS
<1>2. PICK f, g, h : /\ f = [e \in entries |-> Delta(types, e.lines, a)]
                     /\ g = [e \in more |-> Delta(types, e.lines, a)]
                     /\ h = [e \in all |-> Delta(types, e.lines, a)]
      OBVIOUS
<1>3. IsFiniteSet(all) /\ \A e \in all : h[e] \in Int
      BY <1>1, <1>2, FS_Union, DeltaInt
<1>4. SumFunctionOnSet(h, entries \cup more) = SumFunctionOnSet(h, entries) + SumFunctionOnSet(h, more)
      BY <1>1, <1>3, SumJoins
<1>5. (\A e \in entries : h[e] = f[e]) /\ (\A e \in more : h[e] = g[e])
      BY <1>1, <1>2
<1>6. /\ SumFunctionOnSet(h, entries) = SumFunctionOnSet(f, entries)
      /\ SumFunctionOnSet(h, more) = SumFunctionOnSet(g, more)
      BY <1>5, SumSame
<1>7. /\ SumFunction(f) = SumFunctionOnSet(f, entries)
      /\ SumFunction(g) = SumFunctionOnSet(g, more)
      /\ SumFunction(h) = SumFunctionOnSet(h, all)
      BY <1>2, SumOverDomain
<1> QED BY <1>1, <1>2, <1>4, <1>6, <1>7 DEF TotalDelta

\* One entry more.
LEMMA TotalDeltaAdds ==
    ASSUME NEW types, NEW a, NEW entries, IsFiniteSet(entries), NEW e, e \notin entries,
           \A x \in entries : HasAmounts(x.lines), HasAmounts(e.lines)
    PROVE  TotalDelta(types, entries \cup {e}, a) = TotalDelta(types, entries, a) + Delta(types, e.lines, a)
<1>1. PICK all : all = entries \cup {e}
      OBVIOUS
<1>2. PICK f, h : /\ f = [x \in entries |-> Delta(types, x.lines, a)]
                  /\ h = [x \in all |-> Delta(types, x.lines, a)]
      OBVIOUS
<1>3. \A x \in all : h[x] \in Int
      BY <1>1, <1>2, DeltaInt
<1>4. /\ DOMAIN f = entries /\ DOMAIN h = DOMAIN f \cup {e} /\ e \notin DOMAIN f
      /\ \A x \in DOMAIN h : h[x] \in Int
      /\ \A x \in DOMAIN f : h[x] = f[x]
      BY <1>1, <1>2, <1>3
<1>5. SumFunction(h) = SumFunction(f) + h[e]
      BY <1>4, SumGrows
<1> QED BY <1>1, <1>2, <1>5 DEF TotalDelta

\* A single entry.
LEMMA TotalDeltaOne ==
    ASSUME NEW types, NEW a, NEW e, HasAmounts(e.lines)
    PROVE  TotalDelta(types, {e}, a) = Delta(types, e.lines, a)
<1>1. PICK none : none = {}
      OBVIOUS
<1>2. IsFiniteSet(none) /\ e \notin none /\ \A x \in none : HasAmounts(x.lines)
      BY <1>1, FS_EmptySet
<1>3. TotalDelta(types, none \cup {e}, a) = TotalDelta(types, none, a) + Delta(types, e.lines, a)
      BY <1>2, TotalDeltaAdds
<1>4. TotalDelta(types, none, a) = 0 /\ Delta(types, e.lines, a) \in Int
      BY <1>1, TotalDeltaEmpty, DeltaInt
<1>5. PICK one : one = none \cup {e}
      OBVIOUS
<1>6. one = {e}
      BY <1>1, <1>5
<1> QED BY <1>3, <1>4, <1>5, <1>6

\* Some entries less.
LEMMA TotalDeltaDrops ==
    ASSUME NEW types, NEW a, NEW entries, IsFiniteSet(entries), NEW some \in SUBSET entries,
           \A x \in entries : HasAmounts(x.lines)
    PROVE  TotalDelta(types, entries \ some, a) = TotalDelta(types, entries, a) - TotalDelta(types, some, a)
<1>1. PICK rest : rest = entries \ some
      OBVIOUS
<1>2. /\ IsFiniteSet(rest) /\ IsFiniteSet(some) /\ rest \cap some = {} /\ rest \cup some = entries
      /\ \A x \in rest \cup some : HasAmounts(x.lines)
      /\ \A x \in rest : HasAmounts(x.lines)
      /\ \A x \in some : HasAmounts(x.lines)
      BY <1>1, FS_Subset
<1>3. TotalDelta(types, entries, a) = TotalDelta(types, rest, a) + TotalDelta(types, some, a)
      BY <1>2, TotalDeltaJoins
<1>4. TotalDelta(types, rest, a) \in Int /\ TotalDelta(types, some, a) \in Int
      BY <1>2, TotalDeltaInt
<1> QED BY <1>1, <1>3, <1>4

\* Balances old mirror the entries; new is old with the entries gone reversed and
\* the lines of e posted.
Reposting(types, accounts, entries, gone, e, old, new) ==
    /\ IsFiniteSet(entries) /\ gone \subseteq entries
    /\ \A x \in entries : HasAmounts(x.lines)
    /\ e \notin entries \ gone /\ HasAmounts(e.lines)
    /\ \A a \in accounts :
          /\ old[a] = TotalDelta(types, entries, a)
          /\ new[a] = old[a] - TotalDelta(types, gone, a) + Delta(types, e.lines, a)

\* Balances that mirror the entries still do after some were reversed and another
\* was posted.
LEMMA MirrorReposted ==
    ASSUME NEW types, NEW accounts, NEW entries, NEW gone, NEW e, NEW old, NEW new,
           Reposting(types, accounts, entries, gone, e, old, new)
    PROVE  \A a \in accounts : new[a] = TotalDelta(types, (entries \ gone) \cup {e}, a)
<1> SUFFICES ASSUME NEW a \in accounts
             PROVE  new[a] = TotalDelta(types, (entries \ gone) \cup {e}, a)
    OBVIOUS
<1>1. PICK rest : rest = entries \ gone
      OBVIOUS
<1>2. /\ IsFiniteSet(entries) /\ gone \in SUBSET entries
      /\ \A x \in entries : HasAmounts(x.lines)
      BY DEF Reposting
<1>3. IsFiniteSet(rest) /\ e \notin rest /\ \A x \in rest : HasAmounts(x.lines)
      BY <1>1, <1>2, FS_Subset DEF Reposting
<1>4. TotalDelta(types, rest, a) = TotalDelta(types, entries, a) - TotalDelta(types, gone, a)
      BY <1>1, <1>2, TotalDeltaDrops
<1>5. TotalDelta(types, rest \cup {e}, a) = TotalDelta(types, rest, a) + Delta(types, e.lines, a)
      BY <1>3, TotalDeltaAdds DEF Reposting
<1> QED BY <1>1, <1>4, <1>5 DEF Reposting

=============================================================================
