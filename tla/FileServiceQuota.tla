--------------------------- MODULE FileServiceQuota ---------------------------
(***************************************************************************)
(* storage_used: how it stands to the file rows, and how far past the      *)
(* quota uploads can take it, for any number of requesters.                *)
(***************************************************************************)
EXTENDS FileServiceBytes

------------------------------------------------------------------------------
(* Sums over finite sets, which SumFunctionOnSet takes in an order of its   *)
(* own.                                                                     *)

\* A set of finite sets has a smallest one: induction over finite sets is by the
\* smallest that fails.
LEMMA SmallestOf ==
    ASSUME NEW B, B # {}, \A s \in B : IsFiniteSet(s)
    PROVE  \E s \in B : \A r \in B : ~ (Cardinality(r) < Cardinality(s))
<1> DEFINE T == {Cardinality(s) : s \in B}
<1>1. T \subseteq Nat
  BY FS_CardinalityType
<1>2. T # {}
  OBVIOUS
<1>3. PICK t \in T : \A y \in T : ~ (<<y, t>> \in OpToRel(<, Nat))
  <2> HIDE DEF T
  <2> QED BY <1>1, <1>2, NatLessThanWellFounded, WFMin
<1>4. \A y \in T : ~ (y < t)
  BY <1>1, <1>3 DEF OpToRel
<1>5. PICK s \in B : t = Cardinality(s)
  OBVIOUS
<1> QED BY <1>4, <1>5

\* A set without one of its elements is smaller.
LEMMA OneLess ==
    ASSUME NEW s, IsFiniteSet(s), NEW x \in s
    PROVE  /\ IsFiniteSet(s \ {x}) /\ Cardinality(s) \in Nat \ {0}
           /\ Cardinality(s \ {x}) = Cardinality(s) - 1
<1>1. Cardinality(s \ {x}) = Cardinality(s) - 1 /\ IsFiniteSet(s \ {x})
  BY FS_RemoveElement
<1>2. Cardinality(s) \in Nat /\ Cardinality(s \ {x}) \in Nat
  BY <1>1, FS_CardinalityType
<1> QED BY <1>1, <1>2

\* The element a sum takes next, and the recursion of SumFunctionOnSet.
NextOf(s) == CHOOSE x \in s : TRUE
IsSum(t, fun, S) ==
    t = [s \in SUBSET S |-> IF s = {} THEN 0 ELSE fun[NextOf(s)] + t[s \ {NextOf(s)}]]

LEMMA NextIs == ASSUME NEW s, s # {} PROVE NextOf(s) \in s
BY DEF NextOf

LEMMA SumOf ==
    ASSUME NEW fun, NEW S, NEW t, IsSum(t, fun, S)
    PROVE  \A s \in SUBSET S :
              /\ s = {} => t[s] = 0
              /\ s # {} => t[s] = fun[NextOf(s)] + t[s \ {NextOf(s)}]
BY DEF IsSum

\* The recursion runs: over the subsets of at most n elements, for any n.
LEMMA SumRuns ==
    ASSUME NEW fun, NEW S, IsFiniteSet(S)
    PROVE  \E t : IsSum(t, fun, S)
<1> DEFINE D(n) == {s \in SUBSET S : Cardinality(s) <= n}
           Runs(n) == \E t : t = [s \in D(n) |-> IF s = {} THEN 0
                                     ELSE fun[NextOf(s)] + t[s \ {NextOf(s)}]]
           B == {n \in Nat : ~ Runs(n)}
<1>1. \A s \in SUBSET S : IsFiniteSet(s) /\ Cardinality(s) \in Nat /\ Cardinality(s) <= Cardinality(S)
  BY FS_Subset, FS_CardinalityType
<1>2. B = {}
  <2> SUFFICES ASSUME B # {} PROVE FALSE
    OBVIOUS
  <2>1. PICK n \in B : \A y \in B : ~ (<<y, n>> \in OpToRel(<, Nat))
    <3>1. B \subseteq Nat
      OBVIOUS
    <3> HIDE DEF B
    <3> QED BY <3>1, NatLessThanWellFounded, WFMin
  <2>2. n \in Nat /\ ~ Runs(n)
    OBVIOUS
  <2>3. CASE n = 0
    <3> DEFINE t == [s \in D(0) |-> 0]
    <3>1. \A s \in D(0) : s = {}
      <4> SUFFICES ASSUME NEW s \in D(0), s # {} PROVE FALSE
        OBVIOUS
      <4>1. Cardinality(s) = 0
        BY <1>1
      <4> QED BY <1>1, <4>1, FS_EmptySet
    <3>2. t = [s \in D(0) |-> IF s = {} THEN 0 ELSE fun[NextOf(s)] + t[s \ {NextOf(s)}]]
      <4> HIDE DEF D
      <4> QED BY <3>1
    <3> HIDE DEF t, D
    <3>3. Runs(0)
      BY <3>2
    <3> QED BY <2>2, <2>3, <3>3
  <2>4. CASE n # 0
    <3>1. n - 1 \in Nat /\ n - 1 < n
      BY <2>2, <2>4
    <3>2. n - 1 \notin B
      BY <2>1, <2>2, <3>1 DEF OpToRel
    <3>3. Runs(n - 1)
      BY <3>1, <3>2
    <3> DEFINE G(t, s) == IF s = {} THEN 0 ELSE fun[NextOf(s)] + t[s \ {NextOf(s)}]
    <3>4. PICK t : t = [s \in D(n - 1) |-> G(t, s)]
      BY <3>3
    <3> DEFINE r == [s \in D(n) |-> G(t, s)]
    <3>5. \A s \in D(n - 1) : t[s] = G(t, s)
      <4> HIDE DEF D, G
      <4> QED BY <3>4
    <3>6. \A s \in D(n - 1) : s \in D(n) /\ r[s] = t[s]
      <4>1. \A s \in D(n - 1) : s \in D(n)
        BY <1>1, <2>2
      <4> HIDE DEF D, G
      <4> QED BY <3>5, <4>1
    <3>7. \A s \in D(n) : s # {} => s \ {NextOf(s)} \in D(n - 1)
      <4> SUFFICES ASSUME NEW s \in D(n), s # {} PROVE s \ {NextOf(s)} \in D(n - 1)
        OBVIOUS
      <4>1. NextOf(s) \in s /\ IsFiniteSet(s) /\ s \subseteq S /\ Cardinality(s) <= n
        BY <1>1, NextIs
      <4>2. Cardinality(s \ {NextOf(s)}) = Cardinality(s) - 1 /\ Cardinality(s) \in Nat
        BY <4>1, OneLess
      <4> QED BY <2>2, <4>1, <4>2
    <3> HIDE DEF D
    <3>8. \A s \in D(n) : r[s] = G(r, s)
      <4> SUFFICES ASSUME NEW s \in D(n) PROVE r[s] = G(r, s)
        OBVIOUS
      <4>1. r[s] = G(t, s)
        OBVIOUS
      <4> HIDE DEF r
      <4>2. s # {} => r[s \ {NextOf(s)}] = t[s \ {NextOf(s)}]
        BY <3>6, <3>7
      <4> QED BY <4>1, <4>2
    <3>9. r = [s \in D(n) |-> r[s]]
      OBVIOUS
    <3> HIDE DEF r
    <3>10. r = [s \in D(n) |-> G(r, s)]
      BY <3>8, <3>9
    <3> QED BY <2>2, <3>10
  <2> QED BY <2>3, <2>4
<1>3. Cardinality(S) \in Nat /\ D(Cardinality(S)) = SUBSET S
  BY <1>1, FS_CardinalityType
<1> HIDE DEF D
<1>4. Runs(Cardinality(S))
  BY <1>2, <1>3
<1> QED BY <1>3, <1>4 DEF IsSum

LEMMA SumIs ==
    ASSUME NEW fun, NEW S, IsFiniteSet(S)
    PROVE  \E t : IsSum(t, fun, S) /\ SumFunctionOnSet(fun, S) = t[S]
<1> DEFINE t == CHOOSE t : IsSum(t, fun, S)
<1>1. IsSum(t, fun, S)
  BY SumRuns
<1>2. SumFunctionOnSet(fun, S) = t[S]
  BY DEF SumFunctionOnSet, FoldFunctionOnSet, MapThenFoldSet, IsSum, NextOf
<1> QED BY <1>1, <1>2

\* A sum of the same summands is the same, whatever set it runs over.
LEMMA SumsAgree ==
    ASSUME NEW f, NEW g, NEW S, NEW R, NEW t, NEW r, IsFiniteSet(S),
           IsSum(t, f, S), IsSum(r, g, R), \A x \in S \cap R : f[x] = g[x]
    PROVE  \A s \in SUBSET (S \cap R) : t[s] = r[s]
<1> DEFINE B == {s \in SUBSET (S \cap R) : t[s] # r[s]}
<1> SUFFICES ASSUME B # {} PROVE FALSE
  OBVIOUS
<1>1. \A s \in B : IsFiniteSet(s) /\ s \in SUBSET S /\ s \in SUBSET R /\ t[s] # r[s]
  BY FS_Subset
<1>2. PICK s \in B : \A q \in B : ~ (Cardinality(q) < Cardinality(s))
  <2> HIDE DEF B
  <2> QED BY <1>1, SmallestOf
<1>b. /\ IsFiniteSet(s) /\ s \in SUBSET S /\ s \in SUBSET R /\ t[s] # r[s]
      /\ \A q \in SUBSET (S \cap R) : Cardinality(q) < Cardinality(s) => t[q] = r[q]
  BY <1>1, <1>2
<1>c. /\ s = {} => t[s] = 0 /\ r[s] = 0
      /\ s # {} => /\ t[s] = f[NextOf(s)] + t[s \ {NextOf(s)}]
                   /\ r[s] = g[NextOf(s)] + r[s \ {NextOf(s)}]
  <2> HIDE DEF B
  <2>1. s \in SUBSET S /\ s \in SUBSET R
    BY <1>b
  <2>2. /\ s = {} => t[s] = 0
        /\ s # {} => t[s] = f[NextOf(s)] + t[s \ {NextOf(s)}]
    BY <2>1, SumOf
  <2>3. /\ s = {} => r[s] = 0
        /\ s # {} => r[s] = g[NextOf(s)] + r[s \ {NextOf(s)}]
    BY <2>1, SumOf
  <2> QED BY <2>2, <2>3
<1>3. s # {}
  <2> HIDE DEF B
  <2> QED BY <1>b, <1>c
<1> DEFINE x == NextOf(s)
<1>4. x \in s
  BY <1>3, NextIs
<1>5. t[s] = f[x] + t[s \ {x}] /\ r[s] = g[x] + r[s \ {x}]
  BY <1>c, <1>3
<1> HIDE DEF B, x
<1>6. f[x] = g[x]
  BY <1>b, <1>4
<1>7. s \ {x} \in SUBSET (S \cap R)
  BY <1>b
<1>8. Cardinality(s \ {x}) < Cardinality(s)
  <2>1. Cardinality(s) \in Nat \ {0} /\ Cardinality(s \ {x}) = Cardinality(s) - 1
    BY <1>b, <1>4, OneLess
  <2> QED BY <2>1
<1>9. t[s \ {x}] = r[s \ {x}]
  BY <1>b, <1>7, <1>8
<1> QED BY <1>b, <1>5, <1>6, <1>9

LEMMA SumSame ==
    ASSUME NEW f, NEW g, NEW S, IsFiniteSet(S), \A x \in S : f[x] = g[x]
    PROVE  SumFunctionOnSet(f, S) = SumFunctionOnSet(g, S)
<1>1. PICK t : IsSum(t, f, S) /\ SumFunctionOnSet(f, S) = t[S]
  BY SumIs
<1>2. PICK r : IsSum(r, g, S) /\ SumFunctionOnSet(g, S) = r[S]
  BY SumIs
<1>3. S \cap S = S
  OBVIOUS
<1> QED BY <1>1, <1>2, <1>3, SumsAgree

LEMMA SumStep ==
    ASSUME NEW f, NEW S, IsFiniteSet(S)
    PROVE  /\ S = {} => SumFunctionOnSet(f, S) = 0
           /\ S # {} => SumFunctionOnSet(f, S) = f[NextOf(S)] + SumFunctionOnSet(f, S \ {NextOf(S)})
<1>1. PICK t : IsSum(t, f, S) /\ SumFunctionOnSet(f, S) = t[S]
  BY SumIs
<1>2. CASE S = {}
  BY <1>1, <1>2, SumOf
<1>3. CASE S # {}
  <2> DEFINE R == S \ {NextOf(S)}
  <2>1. IsFiniteSet(R) /\ R \subseteq S
    BY FS_Subset
  <2>2. PICK r : IsSum(r, f, R) /\ SumFunctionOnSet(f, R) = r[R]
    <3> HIDE DEF R
    <3> QED BY <2>1, SumIs
  <2>3. t[R] = r[R]
    <3>1. R \in SUBSET (S \cap R)
      BY <2>1
    <3> HIDE DEF R
    <3> QED BY <1>1, <2>2, <3>1, SumsAgree
  <2>4. t[S] = f[NextOf(S)] + t[R]
    BY <1>1, <1>3, SumOf
  <2> QED BY <1>1, <1>3, <2>2, <2>3, <2>4
<1> QED BY <1>2, <1>3

\* A sum of integers is one, and takes its elements in any order.
LEMMA SumInt ==
    ASSUME NEW f, NEW S, IsFiniteSet(S), \A x \in S : f[x] \in Int
    PROVE  SumFunctionOnSet(f, S) \in Int
<1> DEFINE B == {s \in SUBSET S : SumFunctionOnSet(f, s) \notin Int}
<1> SUFFICES ASSUME B # {} PROVE FALSE
  OBVIOUS
<1>1. \A s \in B : IsFiniteSet(s) /\ s \in SUBSET S
  BY FS_Subset
<1>2. PICK s \in B : \A q \in B : ~ (Cardinality(q) < Cardinality(s))
  <2> HIDE DEF B
  <2> QED BY <1>1, SmallestOf
<1>3. s # {}
  <2>1. SumFunctionOnSet(f, {}) = 0
    BY SumStep, FS_EmptySet
  <2> QED BY <1>2, <2>1
<1> DEFINE x == NextOf(s)
<1>4. x \in s
  BY <1>3, NextIs
<1>5. SumFunctionOnSet(f, s) = f[x] + SumFunctionOnSet(f, s \ {x})
  BY <1>1, <1>3, SumStep
<1>6. SumFunctionOnSet(f, s \ {x}) \in Int
  <2>1. Cardinality(s \ {x}) < Cardinality(s) /\ s \ {x} \in SUBSET S
    <3> HIDE DEF x
    <3> QED BY <1>1, <1>4, OneLess
  <2>2. s \ {x} \notin B
    BY <1>2, <2>1
  <2> QED BY <2>1, <2>2
<1> QED BY <1>1, <1>4, <1>5, <1>6

LEMMA SumNat ==
    ASSUME NEW f, NEW S, IsFiniteSet(S), \A x \in S : f[x] \in Nat
    PROVE  SumFunctionOnSet(f, S) \in Nat
<1> DEFINE B == {s \in SUBSET S : SumFunctionOnSet(f, s) \notin Nat}
<1> SUFFICES ASSUME B # {} PROVE FALSE
  OBVIOUS
<1>1. \A s \in B : IsFiniteSet(s) /\ s \in SUBSET S
  BY FS_Subset
<1>2. PICK s \in B : \A q \in B : ~ (Cardinality(q) < Cardinality(s))
  <2> HIDE DEF B
  <2> QED BY <1>1, SmallestOf
<1>3. s # {}
  <2>1. SumFunctionOnSet(f, {}) = 0
    BY SumStep, FS_EmptySet
  <2> QED BY <1>2, <2>1
<1> DEFINE x == NextOf(s)
<1>4. x \in s
  BY <1>3, NextIs
<1>5. SumFunctionOnSet(f, s) = f[x] + SumFunctionOnSet(f, s \ {x})
  BY <1>1, <1>3, SumStep
<1>6. SumFunctionOnSet(f, s \ {x}) \in Nat
  <2>1. Cardinality(s \ {x}) < Cardinality(s) /\ s \ {x} \in SUBSET S
    <3> HIDE DEF x
    <3> QED BY <1>1, <1>4, OneLess
  <2>2. s \ {x} \notin B
    BY <1>2, <2>1
  <2> QED BY <2>1, <2>2
<1> QED BY <1>1, <1>4, <1>5, <1>6

LEMMA SumOne ==
    ASSUME NEW f, NEW S, IsFiniteSet(S), \A x \in S : f[x] \in Int, NEW x \in S
    PROVE  /\ SumFunctionOnSet(f, S) = f[x] + SumFunctionOnSet(f, S \ {x})
           /\ SumFunctionOnSet(f, S \ {x}) \in Int
<1> DEFINE Sum(s) == SumFunctionOnSet(f, s)
           B == {s \in SUBSET S : \E y \in s : Sum(s) # f[y] + Sum(s \ {y})}
<1>0. \A s \in SUBSET S : IsFiniteSet(s) /\ Sum(s) \in Int
  BY FS_Subset, SumInt
<1>1. B = {}
  <2> SUFFICES ASSUME B # {} PROVE FALSE
    OBVIOUS
  <2>1. \A s \in B : IsFiniteSet(s) /\ s \in SUBSET S
    BY <1>0
  <2>2. PICK s \in B : \A q \in B : ~ (Cardinality(q) < Cardinality(s))
    <3> HIDE DEF B
    <3> QED BY <2>1, SmallestOf
  <2>3. PICK y \in s : Sum(s) # f[y] + Sum(s \ {y})
    OBVIOUS
  <2> DEFINE c == NextOf(s)
  <2>4. c \in s /\ Sum(s) = f[c] + Sum(s \ {c})
    BY <2>1, NextIs, SumStep
  <2> HIDE DEF c
  <2>5. c # y
    BY <2>3, <2>4
  <2>6. \A z \in s : s \ {z} \in SUBSET S /\ s \ {z} \notin B
    <3> SUFFICES ASSUME NEW z \in s PROVE s \ {z} \in SUBSET S /\ s \ {z} \notin B
      OBVIOUS
    <3>1. Cardinality(s \ {z}) < Cardinality(s)
      BY <2>1, OneLess
    <3> QED BY <2>1, <2>2, <3>1
  <2>7. Sum(s \ {c}) = f[y] + Sum((s \ {c}) \ {y})
    BY <2>3, <2>4, <2>5, <2>6
  <2>8. Sum(s \ {y}) = f[c] + Sum((s \ {y}) \ {c})
    BY <2>3, <2>4, <2>5, <2>6
  <2>9. (s \ {c}) \ {y} = (s \ {y}) \ {c}
    OBVIOUS
  <2> DEFINE rest == Sum((s \ {y}) \ {c})
  <2>10. f[c] \in Int /\ f[y] \in Int /\ rest \in Int
    BY <1>0, <2>1, <2>4
  <2>11. Sum(s \ {c}) = f[y] + rest /\ Sum(s \ {y}) = f[c] + rest
    BY <2>7, <2>8, <2>9
  <2> HIDE DEF Sum, B, rest
  <2>12. Sum(s) = f[c] + (f[y] + rest) /\ Sum(s) # f[y] + (f[c] + rest)
    BY <2>3, <2>4, <2>11
  <2> QED BY <2>10, <2>12
<1>2. S \in SUBSET S /\ S \ {x} \in SUBSET S
  OBVIOUS
<1> QED BY <1>0, <1>1, <1>2

\* A sum of at most m each is at most as many times m.
LEMMA SumAtMost ==
    ASSUME NEW f, NEW S, IsFiniteSet(S), NEW m \in Int, \A x \in S : f[x] \in Int /\ f[x] <= m
    PROVE  SumFunctionOnSet(f, S) <= Cardinality(S) * m
<1> DEFINE Sum(s) == SumFunctionOnSet(f, s)
           B == {s \in SUBSET S : ~ (Sum(s) <= Cardinality(s) * m)}
<1> SUFFICES ASSUME B # {} PROVE FALSE
  OBVIOUS
<1>0. \A s \in SUBSET S : IsFiniteSet(s) /\ Sum(s) \in Int
  BY FS_Subset, SumInt
<1>1. PICK s \in B : \A q \in B : ~ (Cardinality(q) < Cardinality(s))
  <2>1. \A s \in B : IsFiniteSet(s)
    BY <1>0
  <2> HIDE DEF B
  <2> QED BY <2>1, SmallestOf
<1>2. s \in SUBSET S /\ ~ (Sum(s) <= Cardinality(s) * m)
  OBVIOUS
<1>3. CASE s = {}
  <2>1. Sum(s) = 0 /\ Cardinality(s) = 0
    BY <1>0, <1>2, <1>3, SumStep, FS_EmptySet
  <2> QED BY <1>2, <2>1
<1>4. CASE s # {}
  <2> DEFINE x == NextOf(s)
  <2>1. x \in s /\ Sum(s) = f[x] + Sum(s \ {x})
    BY <1>0, <1>4, NextIs, SumStep
  <2> HIDE DEF x
  <2>2. Cardinality(s) \in Nat /\ Cardinality(s \ {x}) = Cardinality(s) - 1 /\ s \ {x} \in SUBSET S
    BY <1>0, <1>2, <2>1, OneLess
  <2>3. Sum(s \ {x}) <= Cardinality(s \ {x}) * m
    BY <1>1, <2>2
  <2>4. f[x] \in Int /\ f[x] <= m /\ Sum(s \ {x}) \in Int
    BY <1>0, <1>2, <2>1, <2>2
  <2> DEFINE k == Cardinality(s)
  <2>5. (k - 1) * m + m = k * m
    BY <2>2
  <2> HIDE DEF Sum, B, k
  <2>6. k * m \in Int /\ (k - 1) * m \in Int
    BY <2>2 DEF k
  <2>7. Sum(s) <= k * m
    BY <2>1, <2>2, <2>3, <2>4, <2>5, <2>6 DEF k
  <2> QED BY <1>2, <2>7 DEF k
<1> QED BY <1>3, <1>4

------------------------------------------------------------------------------
(* Whose upload is whose.                                                   *)

\* A goroutine between the call of an upload and its answer.
Working(p) == InUpload(p) \/ pc[p] \in {"up_row", "up_charge"}

\* Uploads are of the user who asked for them, and of one of the sizes.
UploadsKnown ==
    \A p \in Procs : Working(p) =>
        /\ p \in Requesters
        /\ loc[p].user = loc[p].f.owner /\ loc[p].f.size \in Sizes

NoRestores == \A p \in Procs : pc[p] \notin Restoring \cup {"re_get", "re_charge"}

\* A step of p that leaves its upload as it was, if it is in one.
GoesOn(p) ==
    /\ OthersStay(p)
    /\ Working(p)' => /\ Working(p) /\ loc'[p].user = loc[p].user
                      /\ loc'[p].f.owner = loc[p].f.owner /\ loc'[p].f.size = loc[p].f.size
    /\ pc'[p] \notin Restoring \cup {"re_get", "re_charge"}

LEMMA GoesOnKnown ==
    ASSUME UploadsKnown, NoRestores, NEW p \in Procs, GoesOn(p)
    PROVE  UploadsKnown' /\ NoRestores'
  BY DEF UploadsKnown, NoRestores, GoesOn, OthersStay, Working, InUpload

LEMMA ReturnGoesOn ==
    ASSUME TypeInv, NEW p \in Procs, Return(p)
    PROVE  GoesOn(p) /\ pc'[p] = "idle"
<1>1. pc'[p] = "idle" /\ loc'[p] = NoLocals /\ OthersStay(p)
  BY DEF Return, OthersStay, TypeInv, LocalsInv, ProcsOK
<1> QED BY <1>1, NoLocalsOK DEF GoesOn, Working, InUpload, UpSteps, Restoring

\* A step of a request that is no upload.
LEMMA IdleGoesOn ==
    ASSUME TypeInv, UpInv, NEW p \in Procs, OthersStay(p), pc[p] \notin Saving \cup {"up_write"},
           loc'[p].ret = loc[p].ret, NEW l, pc'[p] = l,
           l \notin UpSteps \cup {"up_row", "up_charge", "re_get", "re_charge"} \cup Restoring
    PROVE  GoesOn(p)
<1>1. loc[p].ret # "up_write"
  BY DEF UpInv, CallerUsed
<1> QED BY <1>1 DEF GoesOn, Working, InUpload

\* The recycle bin's steps are of no upload.
LEMMA RecycleGoesOn ==
    ASSUME TypeInv, UpInv, NoRestores, NEW p \in Procs, RecycleSteps(p)
    PROVE  /\ GoesOn(p) /\ UNCHANGED used
           /\ pc'[p] \notin {"up_rename", "up_row", "up_charge"}
<1>1. LocalsInv /\ loc \in [Procs -> Locals] /\ loc[p] \in Locals /\ pc \in [Procs -> Labels]
  BY LocalTypes DEF TypeInv, LocalsInv, ProcsOK
<1>2. OthersStay(p)
  BY OneMoves DEF Steps
<1>3. pc[p] \notin Restoring \cup {"re_get", "re_charge"}
  BY DEF NoRestores
<1>4. UNCHANGED used
  BY <1>3 DEF RecycleSteps, TrGet, TrRename, TrItem, TrUndo, TrRow, ReGet, ReRename, ReRow, ReUndo,
       ReItem, ReCharge, PdGet, PdBlob, PdRow, EtList, EtBlob, EtRows, CuList, CuBlob, CuRows,
       ListPurge, PurgeBlob, PurgeRows, Attempt, OrFault, Fail, data
<1> SUFFICES GoesOn(p) /\ pc'[p] \notin {"up_rename", "up_row", "up_charge"}
  BY <1>4
<1>5. ASSUME Return(p)
      PROVE  GoesOn(p) /\ pc'[p] \notin {"up_rename", "up_row", "up_charge"}
  BY <1>5, ReturnGoesOn
<1>6. ASSUME NEW l \in {"tr_rename", "tr_item", "tr_undo", "tr_row", "de_charge", "pd_blob",
                        "pd_row", "et_blobs", "cu_blobs"},
             Goto(p, l), loc'[p].ret = loc[p].ret, pc[p] \notin Saving \cup {"up_write"}
      PROVE  GoesOn(p) /\ pc'[p] \notin {"up_rename", "up_row", "up_charge"}
  <2>1. pc'[p] = l
    BY <1>1, <1>6 DEF Goto
  <2> QED BY <1>2, <1>6, <2>1, IdleGoesOn DEF UpSteps, Restoring
<1>7. CASE TrGet(p) \/ PdGet(p)
  <2>1. CASE ~ Return(p)
    <3>1. loc'[p].ret = loc[p].ret
      BY <1>1, <1>7, <2>1 DEF TrGet, PdGet, Attempt, OrFault, Fail, Locals
    <3>2. Goto(p, "tr_rename") \/ Goto(p, "pd_blob")
      BY <1>7, <2>1 DEF TrGet, PdGet, Attempt, OrFault, Fail
    <3> QED BY <1>6, <1>7, <3>1, <3>2 DEF TrGet, PdGet, Saving
  <2> QED BY <1>5, <2>1
<1>8. CASE TrRename(p) \/ TrItem(p) \/ TrRow(p) \/ PdBlob(p)
  <2>1. CASE ~ Return(p)
    <3>1. UNCHANGED loc
      BY <1>8, <2>1 DEF TrRename, TrItem, TrRow, PdBlob, Attempt, OrFault, Fail
    <3>2. \E l \in {"tr_item", "tr_undo", "tr_row", "de_charge", "pd_row"} : Goto(p, l)
      BY <1>8, <2>1 DEF TrRename, TrItem, TrRow, PdBlob, Attempt, OrFault, Fail
    <3>3. pc[p] \notin Saving \cup {"up_write"}
      BY <1>8 DEF TrRename, TrItem, TrRow, PdBlob, Saving
    <3> QED BY <1>6, <3>1, <3>2, <3>3
  <2> QED BY <1>5, <2>1
<1>9. CASE TrUndo(p) \/ PdRow(p) \/ EtRows(p) \/ CuRows(p)
  BY <1>5, <1>9 DEF TrUndo, PdRow, EtRows, CuRows, PurgeRows
<1>10. CASE EtList(p) \/ CuList(p)
  <2>1. CASE ~ Return(p)
    <3>1. loc'[p].ret = loc[p].ret
      BY <1>1, <1>10, <2>1 DEF EtList, CuList, ListPurge, OrFault, Fail, Locals
    <3>2. Goto(p, "et_blobs") \/ Goto(p, "cu_blobs")
      BY <1>10, <2>1 DEF EtList, CuList, ListPurge, OrFault, Fail
    <3> QED BY <1>6, <1>10, <3>1, <3>2 DEF EtList, CuList, ListPurge, Saving
  <2> QED BY <1>5, <2>1
<1>11. CASE EtBlob(p) \/ CuBlob(p)
  <2>q. PICK q : loc' = [loc EXCEPT ![p].todo = @ \ {q}]
    BY <1>11 DEF EtBlob, CuBlob, PurgeBlob
  <2>1. loc'[p].ret = loc[p].ret
    BY <1>1, <2>q DEF Locals
  <2>2. UNCHANGED pc /\ pc[p] \in {"et_blobs", "cu_blobs"}
    BY <1>11 DEF EtBlob, CuBlob, PurgeBlob
  <2>3. GoesOn(p)
    BY <1>2, <2>1, <2>2, IdleGoesOn DEF UpSteps, Restoring, Saving
  <2> QED BY <2>2, <2>3
<1>12. CASE ReGet(p) \/ ReRename(p) \/ ReRow(p) \/ ReUndo(p) \/ ReItem(p) \/ ReCharge(p)
  BY <1>3, <1>12 DEF ReGet, ReRename, ReRow, ReUndo, ReItem, ReCharge, Restoring
<1> QED BY <1>7, <1>8, <1>9, <1>10, <1>11, <1>12 DEF RecycleSteps

\* A snapshot is of the upload that called it, or of none.
LEMMA VersionGoesOn ==
    ASSUME TypeInv, UpInv, NEW p \in Procs, VersionSteps(p)
    PROVE  /\ GoesOn(p) /\ UNCHANGED used
           /\ pc'[p] \notin {"up_rename", "up_row", "up_charge"}
<1>1. LocalsInv /\ loc \in [Procs -> Locals] /\ loc[p] \in Locals /\ pc \in [Procs -> Labels]
  BY LocalTypes DEF TypeInv, LocalsInv, ProcsOK
<1>2. OthersStay(p)
  BY OneMoves DEF Steps
<1>4. UNCHANGED used
  BY DEF VersionSteps, SvNum, SvCopy, SvRow, PrCount, PrOldest, PrBlob, PrRow,
       RvFile, RvVer, RvExists, RvCopy, RvRow, DvFile, DvGet, DvBlob, DvRow, Attempt, OrFault, Fail, data
<1> SUFFICES GoesOn(p) /\ pc'[p] \notin {"up_rename", "up_row", "up_charge"}
  BY <1>4
<1>5. ASSUME Return(p)
      PROVE  GoesOn(p) /\ pc'[p] \notin {"up_rename", "up_row", "up_charge"}
  BY <1>5, ReturnGoesOn
<1>6. ASSUME NEW l \in Saving \cup {"rv_copy", "rv_row", "dv_get", "dv_blob", "dv_row", "up_write"},
             l = "up_write" => loc[p].ret = "up_write",
             Goto(p, l), loc'[p].ret = loc[p].ret, loc'[p].f = loc[p].f, loc'[p].user = loc[p].user
      PROVE  GoesOn(p) /\ pc'[p] \notin {"up_rename", "up_row", "up_charge"}
  <2>1. pc'[p] = l
    BY <1>1, <1>6 DEF Goto
  <2>2. l \notin (UpSteps \ {"up_write"}) \cup {"up_row", "up_charge", "re_get", "re_charge"} \cup Restoring
    BY DEF UpSteps, Restoring, Saving
  <2>3. Working(p)' => loc[p].ret = "up_write"
    <3>1. Working(p)' <=> l \in UpSteps \/ loc'[p].ret = "up_write" \/ l \in {"up_row", "up_charge"}
      BY <2>1 DEF Working, InUpload
    <3> QED BY <1>6, <2>2, <3>1
  <2>4. loc[p].ret = "up_write" => Working(p)
    BY DEF Working, InUpload
  <2>5. l \notin Restoring \cup {"re_get", "re_charge"}
    BY <2>2
  <2>6. GoesOn(p)
    BY <1>2, <1>6, <2>1, <2>3, <2>4, <2>5 DEF GoesOn
  <2>7. l \notin {"up_rename", "up_row", "up_charge"}
    BY <2>2 DEF UpSteps
  <2> QED BY <2>1, <2>6, <2>7
<1>7. ASSUME SvFail(p)
      PROVE  GoesOn(p) /\ pc'[p] \notin {"up_rename", "up_row", "up_charge"}
  BY <1>5, <1>6, <1>7 DEF SvFail
<1>8. ASSUME PruneDone(p), pc[p] \in Saving
      PROVE  GoesOn(p) /\ pc'[p] \notin {"up_rename", "up_row", "up_charge"}
  <2>1. loc[p].ret \in {"up_write", "rv_copy"}
    BY <1>8, LocalTypes DEF TypeInv, LocalsInv, CallerKnown
  <2> QED BY <1>6, <1>8, <2>1 DEF PruneDone
<1>9. CASE SvNum(p)
  <2>1. Goto(p, "sv_copy")
    BY <1>9 DEF SvNum
  <2>2. loc'[p].f = loc[p].f /\ loc'[p].ret = loc[p].ret /\ loc'[p].user = loc[p].user
    BY <1>1, <1>9 DEF SvNum, OrFault, Locals
  <2> QED BY <1>6, <2>1, <2>2 DEF Saving
<1>10. CASE SvCopy(p) \/ SvRow(p)
  <2>1. ((Goto(p, "sv_row") \/ Goto(p, "pr_count")) /\ UNCHANGED loc) \/ SvFail(p)
    BY <1>10 DEF SvCopy, SvRow, SvUndo, OrFault
  <2> QED BY <1>6, <1>7, <2>1 DEF Saving
<1>11. CASE PrCount(p) \/ PrRow(p) \/ PrBlob(p)
  <2>1. /\ pc[p] \in Saving
        /\ \/ (Goto(p, "pr_oldest") \/ Goto(p, "pr_count") \/ Goto(p, "pr_row")) /\ UNCHANGED loc
           \/ PruneDone(p)
    BY <1>11 DEF PrCount, PrRow, PrBlob, OrFault, Saving
  <2> QED BY <1>6, <1>8, <2>1 DEF Saving
<1>12. CASE PrOldest(p)
  <2>1. CASE PruneDone(p)
    BY <1>8, <1>12, <2>1 DEF PrOldest, Saving
  <2>2. CASE ~ PruneDone(p)
    <3>1. Goto(p, "pr_blob")
      BY <1>12, <2>2 DEF PrOldest, OrFault
    <3>v. PICK v : loc' = [loc EXCEPT ![p].old = v, ![p].snap = vers[v]]
      BY <1>12, <2>2 DEF PrOldest, OrFault
    <3>2. loc'[p].f = loc[p].f /\ loc'[p].ret = loc[p].ret /\ loc'[p].user = loc[p].user
      BY <1>1, <3>v DEF Locals
    <3> QED BY <1>6, <3>1, <3>2 DEF Saving
  <2> QED BY <2>1, <2>2
<1>13. CASE RvFile(p) \/ RvVer(p) \/ RvExists(p) \/ DvFile(p) \/ DvGet(p)
  <2>1. CASE ~ Return(p)
    <3>1. \E l \in {"rv_ver", "rv_exists", "sv_num", "dv_get", "dv_blob"} : Goto(p, l)
      BY <1>13, <2>1 DEF RvFile, RvVer, RvExists, DvFile, DvGet, Attempt, OrFault, Fail
    <3>2. loc'[p].f = loc[p].f /\ loc'[p].ret = loc[p].ret /\ loc'[p].user = loc[p].user
      BY <1>1, <1>13, <2>1 DEF RvFile, RvVer, RvExists, DvFile, DvGet, Attempt, OrFault, Fail, Locals
    <3> QED BY <1>6, <3>1, <3>2 DEF Saving
  <2> QED BY <1>5, <2>1
<1>14. CASE RvCopy(p) \/ RvRow(p) \/ DvRow(p) \/ DvBlob(p)
  <2>1. ((Goto(p, "rv_row") \/ Goto(p, "dv_row")) /\ UNCHANGED loc) \/ Return(p)
    BY <1>14 DEF RvCopy, RvRow, DvRow, DvBlob, OrFault
  <2> QED BY <1>5, <1>6, <2>1
<1> QED BY <1>9, <1>10, <1>11, <1>12, <1>13, <1>14 DEF VersionSteps

\* A request that is no upload begins.
LEMMA CallGoesOn ==
    ASSUME TypeInv, UpInv, NEW p \in Procs, NEW op, NEW x,
           NEW l \in {"de_get", "pd_get", "et_list", "rv_file", "dv_file"},
           Call(p, op, l, x), x.ret # "up_write"
    PROVE  GoesOn(p) /\ UNCHANGED used /\ pc'[p] \notin {"up_rename", "up_row", "up_charge"}
<1>1. pc \in [Procs -> Labels] /\ loc \in [Procs -> Locals]
  BY DEF TypeInv, LocalsInv, ProcsOK
<1>2. pc' = [pc EXCEPT ![p] = l] /\ loc' = [loc EXCEPT ![p] = x] /\ UNCHANGED used
  BY DEF Call, Goto, data
<1>3. pc'[p] = l /\ loc'[p] = x /\ OthersStay(p)
  BY <1>1, <1>2 DEF OthersStay
<1>4. ~ Working(p)'
  BY <1>3 DEF Working, InUpload, UpSteps
<1>5. l \notin Restoring \cup {"re_get", "re_charge", "up_rename", "up_row", "up_charge"}
  BY DEF Restoring
<1> QED BY <1>2, <1>3, <1>4, <1>5 DEF GoesOn

\* An upload begins with its user for the owner, and one of the sizes.
LEMMA UploadKnown ==
    ASSUME TypeInv, UploadsKnown, NoRestores, NEW p \in Procs, Upload(p)
    PROVE  /\ UploadsKnown' /\ NoRestores' /\ UNCHANGED used /\ OthersStay(p)
           /\ pc'[p] \notin {"up_rename", "up_row", "up_charge"}
<1> DEFINE row(u, d, n, s, e) ==
             [owner |-> u, parent |-> d, name |-> n, path |-> Home(u, n),
              size |-> s, sha |-> 0, e2ee |-> e]
           x(u, r) == [NoLocals EXCEPT !.user = u, !.f = r]
<1>1. PICK u \in Users, d \in Folders \cup {Root}, n \in Names, s \in Sizes, e \in Encryption :
        Call(p, "upload", "up_list", x(u, row(u, d, n, s, e)))
  BY Zenon DEF Upload
<1> DEFINE r == row(u, d, n, s, e)
<1>2. r.owner = u /\ r.size \in Sizes
  OBVIOUS
<1> HIDE DEF row, r
<1>3. /\ p \in Requesters /\ UNCHANGED used
      /\ pc' = [pc EXCEPT ![p] = "up_list"] /\ loc' = [loc EXCEPT ![p] = x(u, r)]
  BY <1>1 DEF Call, Goto, data, r
<1>4. x(u, r).user = u /\ x(u, r).f = r
  BY DEF NoLocals
<1> HIDE DEF x
<1>5. pc \in [Procs -> Labels] /\ loc \in [Procs -> Locals]
  BY DEF TypeInv, LocalsInv, ProcsOK
<1>6. pc'[p] = "up_list" /\ loc'[p].user = u /\ loc'[p].f = r /\ OthersStay(p)
  BY <1>3, <1>4, <1>5 DEF OthersStay
<1>7. \A q \in Procs \ {p} : Working(q)' => Working(q)
  BY <1>6 DEF OthersStay, Working, InUpload
<1>8. UploadsKnown'
  BY <1>2, <1>3, <1>6, <1>7 DEF UploadsKnown, OthersStay
<1>9. NoRestores'
  BY <1>6 DEF NoRestores, OthersStay, Restoring
<1> QED BY <1>3, <1>6, <1>8, <1>9

LEMMA CallsKnown ==
    ASSUME "restore" \notin Ops, TypeInv, UpInv, UploadsKnown, NoRestores, NEW p \in Procs, Calls(p)
    PROVE  /\ UploadsKnown' /\ NoRestores' /\ UNCHANGED used /\ OthersStay(p)
           /\ pc'[p] \notin {"up_rename", "up_row", "up_charge"}
<1>1. ASSUME GoesOn(p), UNCHANGED used, pc'[p] \notin {"up_rename", "up_row", "up_charge"}
      PROVE  /\ UploadsKnown' /\ NoRestores' /\ UNCHANGED used /\ OthersStay(p)
             /\ pc'[p] \notin {"up_rename", "up_row", "up_charge"}
  BY <1>1, GoesOnKnown DEF GoesOn
<1>2. ASSUME NEW op, NEW x, NEW l \in {"de_get", "pd_get", "et_list", "rv_file", "dv_file"},
             Call(p, op, l, x), x.ret # "up_write"
      PROVE  /\ UploadsKnown' /\ NoRestores' /\ UNCHANGED used /\ OthersStay(p)
             /\ pc'[p] \notin {"up_rename", "up_row", "up_charge"}
  BY <1>1, <1>2, CallGoesOn
<1>3. CASE Upload(p)
  BY <1>3, UploadKnown
<1>4. CASE Delete(p)
  <2>1. PICK u, f : Call(p, "delete", "de_get", [NoLocals EXCEPT !.user = u, !.fid = f])
    BY <1>4 DEF Delete
  <2>2. [NoLocals EXCEPT !.user = u, !.fid = f].ret # "up_write"
    BY DEF NoLocals
  <2> QED BY <1>2, <2>1, <2>2
<1>5. CASE PermanentlyDelete(p)
  <2>1. PICK u, i : Call(p, "purge", "pd_get", [NoLocals EXCEPT !.user = u, !.id = i])
    BY <1>5 DEF PermanentlyDelete
  <2>2. [NoLocals EXCEPT !.user = u, !.id = i].ret # "up_write"
    BY DEF NoLocals
  <2> QED BY <1>2, <2>1, <2>2
<1>6. CASE EmptyTrash(p)
  <2>1. PICK u : Call(p, "empty", "et_list", [NoLocals EXCEPT !.user = u])
    BY <1>6 DEF EmptyTrash
  <2>2. [NoLocals EXCEPT !.user = u].ret # "up_write"
    BY DEF NoLocals
  <2> QED BY <1>2, <2>1, <2>2
<1>7. CASE RestoreVersion(p)
  <2>1. PICK u, f, v : Call(p, "restoreVersion", "rv_file",
                            [NoLocals EXCEPT !.user = u, !.fid = f, !.id = v, !.ret = "rv_copy"])
    BY <1>7 DEF RestoreVersion
  <2>2. [NoLocals EXCEPT !.user = u, !.fid = f, !.id = v, !.ret = "rv_copy"].ret # "up_write"
    BY DEF NoLocals
  <2> QED BY <1>2, <2>1, <2>2
<1>8. CASE DeleteVersion(p)
  <2>1. PICK u, f, v : Call(p, "deleteVersion", "dv_file",
                            [NoLocals EXCEPT !.user = u, !.fid = f, !.id = v])
    BY <1>8 DEF DeleteVersion
  <2>2. [NoLocals EXCEPT !.user = u, !.fid = f, !.id = v].ret # "up_write"
    BY DEF NoLocals
  <2> QED BY <1>2, <2>1, <2>2
<1>9. CASE CleanupExpired(p)
  <2>1. pc[p] = "idle" /\ Goto(p, "cu_list") /\ UNCHANGED <<loc, used>>
    BY <1>9 DEF CleanupExpired, data
  <2>2. pc'[p] = "cu_list" /\ OthersStay(p)
    BY <2>1, OneMoves DEF TypeInv, LocalsInv, ProcsOK, Goto
  <2>3. GoesOn(p)
    BY <2>1, <2>2, IdleGoesOn DEF UpSteps, Restoring, Saving
  <2> QED BY <1>1, <2>1, <2>2, <2>3
<1>10. ~ Restore(p)
  BY DEF Restore, Call
<1> QED BY <1>3, <1>4, <1>5, <1>6, <1>7, <1>8, <1>9, <1>10 DEF Calls, RecycleCalls, VersionCalls

\* An upload's own steps keep its user and its size.
LEMMA UploadGoesOn ==
    ASSUME TypeInv, UpInv, NEW p \in Procs,
           UpList(p) \/ UpWrite(p) \/ UpQuota(p) \/ UpRename(p) \/ UpRow(p) \/ UpCharge(p)
    PROVE  GoesOn(p)
<1>1. loc \in [Procs -> Locals] /\ loc[p] \in Locals /\ pc \in [Procs -> Labels]
  BY LocalTypes DEF TypeInv, LocalsInv, ProcsOK
<1>2. OthersStay(p)
  BY OneMoves DEF Steps
<1>3. CASE Return(p)
  BY <1>3, ReturnGoesOn
<1>4. CASE ~ Return(p)
  <2>1. PICK l \in {"sv_num", "up_write", "up_quota", "up_rename", "up_row", "up_charge"} : Goto(p, l)
    BY <1>4 DEF UpList, UpWrite, UpQuota, UpRename, UpRow, UpCharge, Attempt, OrFault, Fail
  <2>2. pc'[p] = l
    BY <1>1, <2>1 DEF Goto
  <2>3. /\ loc'[p].user = loc[p].user
        /\ loc'[p].f.owner = loc[p].f.owner /\ loc'[p].f.size = loc[p].f.size
    <3>1. CASE UNCHANGED loc
      BY <3>1
    <3>2. CASE \E f, g : loc' = [loc EXCEPT ![p].fid = f, ![p].g = g, ![p].ret = "up_write"]
      BY <1>1, <3>2 DEF Locals
    <3>3. CASE \E b : loc' = [loc EXCEPT ![p].f.sha = b, ![p].ret = "none"]
      <4>1. loc[p].f \in FileRow
        BY <1>1 DEF Locals
      <4> QED BY <1>1, <3>3, <4>1 DEF Locals, FileRow
    <3>4. CASE UpList(p)
      BY <1>4, <3>1, <3>2, <3>4 DEF UpList, OrFault
    <3>5. CASE UpWrite(p)
      BY <1>4, <3>3, <3>5 DEF UpWrite, OrFault
    <3>6. CASE UpQuota(p) \/ UpRename(p) \/ UpRow(p) \/ UpCharge(p)
      BY <1>4, <3>1, <3>6 DEF UpQuota, UpRename, UpRow, UpCharge, Attempt, OrFault, Fail
    <3> QED BY <3>4, <3>5, <3>6
  <2>4. Working(p)
    BY DEF UpList, UpWrite, UpQuota, UpRename, UpRow, UpCharge, Working, InUpload, UpSteps
  <2>5. l \notin Restoring \cup {"re_get", "re_charge"}
    BY DEF Restoring
  <2> QED BY <1>2, <2>2, <2>3, <2>4, <2>5 DEF GoesOn
<1> QED BY <1>3, <1>4

\* A deletion's reading and refund are of no upload.
LEMMA DeleteGoesOn ==
    ASSUME TypeInv, UpInv, NEW p \in Procs, DeGet(p) \/ DeCharge(p)
    PROVE  GoesOn(p) /\ pc'[p] \notin {"up_rename", "up_row", "up_charge"}
<1>1. loc \in [Procs -> Locals] /\ loc[p] \in Locals /\ pc \in [Procs -> Labels]
  BY LocalTypes DEF TypeInv, LocalsInv, ProcsOK
<1>2. OthersStay(p)
  BY OneMoves DEF Steps
<1>3. CASE Return(p)
  BY <1>3, ReturnGoesOn
<1>4. CASE ~ Return(p)
  <2>1. Goto(p, "tr_get") /\ pc[p] = "de_get" /\ loc' = [loc EXCEPT ![p].size = files[loc[p].fid].size]
    BY <1>4 DEF DeGet, DeCharge, Attempt, OrFault, Fail
  <2>2. pc'[p] = "tr_get" /\ loc'[p].ret = loc[p].ret
    BY <1>1, <2>1 DEF Goto, Locals
  <2> QED BY <1>2, <2>1, <2>2, IdleGoesOn DEF UpSteps, Restoring, Saving
<1> QED BY <1>3, <1>4

------------------------------------------------------------------------------
(* The quota.                                                               *)

Passing == {"up_rename", "up_row", "up_charge"}
Limit == Quota + (Cardinality(Requesters) - 1) * Max(Sizes)
Within(u) == used[u] + SumFunctionOnSet(Uploaded, InFlight(u)) <= Limit

Serving == /\ IsFiniteSet(Requesters) /\ Requesters # {} /\ IsFiniteSet(Sizes)
           /\ "restore" \notin Ops /\ Quota > 0

QuotaInv == UploadsKnown /\ NoRestores /\ \A u \in Users : Within(u)

LEMMA LargestSize ==
    ASSUME Serving
    PROVE  Max(Sizes) \in Nat /\ \A s \in Sizes : s <= Max(Sizes)
<1>1. Sizes \subseteq Nat /\ Sizes # {} /\ IsFiniteSet(Sizes)
  BY FileStoreAssumption DEF Serving
<1>2. PICK m \in Sizes : \A s \in Sizes : s <= m
  <2>1. Sizes \subseteq Int
    BY <1>1
  <2> QED BY <1>1, <2>1, LargestExists
<1> QED BY <1>1, MaxIn

\* What is in flight is the work of requesters, of one user each.
LEMMA FlightOK ==
    ASSUME Serving, TypeInv, UploadsKnown, NEW u \in Users
    PROVE  /\ IsFiniteSet(InFlight(u)) /\ InFlight(u) \subseteq Requesters
           /\ \A q \in InFlight(u) : Uploaded[q] \in Sizes /\ Uploaded[q] \in Nat
           /\ used[u] \in Int /\ SumFunctionOnSet(Uploaded, InFlight(u)) \in Int
<1>1. InFlight(u) \subseteq Requesters
  BY DEF InFlight, UploadsKnown, Working, InUpload, UpSteps
<1>2. IsFiniteSet(InFlight(u))
  BY <1>1, FS_Subset DEF Serving
<1>3. \A q \in InFlight(u) : Uploaded[q] \in Sizes
  BY DEF InFlight, Uploaded, UploadsKnown, Working, InUpload, UpSteps
<1>4. \A q \in InFlight(u) : Uploaded[q] \in Nat
  BY <1>3, FileStoreAssumption
<1>5. used[u] \in Int
  BY DEF TypeInv, TablesOK
<1> QED BY <1>1, <1>2, <1>3, <1>4, <1>5, SumInt

\* Who stays in flight stays with the same size.
LEMMA OthersUploaded ==
    ASSUME NEW p \in Procs, OthersStay(p), NEW u
    PROVE  /\ InFlight(u)' \ {p} = InFlight(u) \ {p}
           /\ \A q \in InFlight(u) \ {p} : Uploaded'[q] = Uploaded[q]
  BY DEF OthersStay, InFlight, Uploaded

\* A step that leaves nothing of its own in flight charges at most what it had there.
LEMMA LeavesWithin ==
    ASSUME Serving, TypeInv, TypeInv', UploadsKnown, NEW p \in Procs, OthersStay(p),
           pc'[p] \notin Passing, NEW u \in Users, Within(u),
           \/ used'[u] <= used[u]
           \/ p \in InFlight(u) /\ used'[u] = used[u] + Uploaded[p]
    PROVE  Within(u)'
<1> DEFINE S == InFlight(u)
           R == S \ {p}
<1>1. /\ IsFiniteSet(S) /\ \A q \in S : Uploaded[q] \in Nat
      /\ used[u] \in Int /\ SumFunctionOnSet(Uploaded, S) \in Int
  BY FlightOK
<1>2. used'[u] \in Int
  BY DEF TypeInv, TablesOK
<1>3. InFlight(u)' = R /\ \A q \in R : Uploaded'[q] = Uploaded[q]
  <2>1. p \notin InFlight(u)'
    BY DEF InFlight, Passing
  <2> QED BY <2>1, OthersUploaded
<1>4. IsFiniteSet(R)
  BY <1>1, FS_Subset
<1> DEFINE was == SumFunctionOnSet(Uploaded, S)
           is == SumFunctionOnSet(Uploaded, R)
<1>5. SumFunctionOnSet(Uploaded', R) = is
  <2> HIDE DEF R
  <2> QED BY <1>3, <1>4, SumSame
<1>6. /\ p \in S => was = Uploaded[p] + is /\ is \in Int /\ Uploaded[p] \in Nat
      /\ p \notin S => was = is
  <2>1. CASE p \in S
    <3> HIDE DEF S
    <3> QED BY <1>1, <2>1, SumOne
  <2>2. CASE p \notin S
    <3>1. R = S
      BY <2>2
    <3> QED BY <2>2, <3>1
  <2> QED BY <2>1, <2>2
<1>7. used[u] + was <= Limit /\ was \in Int
  BY <1>1 DEF Within
<1>8. Limit \in Int
  BY LargestSize, FS_CardinalityType, FileStoreAssumption DEF Serving, Limit
<1> HIDE DEF was, is, S, R
<1>9. used'[u] + is <= Limit
  <2>1. CASE p \in S
    <3>1. used'[u] <= used[u] + Uploaded[p] /\ was = Uploaded[p] + is /\ is \in Int /\ Uploaded[p] \in Nat
      <4>1. Uploaded[p] \in Nat
        BY <1>6, <2>1
      <4> QED BY <1>1, <1>2, <1>6, <2>1, <4>1
    <3> HIDE DEF Limit
    <3> QED BY <1>1, <1>2, <1>7, <1>8, <3>1
  <2>2. CASE p \notin S
    <3>1. used'[u] <= used[u] /\ was = is
      BY <1>6, <2>2 DEF S
    <3> HIDE DEF Limit
    <3> QED BY <1>1, <1>2, <1>7, <1>8, <3>1
  <2> QED BY <2>1, <2>2
<1>10. Limit' = Limit
  BY DEF Limit
<1> QED BY <1>3, <1>5, <1>9, <1>10 DEF Within, is

\* A step that keeps what it has in flight there, and charges nothing.
LEMMA KeepsWithin ==
    ASSUME Serving, TypeInv, UploadsKnown, NEW p \in Procs, GoesOn(p), UNCHANGED used,
           pc[p] \in Passing, pc'[p] \in Passing, NEW u \in Users, Within(u)
    PROVE  Within(u)'
<1>1. /\ loc'[p].user = loc[p].user /\ loc'[p].f.size = loc[p].f.size
  BY DEF GoesOn, Working, InUpload, UpSteps, Passing
<1>2. InFlight(u)' = InFlight(u) /\ \A q \in InFlight(u) : Uploaded'[q] = Uploaded[q]
  <2>1. p \in InFlight(u)' <=> p \in InFlight(u)
    BY <1>1 DEF InFlight, Passing
  <2>2. OthersStay(p)
    BY DEF GoesOn
  <2>3. Uploaded'[p] = Uploaded[p]
    BY <1>1 DEF Uploaded
  <2>4. /\ InFlight(u)' \ {p} = InFlight(u) \ {p}
        /\ \A q \in InFlight(u) \ {p} : Uploaded'[q] = Uploaded[q]
    BY <2>2, OthersUploaded
  <2> QED BY <2>1, <2>3, <2>4
<1>3. SumFunctionOnSet(Uploaded', InFlight(u)) = SumFunctionOnSet(Uploaded, InFlight(u))
  BY <1>2, FlightOK, SumSame
<1>4. used'[u] = used[u] /\ Limit' = Limit
  BY DEF Limit
<1> QED BY <1>2, <1>3, <1>4 DEF Within

\* An upload that passes the test finds at most the other requesters in flight.
LEMMA PassesWithin ==
    ASSUME Serving, TypeInv, UploadsKnown, NEW p \in Procs, UpQuota(p), pc'[p] = "up_rename",
           NEW u \in Users, Within(u)
    PROVE  Within(u)'
<1> DEFINE r == loc[p].f
           S == InFlight(u)
<1>1. /\ pc[p] = "up_quota" /\ loc \in [Procs -> Locals] /\ pc \in [Procs -> Labels]
      /\ p \in Requesters /\ r.owner = loc[p].user /\ r.size \in Sizes
  BY DEF UpQuota, TypeInv, LocalsInv, ProcsOK, UploadsKnown, Working, InUpload, UpSteps
<1>2. /\ used[r.owner] + r.size <= Quota /\ UNCHANGED <<loc, used>>
  <2>1. ~ Return(p)
    BY <1>1 DEF Return
  <2> QED BY <2>1 DEF UpQuota, OrFault, WithinQuota, Serving
<1>3. OthersStay(p)
  BY OneMoves DEF Steps
<1>4. p \notin S /\ Uploaded' = Uploaded
  BY <1>1, <1>2 DEF InFlight, Uploaded
<1>5. InFlight(u)' = IF loc[p].user = u THEN S \cup {p} ELSE S
  <2>1. InFlight(u)' \ {p} = S
    BY <1>3, <1>4, OthersUploaded
  <2>2. p \in InFlight(u)' <=> loc[p].user = u
    BY <1>2 DEF InFlight
  <2> QED BY <1>4, <2>1, <2>2
<1>6. CASE loc[p].user # u
  BY <1>2, <1>4, <1>5, <1>6 DEF Within, Limit
<1>7. CASE loc[p].user = u
  <2> DEFINE m == Max(Sizes)
             k == Cardinality(Requesters) - 1
             T == S \cup {p}
  <2>1. /\ IsFiniteSet(S) /\ S \subseteq Requesters \ {p} /\ used[u] \in Int
        /\ \A q \in S : Uploaded[q] \in Int /\ Uploaded[q] <= m
    <3>1. /\ IsFiniteSet(S) /\ S \subseteq Requesters /\ used[u] \in Int
          /\ \A q \in S : Uploaded[q] \in Sizes /\ Uploaded[q] \in Nat
      BY FlightOK
    <3>2. \A s \in Sizes : s <= m
      BY LargestSize
    <3> HIDE DEF S, m
    <3> QED BY <1>4, <3>1, <3>2
  <2>2. /\ m \in Nat /\ r.size \in Int /\ Quota \in Int
    <3>1. m \in Nat
      BY LargestSize
    <3>2. \A s \in Sizes : s \in Int
      BY FileStoreAssumption
    <3>3. Quota \in Int
      BY FileStoreAssumption
    <3>4. r.size \in Int
      BY <1>1, <3>2
    <3> QED BY <3>1, <3>3, <3>4
  <2>3. k \in Int /\ Cardinality(S) <= k /\ Cardinality(S) \in Nat
    <3>1. IsFiniteSet(Requesters \ {p}) /\ Cardinality(Requesters \ {p}) = k /\ k \in Int
      BY <1>1, FS_RemoveElement, FS_CardinalityType DEF Serving
    <3>2. Cardinality(S) <= Cardinality(Requesters \ {p})
      BY <2>1, <3>1, FS_Subset
    <3> QED BY <2>1, <3>1, <3>2, FS_CardinalityType
  <2>4. Uploaded[p] = r.size /\ used[u] + r.size <= Quota
    BY <1>1, <1>2, <1>7 DEF Uploaded
  <2> DEFINE others == SumFunctionOnSet(Uploaded, S)
  <2>5. others <= Cardinality(S) * m /\ others \in Int
    <3> HIDE DEF S, m
    <3>1. others \in Int
      BY <2>1, SumInt
    <3>2. m \in Int
      BY <2>2
    <3> QED BY <2>1, <3>1, <3>2, SumAtMost
  <2>6. SumFunctionOnSet(Uploaded, T) = r.size + others
    <3>1. IsFiniteSet(T) /\ p \in T /\ T \ {p} = S
      BY <1>4, <2>1, FS_AddElement
    <3>2. \A q \in T : Uploaded[q] \in Int
      BY <2>1, <2>2, <2>4
    <3> HIDE DEF T, S, r
    <3> QED BY <2>4, <3>1, <3>2, SumOne
  <2>7. Cardinality(S) * m <= k * m /\ k * m \in Int /\ Cardinality(S) * m \in Int
    <3> HIDE DEF S, k, m
    <3> QED BY <2>2, <2>3
  <2>8. Limit = Quota + k * m
    BY DEF Limit
  <2>9. used[u] + (r.size + others) <= Limit
    <3> HIDE DEF S, k, m, r, others
    <3> QED BY <2>1, <2>2, <2>4, <2>5, <2>7, <2>8
  <2>10. InFlight(u)' = T /\ used'[u] = used[u] /\ Limit' = Limit
    BY <1>2, <1>5, <1>7 DEF Limit
  <2> HIDE DEF T, S, r, others
  <2> QED BY <1>4, <2>6, <2>9, <2>10 DEF Within
<1> QED BY <1>6, <1>7

\* A refund is of a size, and takes nothing from what is in flight.
LEMMA RefundLess ==
    ASSUME TypeInv, NEW p \in Procs, DeCharge(p), NEW u \in Users
    PROVE  used'[u] <= used[u]
<1>1. loc[p].size \in Nat /\ used \in [Users -> Int]
  BY LocalTypes DEF TypeInv, LocalsInv, TablesOK
<1>2. used' = [used EXCEPT ![loc[p].user] = @ - loc[p].size] \/ UNCHANGED used
  BY DEF DeCharge, OrFault
<1>3. used'[u] = used[u] - loc[p].size \/ used'[u] = used[u]
  BY <1>1, <1>2
<1> QED BY <1>1, <1>3

\* A charge is of what the upload had in flight.
LEMMA ChargeWhole ==
    ASSUME TypeInv, UploadsKnown, NEW p \in Procs, UpCharge(p), NEW u \in Users
    PROVE  \/ used'[u] <= used[u]
           \/ p \in InFlight(u) /\ used'[u] = used[u] + Uploaded[p]
<1>1. used \in [Users -> Int] /\ pc[p] = "up_charge" /\ loc[p].f.owner = loc[p].user
  BY DEF TypeInv, TablesOK, UpCharge, UploadsKnown, Working
<1>2. used' = [used EXCEPT ![loc[p].f.owner] = @ + loc[p].f.size] \/ UNCHANGED used
  BY DEF UpCharge, OrFault
<1>3. CASE u = loc[p].user /\ used' # used
  <2>1. p \in InFlight(u) /\ Uploaded[p] = loc[p].f.size
    BY <1>1, <1>3 DEF InFlight, Uploaded
  <2> QED BY <1>1, <1>2, <1>3, <2>1
<1>4. CASE ~ (u = loc[p].user /\ used' # used)
  <2>1. used'[u] = used[u] /\ used[u] \in Int
    BY <1>1, <1>2, <1>4
  <2> QED BY <2>1
<1> QED BY <1>3, <1>4

LEMMA QuotaStep ==
    ASSUME Serving, Inv, Inv', QuotaInv, [Next]_vars
    PROVE  QuotaInv'
<1>1. TypeInv /\ TypeInv' /\ UpInv /\ UploadsKnown /\ NoRestores /\ \A u \in Users : Within(u)
  BY DEF Inv, QuotaInv
<1>2. ASSUME NEW p \in Procs, UploadsKnown', NoRestores', OthersStay(p), pc'[p] \notin Passing,
             \A u \in Users : \/ used'[u] <= used[u]
                              \/ p \in InFlight(u) /\ used'[u] = used[u] + Uploaded[p]
      PROVE  QuotaInv'
  BY <1>1, <1>2, LeavesWithin DEF QuotaInv
<1>3. UNCHANGED used => \A u \in Users : used'[u] <= used[u]
  <2>1. \A u \in Users : used[u] \in Int
    BY <1>1 DEF TypeInv, TablesOK
  <2> QED BY <2>1
<1>4. ASSUME NEW p \in Procs, GoesOn(p), UNCHANGED used, pc[p] \in Passing \/ pc'[p] \notin Passing
      PROVE  QuotaInv'
  <2>1. UploadsKnown' /\ NoRestores' /\ OthersStay(p)
    BY <1>1, <1>4, GoesOnKnown DEF GoesOn
  <2>2. CASE pc'[p] \notin Passing
    BY <1>2, <1>3, <1>4, <2>1, <2>2
  <2>3. CASE pc'[p] \in Passing
    BY <1>1, <1>4, <2>1, <2>3, KeepsWithin DEF QuotaInv
  <2> QED BY <2>2, <2>3
<1>5. ASSUME NEW p \in Procs, Calls(p) PROVE QuotaInv'
  <2>1. /\ UploadsKnown' /\ NoRestores' /\ UNCHANGED used /\ OthersStay(p)
        /\ pc'[p] \notin Passing
    BY <1>1, <1>5, CallsKnown DEF Serving, Passing
  <2> QED BY <1>2, <1>3, <2>1
<1>6. ASSUME NEW p \in Procs, Steps(p) PROVE QuotaInv'
  <2>1. CASE UpList(p) \/ UpWrite(p) \/ UpRename(p) \/ UpRow(p)
    <3>1. UNCHANGED used
      BY <2>1 DEF UpList, UpWrite, UpRename, UpRow, Attempt, OrFault, Fail, data
    <3>2. pc[p] \in Passing \/ pc'[p] \notin Passing
      <4>1. CASE UpRename(p) \/ UpRow(p)
        BY <4>1 DEF UpRename, UpRow, Passing
      <4>2. CASE UpList(p) \/ UpWrite(p)
        <5>1. (\E l \in {"sv_num", "up_write", "up_quota"} : Goto(p, l)) \/ Return(p)
          BY <4>2 DEF UpList, UpWrite, OrFault
        <5>2. pc \in [Procs -> Labels]
          BY <1>1 DEF TypeInv, LocalsInv, ProcsOK
        <5> QED BY <5>1, <5>2 DEF Goto, Return, Passing
      <4> QED BY <2>1, <4>1, <4>2
    <3> QED BY <1>1, <1>4, <2>1, <3>1, <3>2, UploadGoesOn
  <2>2. CASE UpQuota(p)
    <3>1. GoesOn(p) /\ UNCHANGED used
      BY <1>1, <2>2, UploadGoesOn DEF UpQuota
    <3>2. pc'[p] = "up_rename" \/ pc'[p] \notin Passing
      <4>1. pc \in [Procs -> Labels]
        BY <1>1 DEF TypeInv, LocalsInv, ProcsOK
      <4> QED BY <2>2, <4>1 DEF UpQuota, OrFault, Goto, Return, Passing
    <3>3. CASE pc'[p] = "up_rename"
      <4>1. \A u \in Users : Within(u)'
        BY <1>1, <2>2, <3>3, PassesWithin
      <4> QED BY <1>1, <3>1, <4>1, GoesOnKnown DEF QuotaInv
    <3> QED BY <1>4, <3>1, <3>2, <3>3
  <2>3. CASE UpCharge(p)
    <3>1. GoesOn(p) /\ pc'[p] \notin Passing
      <4>1. Return(p)
        BY <2>3 DEF UpCharge
      <4> QED BY <1>1, <4>1, ReturnGoesOn DEF Passing
    <3>2. UploadsKnown' /\ NoRestores' /\ OthersStay(p)
      BY <1>1, <3>1, GoesOnKnown DEF GoesOn
    <3>3. \A u \in Users : \/ used'[u] <= used[u]
                           \/ p \in InFlight(u) /\ used'[u] = used[u] + Uploaded[p]
      BY <1>1, <2>3, ChargeWhole
    <3> QED BY <1>2, <3>1, <3>2, <3>3
  <2>4. CASE DeGet(p) \/ DeCharge(p)
    <3>1. GoesOn(p) /\ pc'[p] \notin Passing
      BY <1>1, <2>4, DeleteGoesOn DEF Passing
    <3>2. UploadsKnown' /\ NoRestores' /\ OthersStay(p)
      BY <1>1, <3>1, GoesOnKnown DEF GoesOn
    <3>3. \A u \in Users : used'[u] <= used[u]
      <4>1. CASE DeGet(p)
        <5>1. UNCHANGED used
          BY <4>1 DEF DeGet, Attempt, OrFault, Fail, data
        <5> QED BY <1>3, <5>1
      <4>2. CASE DeCharge(p)
        BY <1>1, <4>2, RefundLess
      <4> QED BY <2>4, <4>1, <4>2
    <3> QED BY <1>2, <3>1, <3>2, <3>3
  <2>5. CASE RecycleSteps(p)
    <3>1. GoesOn(p) /\ UNCHANGED used /\ pc'[p] \notin Passing
      BY <1>1, <2>5, RecycleGoesOn DEF Passing
    <3> QED BY <1>4, <3>1
  <2>6. CASE VersionSteps(p)
    <3>1. GoesOn(p) /\ UNCHANGED used /\ pc'[p] \notin Passing
      BY <1>1, <2>6, VersionGoesOn DEF Passing
    <3> QED BY <1>4, <3>1
  <2> QED BY <1>6, <2>1, <2>2, <2>3, <2>4, <2>5, <2>6 DEF Steps
<1>7. ASSUME UNCHANGED <<used, pc, loc>> PROVE QuotaInv'
  <2>1. UploadsKnown' /\ NoRestores'
    BY <1>1, <1>7 DEF UploadsKnown, NoRestores, Working, InUpload
  <2>2. \A u \in Users : Within(u)'
    BY <1>1, <1>7 DEF Within, Limit, InFlight, Uploaded
  <2> QED BY <2>1, <2>2 DEF QuotaInv
<1>8. ASSUME NEW i \in DOMAIN bin, Expire(i) PROVE QuotaInv'
  <2>1. UNCHANGED <<used, pc, loc>>
    BY <1>8 DEF Expire
  <2> QED BY <1>7, <2>1
<1>9. CASE Crash
  <2>1. /\ pc' = [p \in Procs |-> "idle"] /\ loc' = [p \in Procs |-> NoLocals]
        /\ UNCHANGED used
    BY <1>9 DEF Crash, data
  <2>2. \A p \in Procs : ~ Working(p)' /\ pc'[p] = "idle"
    BY <2>1, NoLocalsOK DEF Working, InUpload, UpSteps
  <2>3. UploadsKnown' /\ NoRestores'
    BY <2>2 DEF UploadsKnown, NoRestores, Restoring
  <2>4. ASSUME NEW u \in Users PROVE Within(u)'
    <3>1. InFlight(u)' = {} /\ SumFunctionOnSet(Uploaded', {}) = 0
      BY <2>2, SumStep, FS_EmptySet DEF InFlight
    <3> DEFINE s == SumFunctionOnSet(Uploaded, InFlight(u))
    <3>2. used[u] \in Int /\ 0 <= s /\ s \in Int /\ used[u] + s <= Limit
      <4>1. IsFiniteSet(InFlight(u)) /\ \A q \in InFlight(u) : Uploaded[q] \in Nat
        BY <1>1, FlightOK
      <4> QED BY <1>1, <4>1, FlightOK, SumNat DEF Within
    <3>3. Limit \in Int
      BY LargestSize, FS_CardinalityType, FileStoreAssumption DEF Serving, Limit
    <3>4. used'[u] = used[u] /\ Limit' = Limit
      BY <2>1 DEF Limit
    <3>5. used[u] + 0 <= Limit
      <4> HIDE DEF s, Limit
      <4> QED BY <3>2, <3>3
    <3> QED BY <3>1, <3>4, <3>5 DEF Within
  <2> QED BY <2>3, <2>4 DEF QuotaInv
<1>10. CASE UNCHANGED vars
  <2>1. UNCHANGED <<used, pc, loc>>
    BY <1>10 DEF vars
  <2> QED BY <1>7, <2>1
<1> QED BY <1>5, <1>6, <1>8, <1>9, <1>10 DEF Next

\* The test of the quota and the charge are steps apart, so uploads may pass the test
\* together; yet what a user has stored and in flight exceeds the quota by at most one
\* upload of the largest size for each requester but one.  It holds of any number of
\* requesters, whatever fails, whenever the process dies, and with every request but the
\* restores, which charge with no test.
THEOREM OvershootStaysBounded ==
    ASSUME IsFiniteSet(Requesters), Requesters # {}, IsFiniteSet(Sizes),
           "restore" \notin Ops, Quota > 0
    PROVE  Spec => []QuotaOvershootBounded
<1>0. Serving
  BY DEF Serving
<1>1. Init => QuotaInv
  <2> SUFFICES ASSUME Init PROVE QuotaInv
    OBVIOUS
  <2>1. \A p \in Procs : ~ Working(p) /\ pc[p] = "idle"
    BY NoLocalsOK DEF Init, Working, InUpload, UpSteps
  <2>2. UploadsKnown /\ NoRestores
    BY <2>1 DEF UploadsKnown, NoRestores, Restoring
  <2>3. ASSUME NEW u \in Users PROVE Within(u)
    <3>1. InFlight(u) = {} /\ used[u] = 0
      BY <2>1 DEF InFlight, Init
    <3>2. SumFunctionOnSet(Uploaded, InFlight(u)) = 0
      BY <3>1, SumStep, FS_EmptySet
    <3>3. 0 <= Limit
      <4>1. Max(Sizes) \in Nat /\ Quota \in Nat
        BY <1>0, LargestSize, FileStoreAssumption
      <4>2. Cardinality(Requesters) - 1 \in Nat
        <5>1. PICK p : p \in Requesters
          BY <1>0 DEF Serving
        <5>2. Cardinality(Requesters) \in Nat \ {0}
          BY <1>0, <5>1, OneLess DEF Serving
        <5> QED BY <5>2
      <4>3. (Cardinality(Requesters) - 1) * Max(Sizes) \in Nat
        BY <4>1, <4>2
      <4> QED BY <4>1, <4>3 DEF Limit
    <3> QED BY <3>1, <3>2, <3>3 DEF Within
  <2> QED BY <2>2, <2>3 DEF QuotaInv
<1>2. Inv /\ Inv' /\ QuotaInv /\ [Next]_vars => QuotaInv'
  BY <1>0, QuotaStep
<1>3. QuotaInv => QuotaOvershootBounded
  BY DEF QuotaInv, Within, Limit, QuotaOvershootBounded
<1> QED BY <1>1, <1>2, <1>3, StorageInvariant, PTL DEF Spec

------------------------------------------------------------------------------
(* Rows, and the deletions under way, where nothing fails, no name is       *)
(* uploaded twice and nothing is restored from the bin.                     *)

\* Bytes in a user's directory have a row, or an upload about to insert it.
HomesClaimed ==
    \A q \in DOMAIN store : q.kind = "home" =>
        \/ \E p \in Procs : pc[p] = "up_row" /\ KeyOf(p) = PathKey(q)
        \/ \E f \in DOMAIN files : RowKey(files[f]) = PathKey(q)

\* A deletion that has moved the bytes still has its row, and nobody else's is
\* that far with it.
Moved == {"tr_item", "tr_row"}
Carries(p) ==
    pc[p] \in Moved =>
        /\ loc[p].fid \in DOMAIN files
        /\ \A q \in DOMAIN store : q.kind = "home" => PathKey(q) # KeyOf(p)
        /\ \A r \in Procs \ {p} : pc[r] \in Moved => loc[r].fid # loc[p].fid

\* What a deletion knows of its row is still so while the row is there.
Knows(p) ==
    /\ pc[p] \in Moved \cup {"tr_get", "tr_rename"} =>
           /\ loc[p].fid < nextFile
           /\ loc[p].fid \in DOMAIN files =>
                  files[loc[p].fid].size = loc[p].size /\ files[loc[p].fid].owner = loc[p].user
    /\ pc[p] \in Moved \cup {"tr_rename"} =>
           (loc[p].fid \in DOMAIN files => files[loc[p].fid] = loc[p].f)

RowLaw == HomesClaimed /\ \A p \in Procs : Carries(p) /\ Knows(p)

\* A step of p that adds no row and no bytes to a directory, and drops none.
Aside(p) ==
    /\ OthersStay(p) /\ UNCHANGED <<files, nextFile>>
    /\ \A q \in DOMAIN store' : q.kind = "home" => q \in DOMAIN store
    /\ pc[p] # "up_row" /\ pc'[p] \notin Moved
    /\ Knows(p)'

LEMMA AsideLaw ==
    ASSUME RowLaw, NEW p \in Procs, Aside(p)
    PROVE  RowLaw'
<1> USE DEF RowLaw
<1>1. \A r \in Procs \ {p} : pc'[r] = pc[r] /\ loc'[r] = loc[r]
  BY DEF Aside, OthersStay
<1>2. \A r \in Procs : pc[r] = "up_row" => pc'[r] = "up_row" /\ KeyOf(r)' = KeyOf(r)
  BY <1>1 DEF Aside, KeyOf
<1>3. HomesClaimed'
  BY <1>2 DEF HomesClaimed, Aside
<1>4. \A r \in Procs : pc'[r] \in Moved => r # p /\ pc[r] \in Moved
  BY <1>1 DEF Aside
<1>5. \A r \in Procs : Carries(r)'
  BY <1>1, <1>4 DEF Carries, Aside, KeyOf
<1>6. \A r \in Procs : Knows(r)'
  <2>1. Knows(p)' /\ UNCHANGED <<files, nextFile>>
    BY DEF Aside
  <2>2. \A r \in Procs \ {p} : Knows(r)'
    BY <1>1, <2>1 DEF Knows
  <2> QED BY <2>1, <2>2
<1> QED BY <1>3, <1>5, <1>6

\* The rename of an upload puts bytes of a name that nobody is deleting.
LEMMA UpRenameLaw ==
    ASSUME TypeInv, NamesInv, RowLaw, MaxFaults = 0, NEW p \in Procs, UpRename(p)
    PROVE  RowLaw'
<1> USE DEF RowLaw
<1> DEFINE r == loc[p].f
<1>1. /\ pc[p] = "up_rename" /\ pc \in [Procs -> Labels] /\ ~ (faults < MaxFaults)
  BY NoFaults DEF UpRename, TypeInv, LocalsInv, ProcsOK
<1>2. /\ store' = Renamed(Tmp(r.owner, r.name), r.path) /\ pc' = [pc EXCEPT ![p] = "up_row"]
      /\ UNCHANGED <<loc, files, nextFile>>
  BY <1>1 DEF UpRename, OrFault, Goto, files_
<1>3. \A q \in Procs : pc'[q] = IF q = p THEN "up_row" ELSE pc[q]
  BY <1>1, <1>2
<1>4. PathKey(r.path) = KeyOf(p)
  <2>1. AtHome(r)
    BY <1>1 DEF NamesInv, Alone, Rowless, UpSteps
  <2> QED BY <2>1 DEF AtHome, PathKey, KeyOf, Home
<1>5. \A q \in DOMAIN store' : q = r.path \/ q \in DOMAIN store
  <2> HIDE DEF r
  <2> QED BY <1>2 DEF Renamed, Insert, Remove
<1>6. HomesClaimed'
  <2> SUFFICES ASSUME NEW q \in DOMAIN store', q.kind = "home"
               PROVE  \/ \E x \in Procs : pc'[x] = "up_row" /\ KeyOf(x)' = PathKey(q)
                      \/ \E f \in DOMAIN files' : RowKey(files'[f]) = PathKey(q)
    BY DEF HomesClaimed
  <2>1. \A x : KeyOf(x)' = KeyOf(x)
    BY <1>2 DEF KeyOf
  <2>2. CASE q = r.path
    BY <1>3, <1>4, <2>1, <2>2
  <2>3. CASE q \in DOMAIN store
    BY <1>2, <1>3, <2>1, <2>3 DEF HomesClaimed
  <2> QED BY <1>5, <2>2, <2>3
<1>7. \A q \in Procs : Carries(q)'
  <2> SUFFICES ASSUME NEW q \in Procs, pc'[q] \in Moved PROVE Carries(q)'
    BY DEF Carries
  <2>1. pc[q] \in Moved /\ \A x : KeyOf(x)' = KeyOf(x)
    BY <1>2, <1>3 DEF Moved, KeyOf
  <2>2. Settled(KeyOf(q))
    BY <2>1 DEF NamesInv, HoldsSettled, Trashing, Moved
  <2>3. KeyOf(p) # KeyOf(q)
    BY <1>1, <2>2 DEF Settled, Rowless, UpSteps
  <2>4. \A x \in DOMAIN store' : x.kind = "home" => PathKey(x) # KeyOf(q)
    BY <1>4, <1>5, <2>1, <2>3 DEF Carries
  <2>5. \A x \in Procs : pc'[x] \in Moved => pc[x] \in Moved
    BY <1>3 DEF Moved
  <2> QED BY <1>2, <2>1, <2>4, <2>5 DEF Carries
<1>8. \A q \in Procs : Knows(q)'
  BY <1>2, <1>3 DEF Knows, Moved
<1> QED BY <1>6, <1>7, <1>8

\* A new row has an id nobody knows.
LEMMA UpRowLaw ==
    ASSUME TypeInv, NamesInv, RowLaw, MaxFaults = 0, NEW p \in Procs, UpRow(p)
    PROVE  /\ RowLaw'
           /\ files' = Insert(files, nextFile, loc[p].f) /\ UNCHANGED <<loc, used>>
           /\ pc' = [pc EXCEPT ![p] = "up_charge"]
<1> USE DEF RowLaw
<1> DEFINE r == loc[p].f
<1>1. /\ pc[p] = "up_row" /\ pc \in [Procs -> Labels] /\ ~ (faults < MaxFaults)
      /\ DOMAIN files \subseteq 1..(nextFile - 1) /\ nextFile \in Nat
      /\ loc \in [Procs -> Locals]
  BY NoFaults DEF UpRow, TypeInv, LocalsInv, ProcsOK, TablesOK
<1>2. ~ Conflicts(r)
  <2>1. \A f \in DOMAIN files : RowKey(files[f]) # KeyOf(p)
    BY <1>1 DEF NamesInv, RowsSettled, Settled, Rowless
  <2> QED BY <2>1 DEF Conflicts, RowKey, KeyOf
<1>3. /\ files' = Insert(files, nextFile, r) /\ nextFile' = nextFile + 1
      /\ pc' = [pc EXCEPT ![p] = "up_charge"] /\ UNCHANGED <<loc, used, store>>
  <2> HIDE DEF r
  <2> QED BY <1>1, <1>2 DEF UpRow, Attempt, OrFault, Goto, store_, r
<1>4. \A q \in Procs : pc'[q] = IF q = p THEN "up_charge" ELSE pc[q]
  BY <1>1, <1>3
<1>5. /\ DOMAIN files' = DOMAIN files \cup {nextFile} /\ files'[nextFile] = r
      /\ nextFile \notin DOMAIN files
      /\ \A f \in DOMAIN files : files'[f] = files[f]
  <2>1. nextFile \notin DOMAIN files
    BY <1>1
  <2> HIDE DEF r
  <2> QED BY <1>3, <2>1 DEF Insert
<1>k. \A q : KeyOf(q)' = KeyOf(q)
  BY <1>3 DEF KeyOf
<1>6. HomesClaimed'
  <2> SUFFICES ASSUME NEW q \in DOMAIN store, q.kind = "home"
               PROVE  \/ \E x \in Procs : pc'[x] = "up_row" /\ KeyOf(x)' = PathKey(q)
                      \/ \E f \in DOMAIN files' : RowKey(files'[f]) = PathKey(q)
    BY <1>3 DEF HomesClaimed
  <2>1. CASE \E f \in DOMAIN files : RowKey(files[f]) = PathKey(q)
    BY <1>5, <2>1
  <2>2. CASE \E x \in Procs : pc[x] = "up_row" /\ KeyOf(x) = PathKey(q)
    <3>1. PICK x \in Procs : pc[x] = "up_row" /\ KeyOf(x) = PathKey(q)
      BY <2>2
    <3>2. CASE x = p
      <4>1. RowKey(r) = PathKey(q)
        BY <3>1, <3>2 DEF RowKey, KeyOf
      <4> HIDE DEF r
      <4> QED BY <1>5, <4>1
    <3>3. CASE x # p
      BY <1>4, <1>k, <3>1, <3>3
    <3> QED BY <3>2, <3>3
  <2> QED BY <2>1, <2>2 DEF HomesClaimed
<1>7. \A q \in Procs : Carries(q)'
  <2>1. \A q \in Procs : pc'[q] \in Moved => pc[q] \in Moved
    BY <1>4 DEF Moved
  <2> HIDE DEF r
  <2> QED BY <1>3, <1>5, <1>k, <2>1 DEF Carries
<1>8. \A q \in Procs : Knows(q)'
  <2> SUFFICES ASSUME NEW q \in Procs, pc'[q] \in Moved \cup {"tr_get", "tr_rename"} PROVE Knows(q)'
    BY DEF Knows
  <2>1. pc[q] = pc'[q] /\ loc'[q] = loc[q] /\ loc[q].fid < nextFile
    BY <1>3, <1>4 DEF Knows, Moved
  <2>2. loc[q].fid \in Nat
    BY <1>1, LocalTypes DEF TypeInv, LocalsInv
  <2>3. loc[q].fid # nextFile /\ loc[q].fid < nextFile'
    <3> HIDE DEF r
    <3> QED BY <1>1, <1>3, <2>1, <2>2
  <2> HIDE DEF r
  <2> QED BY <1>5, <2>1, <2>3 DEF Knows
<1> QED BY <1>3, <1>6, <1>7, <1>8

\* The bytes a deletion finds are those of its row, which nobody else has moved.
LEMMA TrRenameLaw ==
    ASSUME TypeInv, NamesInv, BackedInv, BytesInv, RowLaw, NEW p \in Procs, TrRename(p)
    PROVE  RowLaw'
<1> USE DEF RowLaw
<1> DEFINE home == loc[p].f.path
           slot == SlotOf(loc[p])
<1>1. /\ pc[p] = "tr_rename" /\ pc \in [Procs -> Labels] /\ loc \in [Procs -> Locals]
  BY DEF TrRename, TypeInv, LocalsInv, ProcsOK
<1>2. CASE Fail(p)
  <2>1. Return(p) /\ UNCHANGED <<files, nextFile, store>>
    BY <1>2 DEF Fail, data, files_, store_
  <2>2. pc'[p] = "idle" /\ OthersStay(p)
    BY <1>1, <2>1 DEF Return, OthersStay
  <2>3. Knows(p)'
    BY <2>2 DEF Knows, Moved
  <2> QED BY <1>1, <2>1, <2>2, <2>3, AsideLaw DEF Aside, Moved
<1>3. CASE ~ Fail(p)
  <2>1. /\ pc' = [pc EXCEPT ![p] = "tr_item"] /\ UNCHANGED <<files, nextFile, loc>>
        /\ home \in DOMAIN store /\ store' = Renamed(home, slot)
    BY <1>3 DEF TrRename, Attempt, OrFault, Goto, files_
  <2>2. AtHome(loc[p].f) /\ Settled(KeyOf(p)) /\ Takes(p) /\ loc[p].f.owner = loc[p].user
    BY <1>1 DEF NamesInv, HoldsSettled, Trashing, BackedInv
  <2>3. /\ home.kind = "home" /\ PathKey(home) = KeyOf(p) /\ slot.kind = "trash"
    BY <2>2 DEF AtHome, Home, PathKey, KeyOf, SlotOf, TrashSlot
  <2> HIDE DEF home, slot
  <2>4. \A q \in DOMAIN store' : q.kind = "home" => q \in DOMAIN store /\ q # home
    BY <2>1, <2>3 DEF Renamed, Insert, Remove
  <2>5. \A q \in Procs : pc'[q] = IF q = p THEN "tr_item" ELSE pc[q]
    BY <1>1, <2>1
  <2>k. \A q : KeyOf(q)' = KeyOf(q)
    BY <2>1 DEF KeyOf
  <2>6. PICK f \in DOMAIN files : RowKey(files[f]) = KeyOf(p)
    <3>1. ~ \E x \in Procs : pc[x] = "up_row" /\ KeyOf(x) = KeyOf(p)
      BY <2>2 DEF Settled, Rowless
    <3> QED BY <2>1, <2>3, <3>1 DEF HomesClaimed
  <2>7. f = loc[p].fid
    BY <1>1, <2>2, <2>6 DEF Takes, Trashing
  <2>8. HomesClaimed'
    <3>1. \A x \in Procs : pc[x] = "up_row" => pc'[x] = "up_row"
      BY <1>1, <2>5
    <3> QED BY <2>1, <2>4, <2>k, <3>1 DEF HomesClaimed
  <2>9. Carries(p)'
    <3>1. \A r \in Procs \ {p} : pc'[r] \in Moved => loc[r].fid # loc[p].fid
      <4> SUFFICES ASSUME NEW r \in Procs \ {p}, pc'[r] \in Moved, loc[r].fid = loc[p].fid PROVE FALSE
        OBVIOUS
      <4>1. pc[r] \in Moved
        BY <2>5
      <4>2. files[f] = loc[r].f
        BY <2>7, <4>1 DEF Knows
      <4>3. KeyOf(r) = KeyOf(p)
        BY <2>6, <4>2 DEF KeyOf, RowKey
      <4> QED BY <2>1, <2>3, <4>1, <4>3 DEF Carries
    <3>2. \A q \in DOMAIN store' : q.kind = "home" => PathKey(q) # KeyOf(p)
      BY <2>1, <2>3, <2>4 DEF BytesInv, OnePath
    <3> QED BY <2>1, <2>6, <2>7, <2>k, <3>1, <3>2 DEF Carries
  <2>10. ASSUME NEW q \in Procs \ {p} PROVE Carries(q)'
    <3> SUFFICES ASSUME pc'[q] \in Moved PROVE Carries(q)'
      BY DEF Carries
    <3>1. pc[q] \in Moved /\ loc'[q] = loc[q]
      BY <2>1, <2>5
    <3>2. loc[q].fid # loc[p].fid
      <4>1. loc'[q].fid # loc'[p].fid
        BY <2>5, <2>9 DEF Carries, Moved
      <4> QED BY <2>1, <4>1
    <3>3. \A r \in Procs \ {q} : pc'[r] \in Moved => r = p \/ pc[r] \in Moved
      BY <2>5
    <3> QED BY <2>1, <2>4, <2>k, <3>1, <3>2, <3>3 DEF Carries
  <2>11. \A q \in Procs : Knows(q)'
    BY <1>1, <2>1, <2>5 DEF Knows, Moved
  <2> QED BY <2>8, <2>9, <2>10, <2>11
<1> QED BY <1>2, <1>3

\* The bin row changes nothing of this.
LEMMA TrItemLaw ==
    ASSUME TypeInv, RowLaw, MaxFaults = 0, NEW p \in Procs, TrItem(p)
    PROVE  RowLaw' /\ UNCHANGED <<files, used, loc>> /\ pc' = [pc EXCEPT ![p] = "tr_row"]
<1> USE DEF RowLaw
<1>1. /\ pc[p] = "tr_item" /\ pc \in [Procs -> Labels] /\ ~ (faults < MaxFaults)
  BY NoFaults DEF TrItem, TypeInv, LocalsInv, ProcsOK
<1>2. pc' = [pc EXCEPT ![p] = "tr_row"] /\ UNCHANGED <<files, nextFile, store, loc, used>>
  BY <1>1 DEF TrItem, OrFault, Goto, files_, store_
<1>3. \A q \in Procs : pc'[q] = IF q = p THEN "tr_row" ELSE pc[q]
  BY <1>1, <1>2
<1>4. \A q \in Procs : /\ pc'[q] \in Moved <=> pc[q] \in Moved
                       /\ (pc'[q] = "up_row" <=> pc[q] = "up_row")
                       /\ (pc'[q] \in {"tr_get", "tr_rename"} <=> pc[q] \in {"tr_get", "tr_rename"})
  BY <1>1, <1>3 DEF Moved
<1>5. HomesClaimed'
  BY <1>2, <1>4 DEF HomesClaimed, KeyOf
<1>6. \A q \in Procs : Carries(q)'
  BY <1>2, <1>4 DEF Carries, KeyOf
<1>7. \A q \in Procs : Knows(q)'
  BY <1>2, <1>4 DEF Knows
<1> QED BY <1>2, <1>5, <1>6, <1>7

\* The row that goes is one whose bytes have gone, and nobody else's.
LEMMA TrRowLaw ==
    ASSUME TypeInv, RowLaw, MaxFaults = 0, NEW p \in Procs, TrRow(p)
    PROVE  /\ RowLaw' /\ UNCHANGED <<used, loc>> /\ pc' = [pc EXCEPT ![p] = "de_charge"]
           /\ files' = Remove(files, {loc[p].fid}) /\ loc[p].fid \in DOMAIN files
           /\ files[loc[p].fid].size = loc[p].size /\ files[loc[p].fid].owner = loc[p].user
<1> USE DEF RowLaw
<1> DEFINE f == loc[p].fid
<1>1. /\ pc[p] = "tr_row" /\ pc \in [Procs -> Labels] /\ ~ (faults < MaxFaults)
  BY NoFaults DEF TrRow, TypeInv, LocalsInv, ProcsOK
<1>2. /\ pc' = [pc EXCEPT ![p] = "de_charge"] /\ UNCHANGED <<nextFile, store, loc, used>>
      /\ files' = Remove(files, {f})
  BY <1>1 DEF TrRow, OrFault, Goto, store_
<1>3. \A q \in Procs : pc'[q] = IF q = p THEN "de_charge" ELSE pc[q]
  BY <1>1, <1>2
<1>4. /\ f \in DOMAIN files /\ files[f] = loc[p].f
      /\ files[f].size = loc[p].size /\ files[f].owner = loc[p].user
  BY <1>1 DEF Carries, Knows, Moved
<1>5. /\ DOMAIN files' = DOMAIN files \ {f}
      /\ \A g \in DOMAIN files' : files'[g] = files[g]
  BY <1>2 DEF Remove
<1>6. \A q \in Procs : pc'[q] \in Moved \cup {"up_row", "tr_get", "tr_rename"} =>
          q # p /\ pc[q] = pc'[q]
  BY <1>3 DEF Moved
<1>k. \A q : KeyOf(q)' = KeyOf(q)
  BY <1>2 DEF KeyOf
<1>7. HomesClaimed'
  <2> SUFFICES ASSUME NEW q \in DOMAIN store, q.kind = "home"
               PROVE  \/ \E x \in Procs : pc'[x] = "up_row" /\ KeyOf(x)' = PathKey(q)
                      \/ \E g \in DOMAIN files' : RowKey(files'[g]) = PathKey(q)
    BY <1>2 DEF HomesClaimed
  <2>1. PathKey(q) # KeyOf(p)
    BY <1>1 DEF Carries, Moved
  <2>2. RowKey(files[f]) # PathKey(q)
    <3>1. RowKey(files[f]) = KeyOf(p)
      BY <1>4 DEF RowKey, KeyOf
    <3> QED BY <2>1, <3>1
  <2>3. \A x \in Procs : pc[x] = "up_row" => pc'[x] = "up_row"
    BY <1>1, <1>3
  <2> HIDE DEF f
  <2> QED BY <1>5, <1>k, <2>2, <2>3 DEF HomesClaimed
<1>8. \A q \in Procs : Carries(q)'
  <2> SUFFICES ASSUME NEW q \in Procs, pc'[q] \in Moved PROVE Carries(q)'
    BY DEF Carries
  <2>1. q # p /\ pc[q] \in Moved /\ loc[q].fid # f
    BY <1>1, <1>6 DEF Carries, Moved
  <2>2. \A r \in Procs : pc'[r] \in Moved => pc[r] \in Moved
    BY <1>6
  <2> HIDE DEF f
  <2> QED BY <1>2, <1>5, <1>k, <2>1, <2>2 DEF Carries
<1>9. \A q \in Procs : Knows(q)'
  <2> HIDE DEF f
  <2> QED BY <1>2, <1>5, <1>6 DEF Knows
<1> QED BY <1>2, <1>4, <1>7, <1>8, <1>9

------------------------------------------------------------------------------
(* The balance of a user.                                                   *)

Balanced(u) ==
    used[u] + SumFunctionOnSet(Uploaded, Charging(u))
  = SumFunctionOnSet(RowSizes, RowsOf(u)) + SumFunctionOnSet(Refunds, Refunding(u))

LEMMA SumGain ==
    ASSUME NEW f, NEW g, NEW S, IsFiniteSet(S), NEW x, x \notin S, g[x] \in Int,
           \A y \in S : f[y] \in Int /\ g[y] = f[y]
    PROVE  /\ SumFunctionOnSet(f, S) \in Int
           /\ SumFunctionOnSet(g, S \cup {x}) = SumFunctionOnSet(f, S) + g[x]
<1> DEFINE T == S \cup {x}
<1>1. IsFiniteSet(T) /\ x \in T /\ T \ {x} = S /\ \A y \in T : g[y] \in Int
  BY FS_AddElement
<1> HIDE DEF T
<1>2. SumFunctionOnSet(g, T) = g[x] + SumFunctionOnSet(g, S)
  BY <1>1, SumOne
<1>3. SumFunctionOnSet(g, S) = SumFunctionOnSet(f, S)
  BY SumSame
<1>4. SumFunctionOnSet(f, S) \in Int
  BY SumInt
<1> DEFINE a == SumFunctionOnSet(f, S)
<1>5. g[x] + a = a + g[x] /\ a \in Int
  <2> HIDE DEF a
  <2>1. a \in Int
    BY <1>4 DEF a
  <2> QED BY <2>1
<1> QED BY <1>2, <1>3, <1>5 DEF T

LEMMA SumLose ==
    ASSUME NEW f, NEW g, NEW S, IsFiniteSet(S), NEW x \in S,
           \A y \in S : f[y] \in Int, \A y \in S \ {x} : g[y] = f[y]
    PROVE  /\ SumFunctionOnSet(g, S \ {x}) \in Int
           /\ SumFunctionOnSet(f, S) = f[x] + SumFunctionOnSet(g, S \ {x})
<1> DEFINE R == S \ {x}
<1>1. IsFiniteSet(R)
  BY FS_Subset
<1>2. SumFunctionOnSet(f, S) = f[x] + SumFunctionOnSet(f, R) /\ SumFunctionOnSet(f, R) \in Int
  BY SumOne
<1> HIDE DEF R
<1>3. SumFunctionOnSet(f, R) = SumFunctionOnSet(g, R)
  BY <1>1, SumSame DEF R
<1> QED BY <1>2, <1>3 DEF R

\* The sums of a balance are of finitely many sizes.
LEMMA PartsOK ==
    ASSUME IsFiniteSet(Procs), TypeInv, NEW u \in Users
    PROVE  /\ IsFiniteSet(Charging(u)) /\ IsFiniteSet(Refunding(u)) /\ IsFiniteSet(RowsOf(u))
           /\ \A p \in Procs : Uploaded[p] \in Int /\ Refunds[p] \in Int
           /\ \A f \in RowsOf(u) : RowSizes[f] \in Int
           /\ used[u] \in Int
           /\ SumFunctionOnSet(Uploaded, Charging(u)) \in Int
           /\ SumFunctionOnSet(Refunds, Refunding(u)) \in Int
           /\ SumFunctionOnSet(RowSizes, RowsOf(u)) \in Int
<1>1. IsFiniteSet(Charging(u)) /\ IsFiniteSet(Refunding(u))
  <2>1. Charging(u) \subseteq Procs /\ Refunding(u) \subseteq Procs
    BY DEF Charging, Refunding
  <2> QED BY <2>1, FS_Subset
<1>2. IsFiniteSet(RowsOf(u))
  <2>1. IsFiniteSet(1..(nextFile - 1))
    <3>1. 1 \in Int /\ nextFile - 1 \in Int
      BY DEF TypeInv, TablesOK
    <3> QED BY <3>1, FS_Interval
  <2>2. RowsOf(u) \subseteq 1..(nextFile - 1)
    BY DEF RowsOf, TypeInv, TablesOK
  <2> QED BY <2>1, <2>2, FS_Subset
<1>3. \A p \in Procs : Uploaded[p] \in Int /\ Refunds[p] \in Int
  <2>1. loc \in [Procs -> Locals]
    BY DEF TypeInv, LocalsInv, ProcsOK
  <2> QED BY <2>1 DEF Uploaded, Refunds, Locals, FileRow
<1>4. \A f \in RowsOf(u) : RowSizes[f] \in Int
  BY DEF RowsOf, RowSizes, TypeInv, TablesOK, FileRow
<1>5. used[u] \in Int
  BY DEF TypeInv, TablesOK
<1>6. Charging(u) \subseteq Procs /\ Refunding(u) \subseteq Procs
  BY DEF Charging, Refunding
<1>7. SumFunctionOnSet(Uploaded, Charging(u)) \in Int
  <2>1. \A x \in Charging(u) : Uploaded[x] \in Int
    BY <1>3, <1>6
  <2> QED BY <1>1, <2>1, SumInt
<1>8. SumFunctionOnSet(Refunds, Refunding(u)) \in Int
  <2>1. \A x \in Refunding(u) : Refunds[x] \in Int
    BY <1>3, <1>6
  <2> QED BY <1>1, <2>1, SumInt
<1>9. SumFunctionOnSet(RowSizes, RowsOf(u)) \in Int
  BY <1>2, <1>4, SumInt
<1> QED BY <1>1, <1>2, <1>3, <1>4, <1>5, <1>7, <1>8, <1>9

\* A step that is no charge, no refund, and changes no row.
LEMMA BalanceStays ==
    ASSUME IsFiniteSet(Procs), TypeInv, NEW p \in Procs, OthersStay(p), UNCHANGED <<files, used>>,
           pc[p] \notin {"up_charge", "de_charge"}, pc'[p] \notin {"up_charge", "de_charge"},
           NEW u \in Users, Balanced(u)
    PROVE  Balanced(u)'
<1>1. Charging(u)' = Charging(u) /\ Refunding(u)' = Refunding(u)
  BY DEF Charging, Refunding, OthersStay
<1>2. \A q \in Charging(u) : Uploaded'[q] = Uploaded[q]
  BY DEF Charging, Uploaded, OthersStay
<1>3. \A q \in Refunding(u) : Refunds'[q] = Refunds[q]
  BY DEF Refunding, Refunds, OthersStay
<1>4. SumFunctionOnSet(Uploaded', Charging(u)) = SumFunctionOnSet(Uploaded, Charging(u))
  BY <1>2, PartsOK, SumSame
<1>5. SumFunctionOnSet(Refunds', Refunding(u)) = SumFunctionOnSet(Refunds, Refunding(u))
  BY <1>3, PartsOK, SumSame
<1>6. RowSizes' = RowSizes /\ RowsOf(u)' = RowsOf(u) /\ used'[u] = used[u]
  BY DEF RowSizes, RowsOf
<1> QED BY <1>1, <1>4, <1>5, <1>6 DEF Balanced

\* A new row and the charge to come.
LEMMA BalanceUpRow ==
    ASSUME IsFiniteSet(Procs), TypeInv, UploadsKnown, NEW p \in Procs, pc[p] = "up_row",
           files' = Insert(files, nextFile, loc[p].f), UNCHANGED <<loc, used>>,
           pc' = [pc EXCEPT ![p] = "up_charge"], NEW u \in Users, Balanced(u)
    PROVE  Balanced(u)'
<1> DEFINE r == loc[p].f
           C == Charging(u)
           R == RowsOf(u)
<1>1. /\ pc \in [Procs -> Labels] /\ r.owner = loc[p].user
      /\ DOMAIN files \subseteq 1..(nextFile - 1) /\ nextFile \in Nat
  BY DEF TypeInv, LocalsInv, ProcsOK, TablesOK, UploadsKnown, Working
<1>2. \A q \in Procs : pc'[q] = IF q = p THEN "up_charge" ELSE pc[q]
  BY <1>1
<1>3. nextFile \notin DOMAIN files
  BY <1>1
<1>4. /\ DOMAIN files' = DOMAIN files \cup {nextFile} /\ files'[nextFile] = r
      /\ \A f \in DOMAIN files : files'[f] = files[f]
  <2> HIDE DEF r
  <2> QED BY <1>3 DEF Insert, r
<1>5. Uploaded' = Uploaded /\ Refunds' = Refunds /\ used'[u] = used[u]
  BY DEF Uploaded, Refunds
<1>6. Refunding(u)' = Refunding(u)
  BY <1>2 DEF Refunding
<1>7. p \notin C /\ C' = IF loc[p].user = u THEN C \cup {p} ELSE C
  BY <1>2 DEF Charging
<1>8. nextFile \notin R /\ R' = IF r.owner = u THEN R \cup {nextFile} ELSE R
  <2> HIDE DEF r
  <2> QED BY <1>3, <1>4 DEF RowsOf
<1>9. /\ \A f \in R : RowSizes'[f] = RowSizes[f]
      /\ RowSizes'[nextFile] = r.size
  <2> HIDE DEF r
  <2> QED BY <1>4 DEF RowsOf, RowSizes
<1>10. Uploaded[p] = r.size
  BY DEF Uploaded
<1>11. CASE loc[p].user = u
  <2> DEFINE charging == SumFunctionOnSet(Uploaded, C)
             rows == SumFunctionOnSet(RowSizes, R)
             back == SumFunctionOnSet(Refunds, Refunding(u))
  <2>1. r.size \in Int
    BY <1>10, PartsOK
  <2>2. SumFunctionOnSet(Uploaded, C \cup {p}) = charging + r.size
    <3>1. IsFiniteSet(C) /\ \A q \in C : Uploaded[q] \in Int
      BY PartsOK DEF Charging
    <3> HIDE DEF C, r
    <3> QED BY <1>7, <1>10, <2>1, <3>1, SumGain
  <2>3. SumFunctionOnSet(RowSizes', R \cup {nextFile}) = rows + r.size
    <3>1. IsFiniteSet(R) /\ \A q \in R : RowSizes[q] \in Int
      BY PartsOK
    <3> HIDE DEF R, r
    <3> QED BY <1>8, <1>9, <2>1, <3>1, SumGain
  <2>4. /\ charging \in Int /\ rows \in Int /\ back \in Int /\ used[u] \in Int
        /\ used[u] + charging = rows + back
    BY PartsOK DEF Balanced
  <2>5. used[u] + (charging + r.size) = (rows + r.size) + back
    <3> HIDE DEF charging, rows, back, r
    <3> QED BY <2>1, <2>4
  <2>6. C' = C \cup {p} /\ R' = R \cup {nextFile}
    BY <1>1, <1>7, <1>8, <1>11
  <2> HIDE DEF charging, rows, r
  <2> QED BY <1>5, <1>6, <2>2, <2>3, <2>5, <2>6 DEF Balanced
<1>12. CASE loc[p].user # u
  <2>1. C' = C /\ R' = R
    BY <1>1, <1>7, <1>8, <1>12
  <2>2. SumFunctionOnSet(RowSizes', R) = SumFunctionOnSet(RowSizes, R)
    <3>1. IsFiniteSet(R)
      BY PartsOK
    <3> HIDE DEF R
    <3> QED BY <1>9, <3>1, SumSame
  <2> QED BY <1>5, <1>6, <2>1, <2>2 DEF Balanced
<1> QED BY <1>11, <1>12

\* A row that goes and the refund to come.
LEMMA BalanceTrRow ==
    ASSUME IsFiniteSet(Procs), TypeInv, NEW p \in Procs, pc[p] = "tr_row", NEW f \in DOMAIN files,
           files' = Remove(files, {f}), UNCHANGED <<loc, used>>,
           files[f].size = loc[p].size, files[f].owner = loc[p].user,
           pc' = [pc EXCEPT ![p] = "de_charge"], NEW u \in Users, Balanced(u)
    PROVE  Balanced(u)'
<1> DEFINE D == Refunding(u)
           R == RowsOf(u)
<1>1. pc \in [Procs -> Labels]
  BY DEF TypeInv, LocalsInv, ProcsOK
<1>2. \A q \in Procs : pc'[q] = IF q = p THEN "de_charge" ELSE pc[q]
  BY <1>1
<1>4. /\ DOMAIN files' = DOMAIN files \ {f}
      /\ \A g \in DOMAIN files' : files'[g] = files[g]
  BY DEF Remove
<1>5. Uploaded' = Uploaded /\ Refunds' = Refunds /\ used'[u] = used[u]
  BY DEF Uploaded, Refunds
<1>6. Charging(u)' = Charging(u)
  BY <1>2 DEF Charging
<1>7. p \notin D /\ D' = IF loc[p].user = u THEN D \cup {p} ELSE D
  BY <1>2 DEF Refunding
<1>8. R' = R \ {f} /\ (f \in R <=> loc[p].user = u)
  BY <1>4 DEF RowsOf
<1>9. /\ \A g \in R \ {f} : RowSizes'[g] = RowSizes[g]
      /\ RowSizes[f] = loc[p].size
  BY <1>4 DEF RowsOf, RowSizes
<1>10. Refunds[p] = loc[p].size
  BY DEF Refunds
<1>11. CASE loc[p].user = u
  <2> DEFINE s == loc[p].size
             charging == SumFunctionOnSet(Uploaded, Charging(u))
             rest == SumFunctionOnSet(RowSizes', R \ {f})
             rows == SumFunctionOnSet(RowSizes, R)
             back == SumFunctionOnSet(Refunds, D)
  <2>1. s \in Int
    BY <1>10, PartsOK
  <2>2. SumFunctionOnSet(Refunds, D \cup {p}) = back + s
    <3>1. IsFiniteSet(D) /\ \A q \in D : Refunds[q] \in Int
      BY PartsOK DEF Refunding
    <3> HIDE DEF D, s
    <3> QED BY <1>7, <1>10, <2>1, <3>1, SumGain DEF s
  <2>3. rows = s + rest /\ rest \in Int
    <3>1. IsFiniteSet(R) /\ \A q \in R : RowSizes[q] \in Int
      BY PartsOK
    <3>2. f \in R /\ RowSizes[f] = s
      BY <1>8, <1>9, <1>11
    <3> HIDE DEF R, s, rows, rest, charging, back
    <3>3. \A g \in R \ {f} : RowSizes'[g] = RowSizes[g]
      BY <1>9
    <3>4. /\ SumFunctionOnSet(RowSizes', R \ {f}) \in Int
          /\ SumFunctionOnSet(RowSizes, R) = RowSizes[f] + SumFunctionOnSet(RowSizes', R \ {f})
      <4>1. IsFiniteSet(R) /\ \A q \in R : RowSizes[q] \in Int
        BY <3>1
      <4>2. f \in R
        BY <3>2
      <4> QED BY <3>3, <4>1, <4>2, SumLose
    <3> QED BY <2>1, <3>2, <3>4 DEF rows, rest
  <2>4. /\ charging \in Int /\ rows \in Int /\ back \in Int /\ used[u] \in Int
        /\ used[u] + charging = rows + back
    BY PartsOK DEF Balanced
  <2>5. used[u] + charging = rest + (back + s)
    <3> HIDE DEF charging, rows, rest, back, s
    <3> QED BY <2>1, <2>3, <2>4
  <2>6. D' = D \cup {p} /\ R' = R \ {f}
    BY <1>7, <1>8, <1>11
  <2> HIDE DEF back, rows, s
  <2> QED BY <1>5, <1>6, <2>2, <2>5, <2>6 DEF Balanced
<1>12. CASE loc[p].user # u
  <2>1. D' = D /\ R' = R /\ \A g \in R : RowSizes'[g] = RowSizes[g]
    BY <1>7, <1>8, <1>9, <1>12
  <2>2. SumFunctionOnSet(RowSizes', R) = SumFunctionOnSet(RowSizes, R)
    <3>1. IsFiniteSet(R)
      BY PartsOK
    <3> HIDE DEF R
    <3> QED BY <2>1, <3>1, SumSame
  <2> QED BY <1>5, <1>6, <2>1, <2>2 DEF Balanced
<1> QED BY <1>11, <1>12

\* The charge of an upload, and the refund of a deletion.
LEMMA BalanceCharge ==
    ASSUME IsFiniteSet(Procs), TypeInv, UploadsKnown, MaxFaults = 0, NEW p \in Procs,
           UpCharge(p), NEW u \in Users, Balanced(u)
    PROVE  Balanced(u)'
<1> DEFINE r == loc[p].f
           C == Charging(u)
<1>1. /\ pc \in [Procs -> Labels] /\ pc[p] = "up_charge" /\ r.owner = loc[p].user
      /\ used \in [Users -> Int] /\ ~ (faults < MaxFaults)
  BY NoFaults DEF UpCharge, TypeInv, LocalsInv, ProcsOK, TablesOK, UploadsKnown, Working
<1>2. /\ used' = [used EXCEPT ![r.owner] = @ + r.size] /\ UNCHANGED files
      /\ pc' = [pc EXCEPT ![p] = "idle"]
  BY <1>1 DEF UpCharge, OrFault, Return, files_
<1>3. OthersStay(p)
  BY OneMoves DEF Steps
<1>4. pc'[p] = "idle"
  BY <1>1, <1>2
<1>5. RowSizes' = RowSizes /\ RowsOf(u)' = RowsOf(u) /\ Refunding(u)' = Refunding(u)
  BY <1>1, <1>2, <1>3, <1>4 DEF RowSizes, RowsOf, Refunding, OthersStay
<1>6. \A q \in Refunding(u) : Refunds'[q] = Refunds[q]
  BY <1>1, <1>3 DEF Refunding, Refunds, OthersStay
<1>7. SumFunctionOnSet(Refunds', Refunding(u)) = SumFunctionOnSet(Refunds, Refunding(u))
  BY <1>6, PartsOK, SumSame
<1>8. C' = C \ {p} /\ (p \in C <=> loc[p].user = u)
  BY <1>1, <1>3, <1>4 DEF Charging, OthersStay
<1>9. (\A q \in C \ {p} : Uploaded'[q] = Uploaded[q]) /\ Uploaded[p] = r.size
  BY <1>3 DEF Charging, Uploaded, OthersStay
<1>10. CASE loc[p].user = u
  <2> DEFINE was == SumFunctionOnSet(Uploaded, C)
             is == SumFunctionOnSet(Uploaded', C \ {p})
  <2>1. was = r.size + is /\ is \in Int /\ r.size \in Int
    <3>1. IsFiniteSet(C) /\ (\A q \in C : Uploaded[q] \in Int) /\ Uploaded[p] \in Int
      BY PartsOK DEF Charging
    <3>2. p \in C
      BY <1>8, <1>10
    <3> HIDE DEF C, r
    <3> QED BY <1>9, <3>1, <3>2, SumLose
  <2>2. used'[u] = used[u] + r.size
    BY <1>1, <1>2, <1>10
  <2>3. used[u] \in Int
    BY PartsOK
  <2>4. used'[u] + is = used[u] + was
    <3> HIDE DEF was, is, r
    <3> QED BY <2>1, <2>2, <2>3
  <2> HIDE DEF r
  <2> QED BY <1>5, <1>7, <1>8, <2>4 DEF Balanced
<1>11. CASE loc[p].user # u
  <2>1. C' = C /\ used'[u] = used[u] /\ \A q \in C : Uploaded'[q] = Uploaded[q]
    BY <1>1, <1>2, <1>8, <1>9, <1>11
  <2>2. SumFunctionOnSet(Uploaded', C) = SumFunctionOnSet(Uploaded, C)
    <3>1. IsFiniteSet(C)
      BY PartsOK
    <3> HIDE DEF C
    <3> QED BY <2>1, <3>1, SumSame
  <2> QED BY <1>5, <1>7, <2>1, <2>2 DEF Balanced
<1> QED BY <1>10, <1>11

LEMMA BalanceRefund ==
    ASSUME IsFiniteSet(Procs), TypeInv, MaxFaults = 0, NEW p \in Procs,
           DeCharge(p), NEW u \in Users, Balanced(u)
    PROVE  Balanced(u)'
<1> DEFINE s == loc[p].size
           D == Refunding(u)
<1>1. /\ pc \in [Procs -> Labels] /\ pc[p] = "de_charge"
      /\ used \in [Users -> Int] /\ ~ (faults < MaxFaults)
  BY NoFaults DEF DeCharge, TypeInv, LocalsInv, ProcsOK, TablesOK
<1>2. /\ used' = [used EXCEPT ![loc[p].user] = @ - s] /\ UNCHANGED files
      /\ pc' = [pc EXCEPT ![p] = "idle"]
  BY <1>1 DEF DeCharge, OrFault, Return, files_
<1>3. OthersStay(p)
  BY OneMoves DEF Steps
<1>4. pc'[p] = "idle"
  BY <1>1, <1>2
<1>5. RowSizes' = RowSizes /\ RowsOf(u)' = RowsOf(u) /\ Charging(u)' = Charging(u)
  BY <1>1, <1>2, <1>3, <1>4 DEF RowSizes, RowsOf, Charging, OthersStay
<1>6. \A q \in Charging(u) : Uploaded'[q] = Uploaded[q]
  BY <1>1, <1>3 DEF Charging, Uploaded, OthersStay
<1>7. SumFunctionOnSet(Uploaded', Charging(u)) = SumFunctionOnSet(Uploaded, Charging(u))
  BY <1>6, PartsOK, SumSame
<1>8. D' = D \ {p} /\ (p \in D <=> loc[p].user = u)
  BY <1>1, <1>3, <1>4 DEF Refunding, OthersStay
<1>9. (\A q \in D \ {p} : Refunds'[q] = Refunds[q]) /\ Refunds[p] = s
  BY <1>3 DEF Refunding, Refunds, OthersStay
<1>10. CASE loc[p].user = u
  <2> DEFINE was == SumFunctionOnSet(Refunds, D)
             is == SumFunctionOnSet(Refunds', D \ {p})
             charging == SumFunctionOnSet(Uploaded, Charging(u))
             rows == SumFunctionOnSet(RowSizes, RowsOf(u))
  <2>1. was = s + is /\ is \in Int /\ s \in Int
    <3>1. IsFiniteSet(D) /\ (\A q \in D : Refunds[q] \in Int) /\ Refunds[p] \in Int
      BY PartsOK DEF Refunding
    <3>2. p \in D
      BY <1>8, <1>10
    <3>5. Refunds[p] = s /\ s \in Int
      BY <1>9, <3>1
    <3> HIDE DEF D, s, was, is, charging, rows
    <3>3. \A q \in D \ {p} : Refunds'[q] = Refunds[q]
      BY <1>9
    <3>4. /\ SumFunctionOnSet(Refunds', D \ {p}) \in Int
          /\ SumFunctionOnSet(Refunds, D) = Refunds[p] + SumFunctionOnSet(Refunds', D \ {p})
      <4>1. IsFiniteSet(D) /\ \A q \in D : Refunds[q] \in Int
        BY <3>1
      <4> QED BY <3>2, <3>3, <4>1, SumLose
    <3> QED BY <3>4, <3>5 DEF was, is
  <2>2. used'[u] = used[u] - s
    BY <1>1, <1>2, <1>10
  <2>3. /\ used[u] \in Int /\ charging \in Int /\ rows \in Int
        /\ used[u] + charging = rows + was
    BY PartsOK DEF Balanced
  <2>4. used'[u] + charging = rows + is
    <3> DEFINE before == used[u]
    <3>1. before \in Int /\ before + charging = rows + was /\ used'[u] = before - s
      BY <2>2, <2>3
    <3> HIDE DEF before, was, is, s, charging, rows
    <3>2. charging \in Int /\ rows \in Int
      BY <2>3
    <3>3. (before - s) + charging = rows + is
      BY <2>1, <3>1, <3>2
    <3> QED BY <3>1, <3>3
  <2> HIDE DEF s
  <2> QED BY <1>5, <1>7, <1>8, <2>4 DEF Balanced
<1>11. CASE loc[p].user # u
  <2>1. D' = D /\ used'[u] = used[u] /\ \A q \in D : Refunds'[q] = Refunds[q]
    BY <1>1, <1>2, <1>8, <1>9, <1>11
  <2>2. SumFunctionOnSet(Refunds', D) = SumFunctionOnSet(Refunds, D)
    <3>1. IsFiniteSet(D)
      BY PartsOK
    <3> HIDE DEF D
    <3> QED BY <2>1, <3>1, SumSame
  <2> QED BY <1>5, <1>7, <2>1, <2>2 DEF Balanced
<1> QED BY <1>10, <1>11

------------------------------------------------------------------------------
(* The steps that leave rows and directories alone.                         *)

Directories == \A q \in DOMAIN store' : q.kind = "home" => q \in DOMAIN store

LEMMA NoNewHomes ==
    ASSUME \/ UNCHANGED store
           \/ \E qs : store' = Remove(store, qs)
           \/ \E q, b : store' = Insert(store, q, b) /\ q.kind = "tmp"
    PROVE  Directories
<1>1. ASSUME NEW q, NEW b, store' = Insert(store, q, b), q.kind = "tmp" PROVE Directories
  BY <1>1 DEF Insert, Directories
<1>2. ASSUME NEW qs, store' = Remove(store, qs) PROVE Directories
  BY <1>2 DEF Remove, Directories
<1>3. CASE UNCHANGED store
  BY <1>3 DEF Directories
<1> QED BY <1>1, <1>2, <1>3

\* A goroutine that goes to none of the steps of Trash is aside.
LEMMA StraightAside ==
    ASSUME NEW p \in Procs, OthersStay(p), UNCHANGED <<files, nextFile>>, Directories,
           pc[p] # "up_row", pc'[p] \notin Moved \cup {"tr_get", "tr_rename"}
    PROVE  Aside(p)
<1>1. Knows(p)'
  BY DEF Knows
<1> QED BY <1>1 DEF Aside, Directories

Charges == {"up_charge", "de_charge"}

LEMMA CallAside ==
    ASSUME TypeInv, NamesInv, "restore" \notin Ops, NEW p \in Procs, Calls(p)
    PROVE  /\ Aside(p) /\ UNCHANGED used
           /\ pc[p] \notin Charges /\ pc'[p] \notin Charges
<1>1. pc \in [Procs -> Labels] /\ OthersStay(p)
  BY OneMoves DEF TypeInv, LocalsInv, ProcsOK
<1>2. ~ Restore(p) /\ ~ VersionCalls(p)
  BY NoVersionSteps DEF Restore, Call
<1>3. /\ pc[p] = "idle" /\ UNCHANGED data
      /\ \E l \in {"up_list", "de_get", "pd_get", "et_list", "cu_list"} : Goto(p, l)
  BY <1>2, Zenon DEF Calls, Upload, Delete, RecycleCalls, PermanentlyDelete, EmptyTrash, CleanupExpired, Call
<1>4. pc'[p] \in {"up_list", "de_get", "pd_get", "et_list", "cu_list"}
  BY <1>1, <1>3 DEF Goto
<1>5. UNCHANGED <<files, nextFile, store, used>>
  BY <1>3 DEF data, files_, store_
<1> QED BY <1>1, <1>3, <1>4, <1>5, NoNewHomes, StraightAside DEF Moved, Charges

LEMMA PurgeAside ==
    ASSUME TypeInv, BackedInv, NEW p \in Procs,
           \/ PdGet(p) \/ PdBlob(p) \/ PdRow(p) \/ EtList(p) \/ EtBlob(p) \/ EtRows(p)
           \/ CuList(p) \/ CuBlob(p) \/ CuRows(p)
    PROVE  /\ Aside(p) /\ UNCHANGED used
           /\ pc[p] \notin Charges /\ pc'[p] \notin Charges
<1>1. pc \in [Procs -> Labels] /\ Harmless(p)
  BY PurgesHarmless DEF TypeInv, LocalsInv, ProcsOK
<1>2. pc[p] \in {"pd_get", "pd_blob", "pd_row", "et_list", "et_blobs", "cu_list", "cu_blobs"}
  BY DEF PdGet, PdBlob, PdRow, EtList, EtBlob, EtRows, CuList, CuBlob, CuRows, ListPurge,
         PurgeBlob, PurgeRows
<1>3. \/ UNCHANGED pc
      \/ \E l \in {"idle", "pd_blob", "pd_row", "et_blobs", "cu_blobs"} : Goto(p, l)
  BY DEF PdGet, PdBlob, PdRow, EtList, EtBlob, EtRows, CuList, CuBlob, CuRows, ListPurge,
         PurgeBlob, PurgeRows, Attempt, OrFault, Fail, Return, Goto
<1>4. pc'[p] \in {"idle", "pd_get", "pd_blob", "pd_row", "et_list", "et_blobs", "cu_list", "cu_blobs"}
  BY <1>1, <1>2, <1>3 DEF Goto
<1>5. UNCHANGED used
  BY DEF PdGet, PdBlob, PdRow, EtList, EtBlob, EtRows, CuList, CuBlob, CuRows, ListPurge,
         PurgeBlob, PurgeRows, Attempt, OrFault, Fail, data
<1>6. UNCHANGED store \/ \E qs : store' = Remove(store, qs)
  BY DEF PdGet, PdBlob, PdRow, EtList, EtBlob, EtRows, CuList, CuBlob, CuRows, ListPurge,
         PurgeBlob, PurgeRows, Attempt, OrFault, Fail, data, store_, Erase
<1> QED BY <1>1, <1>2, <1>4, <1>5, <1>6, NoNewHomes, StraightAside DEF Moved, Charges, Harmless

LEMMA UploadAside ==
    ASSUME TypeInv, NEW p \in Procs, UpList(p) \/ UpWrite(p) \/ UpQuota(p)
    PROVE  /\ Aside(p) /\ UNCHANGED used
           /\ pc[p] \notin Charges /\ pc'[p] \notin Charges
<1>1. pc \in [Procs -> Labels] /\ OthersStay(p)
  BY OneMoves DEF TypeInv, LocalsInv, ProcsOK, Steps
<1>2. pc[p] \in {"up_list", "up_write", "up_quota"} /\ UNCHANGED <<files, nextFile, used>>
  BY DEF UpList, UpWrite, UpQuota, data, files_
<1>3. \E l \in {"idle", "sv_num", "up_write", "up_quota", "up_rename"} : Goto(p, l)
  BY DEF UpList, UpWrite, UpQuota, OrFault, Return, Goto
<1>4. pc'[p] \in {"idle", "sv_num", "up_write", "up_quota", "up_rename"}
  BY <1>1, <1>3 DEF Goto
<1>5. \A u, n : Tmp(u, n).kind = "tmp"
  BY TmpOfKey
<1>6. \/ UNCHANGED store
      \/ \E qs : store' = Remove(store, qs)
      \/ \E q, b : store' = Insert(store, q, b) /\ q.kind = "tmp"
  <2>1. CASE UpList(p)
    BY <2>1 DEF UpList, data, store_
  <2>2. CASE UpWrite(p)
    BY <1>5, <2>2 DEF UpWrite, OrFault, DropTmp
  <2>3. CASE UpQuota(p)
    BY <2>3 DEF UpQuota, OrFault
  <2> QED BY <2>1, <2>2, <2>3
<1> QED BY <1>1, <1>2, <1>4, <1>6, NoNewHomes, StraightAside DEF Moved, Charges

\* The charge and the refund end a request.
LEMMA ChargeAside ==
    ASSUME TypeInv, NEW p \in Procs, UpCharge(p) \/ DeCharge(p)
    PROVE  Aside(p)
<1>1. pc \in [Procs -> Labels] /\ OthersStay(p)
  BY OneMoves DEF TypeInv, LocalsInv, ProcsOK, Steps
<1>2. pc[p] \in Charges /\ UNCHANGED <<files, nextFile, store>> /\ Return(p)
  BY DEF UpCharge, DeCharge, files_, store_, Charges
<1>3. pc'[p] = "idle"
  BY <1>1, <1>2 DEF Return
<1> QED BY <1>1, <1>2, <1>3, NoNewHomes, StraightAside DEF Moved, Charges

\* A deletion reads the row twice; the second time it is the same row.
LEMMA ReadAside ==
    ASSUME TypeInv, RowLaw, NEW p \in Procs, DeGet(p) \/ TrGet(p)
    PROVE  /\ Aside(p) /\ UNCHANGED used
           /\ pc[p] \notin Charges /\ pc'[p] \notin Charges
<1>1. /\ pc \in [Procs -> Labels] /\ OthersStay(p) /\ loc \in [Procs -> Locals] /\ loc[p] \in Locals
      /\ DOMAIN files \subseteq 1..(nextFile - 1) /\ nextFile \in Nat
  BY OneMoves, LocalTypes DEF TypeInv, LocalsInv, ProcsOK, Steps, RecycleSteps, TablesOK
<1>2. pc[p] \in {"de_get", "tr_get"} /\ UNCHANGED <<files, nextFile, store, used>>
  BY DEF DeGet, TrGet, Attempt, OrFault, Fail, data, files_, store_
<1>3. CASE Return(p)
  <2>1. pc'[p] = "idle"
    BY <1>1, <1>3 DEF Return
  <2> QED BY <1>1, <1>2, <2>1, NoNewHomes, StraightAside DEF Moved, Charges
<1>4. CASE DeGet(p) /\ ~ Return(p)
  <2>1. /\ Owned(loc[p].fid, loc[p].user) /\ Goto(p, "tr_get")
        /\ loc' = [loc EXCEPT ![p].size = files[loc[p].fid].size]
    BY <1>4 DEF DeGet, Attempt, OrFault, Fail
  <2>2. /\ pc'[p] = "tr_get" /\ loc'[p].fid = loc[p].fid /\ loc'[p].user = loc[p].user
        /\ loc'[p].size = files[loc[p].fid].size
    BY <1>1, <2>1 DEF Goto, Locals
  <2>3. loc[p].fid < nextFile
    BY <1>1, <2>1 DEF Owned
  <2>4. Knows(p)'
    BY <1>2, <2>1, <2>2, <2>3 DEF Knows, Moved, Owned
  <2> QED BY <1>1, <1>2, <2>2, <2>4, NoNewHomes DEF Aside, Directories, Moved, Charges
<1>5. CASE TrGet(p) /\ ~ Return(p)
  <2>1. /\ Goto(p, "tr_rename") /\ pc[p] = "tr_get"
        /\ loc' = [loc EXCEPT ![p].f = files[loc[p].fid]]
    BY <1>5 DEF TrGet, Attempt, OrFault, Fail
  <2>2. /\ pc'[p] = "tr_rename" /\ loc'[p].fid = loc[p].fid /\ loc'[p].user = loc[p].user
        /\ loc'[p].size = loc[p].size /\ loc'[p].f = files[loc[p].fid]
    BY <1>1, <2>1 DEF Goto, Locals
  <2>3. Knows(p)
    BY DEF RowLaw
  <2>4. Knows(p)'
    BY <1>2, <2>1, <2>2, <2>3 DEF Knows, Moved
  <2> QED BY <1>1, <1>2, <2>2, <2>4, NoNewHomes DEF Aside, Directories, Moved, Charges
<1> QED BY <1>3, <1>4, <1>5

------------------------------------------------------------------------------
(* Where nothing fails, storage_used is what the rows add up to.            *)

Smooth == /\ FreshNames /\ MaxFaults = 0 /\ MaxCrashes = 0 /\ "restore" \notin Ops
          /\ IsFiniteSet(Procs)

BalanceInv == UploadsKnown /\ NoRestores /\ RowLaw /\ \A u \in Users : Balanced(u)

LEMMA BalanceStep ==
    ASSUME Smooth, LossInv, BackedInv, BalanceInv, [Next]_vars
    PROVE  BalanceInv'
<1>1. /\ TypeInv /\ UpInv /\ NamesInv /\ BytesInv /\ UploadsKnown /\ NoRestores /\ RowLaw
      /\ \A u \in Users : Balanced(u)
      /\ IsFiniteSet(Procs) /\ MaxFaults = 0 /\ "restore" \notin Ops
  BY DEF LossInv, Inv, BalanceInv, Smooth
<1>2. ASSUME NEW p \in Procs, Aside(p), UNCHANGED used, pc[p] \notin Charges, pc'[p] \notin Charges,
             UploadsKnown' /\ NoRestores'
      PROVE  BalanceInv'
  <2>1. RowLaw'
    BY <1>1, <1>2, AsideLaw
  <2>2. OthersStay(p) /\ UNCHANGED <<files, used>>
    BY <1>2 DEF Aside
  <2>3. \A u \in Users : Balanced(u)'
    BY <1>1, <1>2, <2>2, BalanceStays DEF Charges
  <2> QED BY <1>2, <2>1, <2>3 DEF BalanceInv
<1>3. ASSUME NEW p \in Procs, Calls(p) PROVE BalanceInv'
  <2>1. UploadsKnown' /\ NoRestores'
    BY <1>1, <1>3, CallsKnown
  <2> QED BY <1>1, <1>2, <1>3, <2>1, CallAside
<1>4. ASSUME NEW p \in Procs, Steps(p) PROVE BalanceInv'
  <2>1. UploadsKnown' /\ NoRestores'
    <3>1. GoesOn(p)
      BY <1>1, <1>4, UploadGoesOn, DeleteGoesOn, RecycleGoesOn, VersionGoesOn DEF Steps
    <3> QED BY <1>1, <3>1, GoesOnKnown
  <2>2. CASE UpList(p) \/ UpWrite(p) \/ UpQuota(p)
    BY <1>1, <1>2, <2>1, <2>2, UploadAside
  <2>3. CASE UpRename(p)
    <3>1. RowLaw'
      BY <1>1, <2>3, UpRenameLaw
    <3>2. OthersStay(p) /\ UNCHANGED <<files, used>> /\ pc[p] = "up_rename"
      BY <1>1, <2>3, OneMoves DEF Steps, UpRename, files_
    <3>3. pc'[p] \notin {"up_charge", "de_charge"}
      <4>1. pc \in [Procs -> Labels]
        BY <1>1 DEF TypeInv, LocalsInv, ProcsOK
      <4> QED BY <2>3, <4>1 DEF UpRename, OrFault, Goto, Return
    <3>4. \A u \in Users : Balanced(u)'
      BY <1>1, <3>2, <3>3, BalanceStays
    <3> QED BY <2>1, <3>1, <3>4 DEF BalanceInv
  <2>4. CASE UpRow(p)
    <3>1. /\ RowLaw'
          /\ files' = Insert(files, nextFile, loc[p].f) /\ UNCHANGED <<loc, used>>
          /\ pc' = [pc EXCEPT ![p] = "up_charge"]
      BY <1>1, <2>4, UpRowLaw
    <3>2. pc[p] = "up_row"
      BY <2>4 DEF UpRow
    <3>3. \A u \in Users : Balanced(u)'
      BY <1>1, <3>1, <3>2, BalanceUpRow
    <3> QED BY <2>1, <3>1, <3>3 DEF BalanceInv
  <2>5. CASE UpCharge(p) \/ DeCharge(p)
    <3>1. RowLaw'
      BY <1>1, <2>5, ChargeAside, AsideLaw
    <3>2. \A u \in Users : Balanced(u)'
      BY <1>1, <2>5, BalanceCharge, BalanceRefund
    <3> QED BY <2>1, <3>1, <3>2 DEF BalanceInv
  <2>6. CASE DeGet(p) \/ TrGet(p)
    BY <1>1, <1>2, <2>1, <2>6, ReadAside
  <2>7. CASE TrRename(p)
    <3>1. RowLaw'
      BY <1>1, <2>7, TrRenameLaw
    <3>2. OthersStay(p) /\ UNCHANGED <<files, used>> /\ pc[p] = "tr_rename"
      BY <1>1, <2>7, OneMoves DEF Steps, RecycleSteps, TrRename, Attempt, OrFault, Fail, data, files_
    <3>3. pc'[p] \notin {"up_charge", "de_charge"}
      <4>1. pc \in [Procs -> Labels]
        BY <1>1 DEF TypeInv, LocalsInv, ProcsOK
      <4> QED BY <2>7, <4>1 DEF TrRename, Attempt, OrFault, Fail, Goto, Return
    <3>4. \A u \in Users : Balanced(u)'
      BY <1>1, <3>2, <3>3, BalanceStays
    <3> QED BY <2>1, <3>1, <3>4 DEF BalanceInv
  <2>8. CASE TrItem(p)
    <3>1. RowLaw' /\ UNCHANGED <<files, used, loc>> /\ pc' = [pc EXCEPT ![p] = "tr_row"]
      BY <1>1, <2>8, TrItemLaw
    <3>2. OthersStay(p) /\ pc[p] = "tr_item" /\ pc'[p] = "tr_row"
      BY <1>1, <2>8, <3>1, OneMoves DEF Steps, RecycleSteps, TrItem, TypeInv, LocalsInv, ProcsOK
    <3>3. \A u \in Users : Balanced(u)'
      BY <1>1, <3>1, <3>2, BalanceStays
    <3> QED BY <2>1, <3>1, <3>3 DEF BalanceInv
  <2>9. CASE TrRow(p)
    <3>1. /\ RowLaw' /\ UNCHANGED <<used, loc>> /\ pc' = [pc EXCEPT ![p] = "de_charge"]
          /\ files' = Remove(files, {loc[p].fid}) /\ loc[p].fid \in DOMAIN files
          /\ files[loc[p].fid].size = loc[p].size /\ files[loc[p].fid].owner = loc[p].user
      BY <1>1, <2>9, TrRowLaw
    <3>2. pc[p] = "tr_row"
      BY <2>9 DEF TrRow
    <3>3. \A u \in Users : Balanced(u)'
      BY <1>1, <3>1, <3>2, BalanceTrRow
    <3> QED BY <2>1, <3>1, <3>3 DEF BalanceInv
  <2>10. CASE \/ PdGet(p) \/ PdBlob(p) \/ PdRow(p) \/ EtList(p) \/ EtBlob(p) \/ EtRows(p)
              \/ CuList(p) \/ CuBlob(p) \/ CuRows(p)
    BY <1>1, <1>2, <2>1, <2>10, PurgeAside
  <2>11. ~ (TrUndo(p) \/ ReGet(p) \/ ReRename(p) \/ ReRow(p) \/ ReUndo(p) \/ ReItem(p) \/ ReCharge(p))
    BY DEF BackedInv, NoWayBack, Restoring, TrUndo, ReGet, ReRename, ReRow, ReUndo, ReItem, ReCharge
  <2>12. ~ VersionSteps(p)
    BY <1>1, NoVersionSteps
  <2> QED BY <1>4, <2>2, <2>3, <2>4, <2>5, <2>6, <2>7, <2>8, <2>9, <2>10, <2>11, <2>12
          DEF Steps, RecycleSteps
<1>5. ASSUME UNCHANGED <<files, nextFile, store, used, pc, loc>> PROVE BalanceInv'
  <2>1. UploadsKnown' /\ NoRestores'
    BY <1>1, <1>5 DEF UploadsKnown, NoRestores, Working, InUpload
  <2>2. RowLaw'
    BY <1>1, <1>5 DEF RowLaw, HomesClaimed, Carries, Knows, KeyOf
  <2>3. \A u \in Users : Balanced(u)'
    BY <1>1, <1>5 DEF Balanced, Charging, Refunding, Uploaded, Refunds, RowSizes, RowsOf
  <2> QED BY <2>1, <2>2, <2>3 DEF BalanceInv
<1>6. ASSUME NEW i \in DOMAIN bin, Expire(i) PROVE BalanceInv'
  <2>1. UNCHANGED <<files, nextFile, store, used, pc, loc>>
    BY <1>6 DEF Expire, files_, store_
  <2> QED BY <1>5, <2>1
<1>7. ~ Crash
  BY <1>1 DEF Crash, TypeInv, GhostsOK, Smooth
<1>8. CASE UNCHANGED vars
  <2>1. UNCHANGED <<files, nextFile, store, used, pc, loc>>
    BY <1>8 DEF vars
  <2> QED BY <1>5, <2>1
<1> QED BY <1>3, <1>4, <1>6, <1>7, <1>8 DEF Next

\* storage_used is the sum of the sizes of the user's rows, up to the requests between
\* writing a row and charging for it: however many uploads, deletions and purges of one
\* file run at once, each size is charged once and given back once.  It holds of any number
\* of goroutines, where nothing fails, no name is uploaded twice, and nothing is restored.
THEOREM UsedStaysExact ==
    ASSUME FreshNames, MaxFaults = 0, MaxCrashes = 0, "restore" \notin Ops, IsFiniteSet(Procs)
    PROVE  Spec => []UsedMatchesRows
<1>0. Smooth
  BY DEF Smooth
<1>1. Init => LossInv /\ BackedInv /\ BalanceInv
  <2> SUFFICES ASSUME Init PROVE BackedInv /\ BalanceInv
    BY InitLoss
  <2>1. (\A p \in Procs : pc[p] = "idle" /\ loc[p].todo = {} /\ ~ Working(p))
        /\ DOMAIN files = {} /\ DOMAIN bin = {} /\ DOMAIN store = {}
    BY DEF Init, Empty, NoLocals, Working, InUpload, UpSteps
  <2>2. BackedInv
    BY <2>1 DEF BackedInv, NoWayBack, RowsUnique, UpBacked, BinDoomed, Takes, SlotsDoomed,
                Trashing, Restoring
  <2>3. UploadsKnown /\ NoRestores
    BY <2>1 DEF UploadsKnown, NoRestores, Restoring
  <2>4. RowLaw
    BY <2>1 DEF RowLaw, HomesClaimed, Carries, Knows, Moved
  <2>5. ASSUME NEW u \in Users PROVE Balanced(u)
    <3>1. Charging(u) = {} /\ Refunding(u) = {} /\ RowsOf(u) = {} /\ used[u] = 0
      BY <2>1 DEF Charging, Refunding, RowsOf, Init
    <3>2. \A f : SumFunctionOnSet(f, {}) = 0
      BY SumStep, FS_EmptySet
    <3> QED BY <3>1, <3>2 DEF Balanced
  <2> QED BY <2>2, <2>3, <2>4, <2>5 DEF BalanceInv
<1>2. LossInv /\ BackedInv /\ BalanceInv /\ [Next]_vars => (LossInv /\ BackedInv /\ BalanceInv)'
  BY <1>0, BalanceStep, StepBacked, StepInv, StepNames, StepBytes DEF LossInv, Inv
<1>3. BalanceInv => UsedMatchesRows
  BY DEF BalanceInv, Balanced, UsedMatchesRows
<1> QED BY <1>1, <1>2, <1>3, PTL DEF Spec
==============================================================================
