----------------------------- MODULE PanelProofs -----------------------------
(***************************************************************************)
(* Theorems about the panels of the console that change what the server    *)
(* keeps: the rules, the channels and the incidents of the Alerts page and *)
(* the Maintenance page.  Each has an inductive invariant over the requests *)
(* that are under way, whatever their number and order.  And about the     *)
(* filter of the Explorer, which all panels that read are asked with.      *)
(* Each theorem is about the view by itself; ConsoleProofs composes them.  *)
(***************************************************************************)
EXTENDS Console, SequenceTheorems, FiniteSetTheorems, WellFoundedInduction, TLAPS

\* A function on 1 .. n is a sequence.
LEMMA FunctionIsSequence ==
  ASSUME NEW S, NEW n \in Nat, NEW f \in [1 .. n -> S]
  PROVE  f \in Seq(S) /\ Len(f) = n /\ DOMAIN f = 1 .. n
<1>1. f \in Seq(S)
  OBVIOUS
<1>. QED BY <1>1, SeqDef

(***************************************************************************)
(* Induction over finite sets, and sums.                                   *)
(***************************************************************************)

\* A set of numbers that has 0 and with each number the next one has them all.
LEMMA NumbersByInduction ==
  ASSUME NEW T, 0 \in T, \A n \in Nat : n \in T => n + 1 \in T
  PROVE  \A n \in Nat : n \in T
<1>. DEFINE Bad == Nat \ T
<1>1. SUFFICES ASSUME Bad # {} PROVE FALSE
  OBVIOUS
<1>2. PICK x \in Bad : \A y \in Bad : ~(<<y, x>> \in OpToRel(<, Nat))
  BY <1>1, NatLessThanWellFounded, WFMin
<1>3. \A y \in Bad : ~(y < x)
  BY <1>2 DEF OpToRel
<1>4. x \in Nat /\ x # 0 /\ x - 1 \in Nat /\ x - 1 < x /\ (x - 1) + 1 = x
  OBVIOUS
<1>5. x - 1 \in T
  BY <1>3, <1>4
<1>. QED BY <1>4, <1>5

\* A collection that has a subset of a finite set whenever it has all that are smaller
\* by one element has them all.
LEMMA SubsetsByInduction ==
  ASSUME NEW S, IsFiniteSet(S), NEW G,
         \A s \in SUBSET S : (\A x \in s : s \ {x} \in G) => s \in G
  PROVE  \A s \in SUBSET S : s \in G
<1>. DEFINE T == {n \in Nat : \A s \in SUBSET S : Cardinality(s) = n => s \in G}
<1>1. \A s \in SUBSET S : IsFiniteSet(s) /\ Cardinality(s) \in Nat
  BY FS_Subset, FS_CardinalityType
<1>2. 0 \in T
  BY <1>1, FS_EmptySet
<1>3. ASSUME NEW n \in Nat, n \in T PROVE n + 1 \in T
  <2>. SUFFICES ASSUME NEW s \in SUBSET S, Cardinality(s) = n + 1 PROVE s \in G
    OBVIOUS
  <2>1. ASSUME NEW x \in s PROVE s \ {x} \in G
    <3>1. Cardinality(s \ {x}) = n
      BY <1>1, FS_RemoveElement
    <3>. QED BY <1>3, <3>1
  <2>. QED BY <2>1
<1>. HIDE DEF T
<1>4. \A n \in Nat : n \in T
  BY <1>2, <1>3, NumbersByInduction
<1>. QED BY <1>1, <1>4 DEF T

\* What MapThenSumSet computes, over a function h: one element after the other.
Sums(g, S, h) ==
  g = [s \in SUBSET S |->
         IF s = {} THEN 0
         ELSE h[CHOOSE x \in s : TRUE] + g[s \ {CHOOSE x \in s : TRUE}]]

\* The recursion has a solution: one for the subsets of n elements extends to n + 1.
LEMMA SumsExist ==
  ASSUME NEW S, IsFiniteSet(S), NEW h
  PROVE  \E g : Sums(g, S, h)
<1>. DEFINE Few(n) == {s \in SUBSET S : Cardinality(s) <= n}
            Value(g, s) == IF s = {} THEN 0
                           ELSE h[CHOOSE x \in s : TRUE] + g[s \ {CHOOSE x \in s : TRUE}]
            T == {n \in Nat : \E g : g = [s \in Few(n) |-> Value(g, s)]}
<1>1. \A s \in SUBSET S : IsFiniteSet(s) /\ Cardinality(s) \in Nat
  BY FS_Subset, FS_CardinalityType
<1>2. \A s \in SUBSET S : s # {} =>
        /\ (CHOOSE x \in s : TRUE) \in s
        /\ Cardinality(s \ {CHOOSE x \in s : TRUE}) = Cardinality(s) - 1
  <2>. TAKE s \in SUBSET S
  <2>. HAVE s # {}
  <2>1. (CHOOSE x \in s : TRUE) \in s
    OBVIOUS
  <2>. QED BY <1>1, <2>1, FS_RemoveElement
<1>3. 0 \in T
  <2>. DEFINE g == [s \in Few(0) |-> 0]
  <2>1. \A s \in Few(0) : s = {}
    BY <1>1, FS_EmptySet
  <2>2. g = [s \in Few(0) |-> Value(g, s)]
    BY <2>1
  <2>. QED BY <2>2
<1>4. ASSUME NEW n \in Nat, n \in T PROVE n + 1 \in T
  <2>1. PICK g : g = [s \in Few(n) |-> Value(g, s)]
    BY <1>4
  <2>. DEFINE f == [s \in Few(n + 1) |-> Value(g, s)]
  <2>2. \A s \in Few(n + 1) : s # {} => s \ {CHOOSE x \in s : TRUE} \in Few(n)
    BY <1>1, <1>2
  <2>3. \A s \in Few(n) : s \in Few(n + 1)
    BY <1>1
  <2>4. \A s \in Few(n + 1) : f[s] = Value(g, s)
    OBVIOUS
  <2>. HIDE DEF Few, f
  <2>5. \A s \in Few(n) : g[s] = Value(g, s)
    <3>. HIDE DEF Value
    <3>. QED BY <2>1
  <2>6. \A s \in Few(n) : g[s] = f[s]
    <3>. HIDE DEF Value
    <3>. QED BY <2>3, <2>4, <2>5
  <2>7. \A s \in Few(n + 1) : Value(g, s) = Value(f, s)
    BY <2>2, <2>6
  <2>8. f = [s \in Few(n + 1) |-> Value(f, s)]
    <3>. HIDE DEF Value
    <3>. QED BY <2>7 DEF f
  <2>. HIDE DEF Value
  <2>. QED BY <2>8
<1>. HIDE DEF T
<1>5. Cardinality(S) \in T
  BY <1>1, <1>3, <1>4, NumbersByInduction
<1>6. Few(Cardinality(S)) = SUBSET S
  BY <1>1, FS_Subset
<1>. QED BY <1>5, <1>6 DEF T, Sums

\* The order does not matter.
LEMMA SumsSplit ==
  ASSUME NEW S, IsFiniteSet(S), NEW h \in [S -> Int], NEW g, Sums(g, S, h)
  PROVE  /\ g[{}] = 0
         /\ \A s \in SUBSET S : g[s] \in Int
         /\ \A s \in SUBSET S : \A x \in s : g[s] = h[x] + g[s \ {x}]
<1>. DEFINE c(s) == CHOOSE x \in s : TRUE
            N == {s \in SUBSET S : g[s] \in Int}
            G == {s \in SUBSET S : \A x \in s : g[s] = h[x] + g[s \ {x}]}
<1>1. g[{}] = 0
  BY DEF Sums
<1>2. \A s \in SUBSET S : s # {} => c(s) \in s /\ g[s] = h[c(s)] + g[s \ {c(s)}]
  BY DEF Sums
<1>. HIDE DEF c
<1>3. ASSUME NEW s \in SUBSET S, \A x \in s : s \ {x} \in N PROVE s \in N
  <2>1. CASE s = {}
    BY <1>1, <2>1
  <2>2. CASE s # {}
    <3>1. c(s) \in s /\ g[s] = h[c(s)] + g[s \ {c(s)}]
      BY <1>2, <2>2
    <3>2. g[s \ {c(s)}] \in Int /\ h[c(s)] \in Int
      BY <1>3, <3>1
    <3>. QED BY <3>1, <3>2
  <2>. QED BY <2>1, <2>2
<1>4. \A s \in SUBSET S : s \in N
  <2>. HIDE DEF N
  <2>. QED BY <1>3, SubsetsByInduction
<1>5. ASSUME NEW s \in SUBSET S, \A x \in s : s \ {x} \in G PROVE s \in G
  <2>. SUFFICES ASSUME NEW x \in s PROVE g[s] = h[x] + g[s \ {x}]
    OBVIOUS
  <2>. DEFINE y == c(s)
  <2>1. y \in s /\ g[s] = h[y] + g[s \ {y}]
    BY <1>2
  <2>. HIDE DEF y
  <2>2. CASE x = y
    BY <2>1, <2>2
  <2>3. CASE x # y
    <3>1. g[s \ {y}] = h[x] + g[(s \ {y}) \ {x}]
      BY <1>5, <2>1, <2>3
    <3>2. g[s \ {x}] = h[y] + g[(s \ {x}) \ {y}]
      BY <1>5, <2>1, <2>3
    <3>3. (s \ {x}) \ {y} = (s \ {y}) \ {x}
      OBVIOUS
    <3>4. g[(s \ {x}) \ {y}] = g[(s \ {y}) \ {x}]
      BY <3>3
    <3>5. h[x] \in Int /\ h[y] \in Int /\ g[(s \ {y}) \ {x}] \in Int
      BY <1>4, <2>1
    <3>. QED BY <2>1, <3>1, <3>2, <3>4, <3>5
  <2>. QED BY <2>2, <2>3
<1>6. \A s \in SUBSET S : s \in G
  <2>. HIDE DEF G
  <2>. QED BY <1>5, SubsetsByInduction
<1>. QED BY <1>1, <1>4, <1>6

\* A sum of the sizes of disjoint sets is the size of their union.
LEMMA SumsCount ==
  ASSUME NEW S, IsFiniteSet(S), NEW F,
         \A x \in S : IsFiniteSet(F[x]),
         \A x, y \in S : x # y => F[x] \cap F[y] = {},
         NEW h \in [S -> Int], \A x \in S : h[x] = Cardinality(F[x]),
         NEW g, Sums(g, S, h)
  PROVE  g[S] = Cardinality(UNION {F[x] : x \in S})
<1>. DEFINE U(s) == UNION {F[x] : x \in s}
            G == {s \in SUBSET S : IsFiniteSet(U(s)) /\ g[s] = Cardinality(U(s))}
<1>1. ASSUME NEW s \in SUBSET S, \A x \in s : s \ {x} \in G PROVE s \in G
  <2>1. CASE s = {}
    <3>1. U(s) = {}
      BY <2>1
    <3>. QED BY <2>1, <3>1, SumsSplit, FS_EmptySet
  <2>2. CASE s # {}
    <3>1. PICK x : x \in s
      BY <2>2
    <3>2. IsFiniteSet(U(s \ {x})) /\ g[s \ {x}] = Cardinality(U(s \ {x}))
      BY <1>1, <3>1
    <3>3. U(s) = U(s \ {x}) \cup F[x] /\ U(s \ {x}) \cap F[x] = {}
      BY <3>1
    <3>. HIDE DEF U
    <3>6. IsFiniteSet(F[x])
      BY <3>1
    <3>7. Cardinality(U(s \ {x}) \cap F[x]) = 0
      BY <3>3, FS_EmptySet
    <3>8. Cardinality(U(s \ {x})) \in Nat /\ Cardinality(F[x]) \in Nat
      BY <3>2, <3>6, FS_CardinalityType
    <3>9. /\ IsFiniteSet(U(s \ {x}) \cup F[x])
          /\ Cardinality(U(s \ {x}) \cup F[x]) = Cardinality(U(s \ {x})) + Cardinality(F[x])
                 - Cardinality(U(s \ {x}) \cap F[x])
      BY <3>2, <3>6, FS_Union
    <3>4. IsFiniteSet(U(s)) /\ Cardinality(U(s)) = Cardinality(U(s \ {x})) + Cardinality(F[x])
      BY <3>3, <3>7, <3>8, <3>9
    <3>5. g[s] = h[x] + g[s \ {x}]
      BY <3>1, SumsSplit
    <3>. QED BY <3>1, <3>2, <3>4, <3>5, FS_CardinalityType
  <2>. QED BY <2>1, <2>2
<1>2. \A s \in SUBSET S : s \in G
  <2>. HIDE DEF G
  <2>. QED BY <1>1, SubsetsByInduction
<1>. QED BY <1>2

\* The sum of h over S, whatever the order.
SumOver(S, h) == (CHOOSE g : Sums(g, S, h))[S]

LEMMA SumOverSplits ==
  ASSUME NEW S, IsFiniteSet(S), NEW h \in [S -> Int]
  PROVE  \E g : /\ Sums(g, S, h) /\ SumOver(S, h) = g[S]
                /\ g[{}] = 0
                /\ \A s \in SUBSET S : g[s] \in Int
                /\ \A s \in SUBSET S : \A x \in s : g[s] = h[x] + g[s \ {x}]
<1>. DEFINE g == CHOOSE g : Sums(g, S, h)
<1>1. Sums(g, S, h)
  BY SumsExist
<1>2. SumOver(S, h) = g[S]
  BY DEF SumOver
<1>. HIDE DEF g
<1>3. /\ g[{}] = 0
      /\ \A s \in SUBSET S : g[s] \in Int
      /\ \A s \in SUBSET S : \A x \in s : g[s] = h[x] + g[s \ {x}]
  BY <1>1, SumsSplit
<1>. QED BY <1>1, <1>2, <1>3

LEMMA SumOverCounts ==
  ASSUME NEW S, IsFiniteSet(S), NEW F,
         \A x \in S : IsFiniteSet(F[x]),
         \A x, y \in S : x # y => F[x] \cap F[y] = {},
         NEW h \in [S -> Int], \A x \in S : h[x] = Cardinality(F[x])
  PROVE  SumOver(S, h) = Cardinality(UNION {F[x] : x \in S})
<1>1. PICK g : Sums(g, S, h) /\ SumOver(S, h) = g[S]
  BY SumOverSplits
<1>2. g[S] = Cardinality(UNION {F[x] : x \in S})
  BY <1>1, SumsCount
<1>. QED BY <1>1, <1>2

\* What a function makes of the elements of a finite set is finite.
LEMMA ImageIsFinite ==
  ASSUME NEW S, IsFiniteSet(S), NEW f, NEW T, \A t \in T : \E x \in S : t = f[x]
  PROVE  IsFiniteSet(T)
<1>. DEFINE C == {x \in S : f[x] \in T}
            m == [x \in C |-> f[x]]
<1>1. IsFiniteSet(C)
  BY FS_Subset
<1>2. m \in Surjection(C, T)
  BY DEF Surjection
<1>. HIDE DEF C, m
<1>. QED BY <1>1, <1>2, FS_Surjection

\* Multiples of u are u apart, and leave nothing.
LEMMA Multiples ==
  ASSUME NEW u \in Nat \ {0}, NEW p \in Int, NEW q \in Int, p < q
  PROVE  u * p + u <= u * q
OBVIOUS

LEMMA MultipleOf == ASSUME NEW u \in Nat \ {0}, NEW q \in Int PROVE (u * q) % u = 0
OBVIOUS

\* The start of the bucket of a time, from a window that starts on a bucket.
LEMMA BucketInSeries ==
  ASSUME NEW u \in Nat \ {0}, NEW from \in Int, NEW to \in Int, from % u = 0,
         NEW t \in from .. to
  PROVE  /\ t - (t % u) \in from .. to
         /\ ((t - (t % u)) - from) % u = 0
<1>. DEFINE a == from \div u
            b == t \div u
<1>1. a \in Int /\ from = u * a
  OBVIOUS
<1>2. b \in Int /\ t = u * b + (t % u) /\ t % u \in 0 .. (u - 1)
  OBVIOUS
<1>. HIDE DEF a, b
<1>3. a <= b
  <2>1. b < a => u * b + u <= u * a
    BY <1>1, <1>2, Multiples
  <2>. QED BY <1>1, <1>2, <2>1
<1>4. u * a <= u * b
  <2>1. a < b => u * a + u <= u * b
    BY <1>1, <1>2, Multiples
  <2>. QED BY <1>1, <1>2, <1>3, <2>1
<1>5. (t - (t % u)) - from = u * (b - a)
  <2>1. u * (b - a) = u * b - u * a
    BY <1>1, <1>2
  <2>2. t - (t % u) = u * b
    BY <1>2
  <2>. QED BY <1>1, <2>1, <2>2
<1>6. (u * (b - a)) % u = 0
  <2>1. b - a \in Int
    BY <1>1, <1>2
  <2>. QED BY <2>1, MultipleOf
<1>. QED BY <1>1, <1>2, <1>4, <1>5, <1>6

\* Of finitely many elements one has the most.
LEMMA MostExists ==
  ASSUME NEW S, IsFiniteSet(S), NEW c \in [S -> Int], S # {}
  PROVE  \E m \in S : \A x \in S : c[x] <= c[m]
<1>. DEFINE G == {s \in SUBSET S : s # {} => \E m \in s : \A x \in s : c[x] <= c[m]}
<1>1. ASSUME NEW s \in SUBSET S, \A x \in s : s \ {x} \in G PROVE s \in G
  <2>. SUFFICES ASSUME NEW y \in s PROVE \E m \in s : \A x \in s : c[x] <= c[m]
    OBVIOUS
  <2>1. CASE s \ {y} = {}
    <3>1. \A x \in s : x = y
      BY <2>1
    <3>2. c[y] \in Int
      OBVIOUS
    <3>. QED BY <3>1, <3>2
  <2>2. CASE s \ {y} # {}
    <3>1. PICK m \in s \ {y} : \A x \in s \ {y} : c[x] <= c[m]
      BY <1>1, <2>2
    <3>2. \A x \in s : c[x] \in Int
      OBVIOUS
    <3>3. CASE c[y] <= c[m]
      BY <3>1, <3>2, <3>3
    <3>4. CASE c[m] <= c[y]
      BY <3>1, <3>2, <3>4
    <3>. QED BY <3>1, <3>2, <3>3, <3>4
  <2>. QED BY <2>1, <2>2
<1>2. \A s \in SUBSET S : s \in G
  <2>. HIDE DEF G
  <2>. QED BY <1>1, SubsetsByInduction
<1>. QED BY <1>2

\* There are n elements that no other exceeds.
LEMMA TopExists ==
  ASSUME NEW S, IsFiniteSet(S), NEW c \in [S -> Int], NEW n \in Nat, n <= Cardinality(S)
  PROVE  \E top \in SUBSET S : Cardinality(top) = n /\ \A f \in top, g \in S \ top : c[f] >= c[g]
<1>. DEFINE Top(top, k) == Cardinality(top) = k /\ \A f \in top, g \in S \ top : c[f] >= c[g]
            T == {k \in Nat : k <= Cardinality(S) => \E top \in SUBSET S : Top(top, k)}
<1>1. 0 \in T
  BY FS_EmptySet
<1>2. ASSUME NEW k \in Nat, k \in T PROVE k + 1 \in T
  <2>. SUFFICES ASSUME k + 1 <= Cardinality(S) PROVE \E top \in SUBSET S : Top(top, k + 1)
    OBVIOUS
  <2>0. Cardinality(S) \in Nat
    BY FS_CardinalityType
  <2>1. PICK top \in SUBSET S : Top(top, k)
    BY <1>2, <2>0
  <2>2. IsFiniteSet(top) /\ IsFiniteSet(S \ top)
    BY FS_Subset
  <2>3. S \ top # {}
    <3>1. S \ top = {} => top = S
      OBVIOUS
    <3>. QED BY <2>0, <2>1, <3>1
  <2>. DEFINE rest == S \ top
              d == [x \in rest |-> c[x]]
  <2>4. d \in [rest -> Int]
    OBVIOUS
  <2>5. PICK m \in rest : \A x \in rest : d[x] <= d[m]
    <3>. HIDE DEF d, rest
    <3>1. rest # {} /\ IsFiniteSet(rest)
      BY <2>2, <2>3 DEF rest
    <3>. QED BY <2>4, <3>1, MostExists
  <2>6. Cardinality(top \cup {m}) = k + 1
    BY <2>1, <2>2, FS_AddElement
  <2>7. \A f \in top \cup {m}, g \in S \ (top \cup {m}) : c[f] >= c[g]
    <3>1. \A x \in rest : c[x] <= c[m]
      BY <2>5
    <3>2. \A x \in S : c[x] \in Int
      OBVIOUS
    <3>. QED BY <2>1, <3>1, <3>2
  <2>. QED BY <2>6, <2>7
<1>. HIDE DEF T
<1>3. n \in T
  BY <1>1, <1>2, NumbersByInduction
<1>. QED BY <1>3 DEF T

(***************************************************************************)
(* The rules of the Alerts page.                                           *)
(***************************************************************************)

\* What the form sends, what the schema lets into the table, and a request.
RuleBody ==
  [expr : {Rules!buildExpr(d) : d \in Rules!RuleDraft}, threshold : Int,
   forDuration : Rules!Typed, severity : {"critical", "warning"},
   channels : SUBSET Channels, isEnabled : BOOLEAN]
RuleRow == {row \in RuleBody : Rules!ServerDuration(row.forDuration)}
RuleCall ==
  [kind : {"create", "patch"}, rule : Nat, body : RuleBody,
   at : {"sent", "audit", "answer", "refused"}, awaited : BOOLEAN]

RulesTyped ==
  /\ ruleDraft \in Rules!RuleDraft /\ chosen \in SUBSET Channels
  /\ ruleCalls \in Seq(RuleCall) /\ rules \in Seq(RuleRow)
  /\ ruleUnsure \in BOOLEAN

RulesCached ==
  /\ ruleList = [data |-> ruleList.data, fetch |-> ruleList.fetch,
                 answer |-> ruleList.answer, error |-> ruleList.error]
  /\ ruleList.fetch \in {"idle", "sent", "answered"} /\ ruleList.error \in BOOLEAN
  /\ ruleList.data \subseteq Seq(RuleRow) /\ ruleList.answer \subseteq Seq(RuleRow)

\* A request that was applied and whose answer will invalidate the list.
AppliedAwaited ==
  \E c \in DOMAIN ruleCalls :
    ruleCalls[c].awaited /\ ruleCalls[c].at \in {"audit", "answer"}

\* Nothing is applied any more of a request that is not awaited; what is shown and
\* the answer on its way are the table unless an answer is still to invalidate them.
RulesFresh ==
  ~ruleUnsure =>
    /\ \A c \in DOMAIN ruleCalls :
         ~ruleCalls[c].awaited => ruleCalls[c].at \in {"answer", "refused"}
    /\ ~AppliedAwaited =>
         /\ ruleList.fetch = "answered" => ruleList.answer = {rules}
         /\ ruleList.fetch = "idle" /\ ~ruleList.error /\ ruleList.data # {} =>
              ruleList.data = {rules}

RulesInv == RulesTyped /\ RulesCached /\ RulesFresh

LEMMA RuleCallsShape ==
  ASSUME RulesTyped
  PROVE  /\ Len(ruleCalls) \in Nat /\ DOMAIN ruleCalls = 1 .. Len(ruleCalls)
         /\ \A c \in DOMAIN ruleCalls :
              /\ ruleCalls[c] \in RuleCall /\ ruleCalls[c].body \in RuleBody
              /\ ruleCalls[c].kind \in {"create", "patch"}
<1>1. /\ Len(ruleCalls) \in Nat /\ DOMAIN ruleCalls = 1 .. Len(ruleCalls)
      /\ \A c \in DOMAIN ruleCalls : ruleCalls[c] \in RuleCall
  BY DEF RulesTyped
<1>. QED BY <1>1 DEF RuleCall

LEMMA PresetsAreDrafts == Rules!RULE_PRESETS \subseteq Rules!RuleDraft
<1>. USE DEF Rules!Level, Rules!LogKey, Rules!Wildcard, Rules!NoKey, Rules!LetterKeys,
             Rules!WithDigit, Rules!Typed, Rules!Minutes, Rules!RuleDraft, Rules!Preset
<1>1. Rules!ErrorSpike \in Rules!RuleDraft
  BY DEF Rules!ErrorSpike
<1>2. Rules!AnyFatal \in Rules!RuleDraft
  BY DEF Rules!AnyFatal
<1>3. Rules!SpecificFailure \in Rules!RuleDraft
  BY DEF Rules!SpecificFailure
<1>4. Rules!Heartbeat \in Rules!RuleDraft
  BY DEF Rules!Heartbeat
<1>. HIDE DEF Rules!Level, Rules!LogKey, Rules!Wildcard, Rules!NoKey, Rules!LetterKeys,
              Rules!WithDigit, Rules!Typed, Rules!Minutes, Rules!RuleDraft, Rules!Preset
<1>. QED BY <1>1, <1>2, <1>3, <1>4 DEF Rules!RULE_PRESETS

\* The body of a draft, and a row with its button pressed.
LEMMA DraftBody ==
  ASSUME NEW d \in Rules!RuleDraft, NEW chs \in SUBSET Channels
  PROVE  [expr |-> Rules!buildExpr(d), threshold |-> d.threshold,
          forDuration |-> d.forDuration, severity |-> d.severity,
          channels |-> chs, isEnabled |-> TRUE] \in RuleBody
<1>1. /\ d.threshold \in Int /\ d.forDuration \in Rules!Typed
      /\ d.severity \in {"critical", "warning"}
  BY DEF Rules!RuleDraft
<1>2. Rules!buildExpr(d) \in {Rules!buildExpr(e) : e \in Rules!RuleDraft}
  OBVIOUS
<1>. QED BY <1>1, <1>2 DEF RuleBody

LEMMA PatchedRow ==
  ASSUME NEW row \in RuleRow, NEW on \in BOOLEAN
  PROVE  /\ [row EXCEPT !.isEnabled = on] \in RuleRow
         /\ [row EXCEPT !.channels = {}] \in RuleRow
         /\ row \in RuleBody
<1>1. /\ [row EXCEPT !.isEnabled = on] \in RuleBody
      /\ [row EXCEPT !.channels = {}] \in RuleBody
      /\ [row EXCEPT !.isEnabled = on].forDuration = row.forDuration
      /\ [row EXCEPT !.channels = {}].forDuration = row.forDuration
  BY DEF RuleRow, RuleBody
<1>. QED BY <1>1 DEF RuleRow

\* Typing.
LEMMA RulesTypingPreserves ==
  ASSUME RulesInv,
         \/ Rules!applyPreset \/ Rules!MetricSeverityFields \/ Rules!LevelToggles
         \/ Rules!LogKeyField \/ Rules!ThresholdFields
         \/ \E ch \in Channels : Rules!toggleChannel(ch)
  PROVE  RulesInv'
<1>1. UNCHANGED <<ruleCalls, ruleList, rules, ruleUnsure>>
  BY DEF Rules!applyPreset, Rules!MetricSeverityFields, Rules!LevelToggles,
         Rules!LogKeyField, Rules!ThresholdFields, Rules!Edit, Rules!toggleChannel
<1>2. ruleDraft' \in Rules!RuleDraft /\ chosen' \in SUBSET Channels
  <2>1. CASE Rules!applyPreset
    BY <2>1, PresetsAreDrafts DEF Rules!applyPreset
  <2>2. CASE Rules!MetricSeverityFields \/ Rules!LevelToggles \/ Rules!LogKeyField
             \/ Rules!ThresholdFields
    <3>1. ruleDraft' \in Drafts /\ chosen' = chosen
      BY <2>2 DEF Rules!MetricSeverityFields, Rules!LevelToggles, Rules!LogKeyField,
                  Rules!ThresholdFields, Rules!Edit
    <3>. QED BY <3>1, RulesAssumption DEF RulesInv, RulesTyped
  <2>3. CASE \E ch \in Channels : Rules!toggleChannel(ch)
    BY <2>3 DEF Rules!toggleChannel, RulesInv, RulesTyped
  <2>. QED BY <2>1, <2>2, <2>3
<1>. QED BY <1>1, <1>2 DEF RulesInv, RulesTyped, RulesCached, RulesFresh, AppliedAwaited

\* A click that sends a request.
LEMMA RulesSendPreserves ==
  ASSUME RulesInv, NEW kind \in {"create", "patch"}, NEW i \in Nat, NEW body \in RuleBody,
         Rules!Send(kind, i, body),
         UNCHANGED <<ruleDraft, chosen, ruleList, rules, ruleUnsure>>
  PROVE  RulesInv'
<1>. DEFINE new == [kind |-> kind, rule |-> i, body |-> body, at |-> "sent", awaited |-> TRUE]
            n == Len(ruleCalls)
<1>1. ruleCalls' = Append(ruleCalls, new)
  BY DEF Rules!Send
<1>2. new \in RuleCall /\ new.at = "sent" /\ new.awaited
  BY DEF RuleCall
<1>. HIDE DEF new
<1>3. /\ n \in Nat /\ DOMAIN ruleCalls = 1 .. n
      /\ ruleCalls' \in Seq(RuleCall) /\ DOMAIN ruleCalls' = 1 .. n + 1
      /\ \A c \in 1 .. n : ruleCalls'[c] = ruleCalls[c]
      /\ ruleCalls'[n + 1] = new
  BY <1>1, <1>2 DEF RulesInv, RulesTyped
<1>4. AppliedAwaited' <=> AppliedAwaited
  BY <1>2, <1>3 DEF AppliedAwaited
<1>5. RulesTyped' /\ RulesCached'
  BY <1>3 DEF RulesInv, RulesTyped, RulesCached
<1>6. RulesFresh'
  BY <1>2, <1>3, <1>4 DEF RulesInv, RulesFresh
<1>. QED BY <1>5, <1>6 DEF RulesInv

LEMMA RulesClickPreserves ==
  ASSUME RulesInv, Rules!onSubmit \/ \E i \in DOMAIN rules : Rules!toggle(i)
  PROVE  RulesInv'
<1>1. CASE Rules!onSubmit
  <2>1. /\ Rules!Send("create", 0,
             [expr |-> Rules!buildExpr(ruleDraft), threshold |-> ruleDraft.threshold,
              forDuration |-> ruleDraft.forDuration, severity |-> ruleDraft.severity,
              channels |-> chosen, isEnabled |-> TRUE])
        /\ UNCHANGED <<ruleDraft, chosen, ruleList, rules, ruleUnsure>>
    BY <1>1 DEF Rules!onSubmit, Rules!form
  <2>2. [expr |-> Rules!buildExpr(ruleDraft), threshold |-> ruleDraft.threshold,
         forDuration |-> ruleDraft.forDuration, severity |-> ruleDraft.severity,
         channels |-> chosen, isEnabled |-> TRUE] \in RuleBody
    BY DraftBody DEF RulesInv, RulesTyped
  <2>. QED BY <2>1, <2>2, RulesSendPreserves
<1>2. ASSUME NEW i \in DOMAIN rules, Rules!toggle(i) PROVE RulesInv'
  <2>1. PICK row \in Rules!Rows(i) : Rules!Send("patch", i, [row EXCEPT !.isEnabled = ~@])
    BY <1>2 DEF Rules!toggle
  <2>2. row \in RuleRow
    BY DEF Rules!Rows, RulesInv, RulesCached
  <2>3. [row EXCEPT !.isEnabled = ~@] \in RuleBody
    <3>1. (~row.isEnabled) \in BOOLEAN
      OBVIOUS
    <3>. QED BY <2>2, <3>1, PatchedRow
  <2>4. i \in Nat /\ UNCHANGED <<ruleDraft, chosen, ruleList, rules, ruleUnsure>>
    BY <1>2 DEF Rules!toggle, Rules!form, RulesInv, RulesTyped
  <2>. QED BY <2>1, <2>3, <2>4, RulesSendPreserves
<1>. QED BY <1>1, <1>2

\* A request is taken to a stage, or it is not awaited any more.
LEMMA RuleCallChanges ==
  ASSUME RulesTyped, NEW c \in DOMAIN ruleCalls,
         NEW stage \in {"audit", "answer", "refused"}
  PROVE  /\ Rules!Reaches(c, stage) =>
              /\ ruleCalls' \in Seq(RuleCall) /\ DOMAIN ruleCalls' = DOMAIN ruleCalls
              /\ \A d \in DOMAIN ruleCalls : d # c => ruleCalls'[d] = ruleCalls[d]
              /\ ruleCalls'[c].at = stage /\ ruleCalls'[c].awaited = ruleCalls[c].awaited
         /\ Rules!Done(c) =>
              /\ ruleCalls' \in Seq(RuleCall) /\ DOMAIN ruleCalls' = DOMAIN ruleCalls
              /\ \A d \in DOMAIN ruleCalls : d # c => ruleCalls'[d] = ruleCalls[d]
              /\ ruleCalls'[c].at = ruleCalls[c].at /\ ~ruleCalls'[c].awaited
<1>1. ASSUME NEW new \in RuleCall, ruleCalls' = [ruleCalls EXCEPT ![c] = new]
      PROVE  /\ ruleCalls' \in Seq(RuleCall) /\ DOMAIN ruleCalls' = DOMAIN ruleCalls
             /\ \A d \in DOMAIN ruleCalls : d # c => ruleCalls'[d] = ruleCalls[d]
             /\ ruleCalls'[c] = new
  BY <1>1 DEF RulesTyped
<1>2. /\ ruleCalls[c] \in RuleCall
      /\ [ruleCalls[c] EXCEPT !.at = stage] \in RuleCall
      /\ [ruleCalls[c] EXCEPT !.at = stage].at = stage
      /\ [ruleCalls[c] EXCEPT !.at = stage].awaited = ruleCalls[c].awaited
      /\ [ruleCalls[c] EXCEPT !.awaited = FALSE] \in RuleCall
      /\ [ruleCalls[c] EXCEPT !.awaited = FALSE].at = ruleCalls[c].at
      /\ [ruleCalls[c] EXCEPT !.awaited = FALSE].awaited = FALSE
  BY RuleCallsShape DEF RuleCall
<1>3. Rules!Reaches(c, stage) =>
        ruleCalls' = [ruleCalls EXCEPT ![c] = [ruleCalls[c] EXCEPT !.at = stage]]
  BY DEF Rules!Reaches
<1>4. Rules!Done(c) =>
        ruleCalls' = [ruleCalls EXCEPT ![c] = [ruleCalls[c] EXCEPT !.awaited = FALSE]]
  BY DEF Rules!Done
<1>. QED BY <1>1, <1>2, <1>3, <1>4

\* The server applies a request, refuses it or writes its audit row.
LEMMA RulesServerPreserves ==
  ASSUME RulesInv, NEW c \in DOMAIN ruleCalls,
         Rules!create(c) \/ Rules!refuse(c) \/ Rules!patch(c) \/ Rules!record(c)
  PROVE  RulesInv'
<1>. DEFINE stage == IF Rules!refuse(c) THEN "refused"
                     ELSE IF Rules!record(c) THEN "answer" ELSE "audit"
<1>1. PICK st \in {"audit", "answer", "refused"} :
        /\ Rules!Reaches(c, st)
        /\ st = "refused" => ruleCalls[c].at = "sent" /\ rules' = rules
        /\ st = "answer" => ruleCalls[c].at = "audit" /\ rules' = rules
        /\ st = "audit" => ruleCalls[c].at = "sent" /\ (Rules!create(c) \/ Rules!patch(c))
        /\ UNCHANGED <<ruleDraft, chosen, ruleList, ruleUnsure>>
  <2>1. CASE Rules!create(c)
    BY <2>1 DEF Rules!create, Rules!form
  <2>2. CASE Rules!patch(c)
    BY <2>2 DEF Rules!patch, Rules!form
  <2>3. CASE Rules!refuse(c)
    BY <2>3 DEF Rules!refuse, Rules!form
  <2>4. CASE Rules!record(c)
    BY <2>4 DEF Rules!record, Rules!form
  <2>. QED BY <2>1, <2>2, <2>3, <2>4
<1>2. /\ ruleCalls' \in Seq(RuleCall) /\ DOMAIN ruleCalls' = DOMAIN ruleCalls
      /\ \A d \in DOMAIN ruleCalls : d # c => ruleCalls'[d] = ruleCalls[d]
      /\ ruleCalls'[c].at = st /\ ruleCalls'[c].awaited = ruleCalls[c].awaited
  BY <1>1, RuleCallChanges DEF RulesInv
<1>3. rules' \in Seq(RuleRow)
  <2>1. CASE Rules!create(c)
    <3>1. ruleCalls[c].body \in RuleRow
      BY <2>1, RuleCallsShape DEF RulesInv, Rules!create, Rules!SchemaAccepts, RuleRow
    <3>. QED BY <2>1, <3>1 DEF Rules!create, RulesInv, RulesTyped
  <2>2. CASE Rules!patch(c)
    <3>. DEFINE k == ruleCalls[c].rule
                on == ruleCalls[c].body.isEnabled
    <3>1. on \in BOOLEAN
      BY RuleCallsShape DEF RulesInv, RuleBody
    <3>2. rules' = [rules EXCEPT ![k].isEnabled = on, ![k].channels = {}]
      BY <2>2 DEF Rules!patch
    <3>. HIDE DEF on, k
    <3>3. /\ Len(rules) \in Nat /\ DOMAIN rules = 1 .. Len(rules)
          /\ \A j \in DOMAIN rules : rules[j] \in RuleRow
      BY DEF RulesInv, RulesTyped
    <3>4. /\ DOMAIN rules' = DOMAIN rules
          /\ \A j \in DOMAIN rules :
               rules'[j] = IF j = k
                           THEN [[rules[j] EXCEPT !.isEnabled = on] EXCEPT !.channels = {}]
                           ELSE rules[j]
      BY <3>2
    <3>5. \A j \in DOMAIN rules : rules'[j] \in RuleRow
      BY <3>1, <3>3, <3>4, PatchedRow
    <3>6. rules' \in [1 .. Len(rules) -> RuleRow]
      BY <3>2, <3>3, <3>4, <3>5
    <3>. QED BY <3>3, <3>6, FunctionIsSequence
  <2>3. CASE Rules!refuse(c) \/ Rules!record(c)
    BY <2>3 DEF Rules!refuse, Rules!record, RulesInv, RulesTyped
  <2>. QED BY <2>1, <2>2, <2>3
<1>4. RulesTyped' /\ RulesCached'
  BY <1>1, <1>2, <1>3 DEF RulesInv, RulesTyped, RulesCached
<1>5. RulesFresh'
  <2>. SUFFICES ASSUME ~ruleUnsure PROVE RulesFresh'
    BY <1>1 DEF RulesFresh
  <2>1. ~ruleCalls[c].awaited => ruleCalls[c].at \in {"answer", "refused"}
    BY DEF RulesInv, RulesFresh
  <2>2. ruleCalls[c].awaited
    BY <1>1, <2>1
  <2>3. CASE st = "refused"
    <3>1. AppliedAwaited' <=> AppliedAwaited
      BY <1>1, <1>2, <2>3 DEF AppliedAwaited
    <3>. QED BY <1>1, <1>2, <2>2, <2>3, <3>1 DEF RulesInv, RulesFresh
  <2>4. CASE st # "refused"
    <3>1. AppliedAwaited'
      BY <1>2, <2>2, <2>4 DEF AppliedAwaited
    <3>. QED BY <1>1, <1>2, <2>2, <3>1 DEF RulesInv, RulesFresh
  <2>. QED BY <2>3, <2>4
<1>. QED BY <1>4, <1>5 DEF RulesInv

\* An answer arrives, or none ever.
LEMMA RulesAnswerPreserves ==
  ASSUME RulesInv, NEW c \in DOMAIN ruleCalls, Rules!onSuccess(c) \/ Rules!onError(c)
  PROVE  RulesInv'
<1>1. /\ Rules!Done(c) /\ UNCHANGED <<ruleDraft, chosen, rules>>
  BY DEF Rules!onSuccess, Rules!onError, Rules!form
<1>2. /\ ruleCalls' \in Seq(RuleCall) /\ DOMAIN ruleCalls' = DOMAIN ruleCalls
      /\ \A d \in DOMAIN ruleCalls : d # c => ruleCalls'[d] = ruleCalls[d]
      /\ ruleCalls'[c].at = ruleCalls[c].at /\ ~ruleCalls'[c].awaited
  BY <1>1, RuleCallChanges DEF RulesInv
<1>3. CASE Rules!onSuccess(c)
  <2>1. /\ ruleCalls[c].at = "answer"
        /\ ruleList' = Rules!Cache!Invalidate(ruleList)
        /\ ruleUnsure' = (ruleUnsure \/ Rules!Cache!Joins(ruleList))
    BY <1>3 DEF Rules!onSuccess
  <2>2. RulesTyped' /\ RulesCached'
    <3>1. RulesCached'
      BY <2>1 DEF RulesInv, RulesCached, Rules!Cache!Invalidate, Rules!Cache!NoData
    <3>2. ruleUnsure' \in BOOLEAN
      BY <2>1, Zenon DEF RulesInv, RulesTyped, Rules!Cache!Joins
    <3>. QED BY <1>1, <1>2, <3>1, <3>2 DEF RulesInv, RulesTyped
  <2>3. RulesFresh'
    <3>. SUFFICES ASSUME ~ruleUnsure' PROVE RulesFresh'
      BY DEF RulesFresh
    <3>1. ~ruleUnsure /\ ~Rules!Cache!Joins(ruleList)
      BY <2>1
    <3>2. ruleList' = [ruleList EXCEPT !.fetch = "sent", !.answer = {}]
      BY <2>1, <3>1 DEF Rules!Cache!Joins, Rules!Cache!Invalidate, Rules!Cache!NoData
    <3>3. ruleList'.fetch = "sent"
      BY <3>2 DEF RulesInv, RulesCached
    <3>. QED BY <1>1, <1>2, <2>1, <3>1, <3>3 DEF RulesInv, RulesFresh
  <2>. QED BY <2>2, <2>3 DEF RulesInv
<1>4. CASE Rules!onError(c)
  <2>1. /\ ruleList' = ruleList
        /\ ruleUnsure' = (ruleUnsure \/ ruleCalls[c].at # "refused")
    BY <1>4 DEF Rules!onError
  <2>2. RulesTyped' /\ RulesCached'
    <3>1. ruleUnsure' \in BOOLEAN
      BY <2>1, Zenon DEF RulesInv, RulesTyped
    <3>. QED BY <1>1, <1>2, <2>1, <3>1 DEF RulesInv, RulesTyped, RulesCached
  <2>3. RulesFresh'
    <3>. SUFFICES ASSUME ~ruleUnsure' PROVE RulesFresh'
      BY DEF RulesFresh
    <3>1. ~ruleUnsure /\ ruleCalls[c].at = "refused"
      BY <2>1
    <3>2. AppliedAwaited' <=> AppliedAwaited
      BY <1>2, <3>1 DEF AppliedAwaited
    <3>. QED BY <1>1, <1>2, <2>1, <3>1, <3>2 DEF RulesInv, RulesFresh
  <2>. QED BY <2>2, <2>3 DEF RulesInv
<1>. QED BY <1>3, <1>4

\* The steps of the list's fetch.
LEMMA RulesFetchPreserves ==
  ASSUME RulesInv, \/ Rules!listRules \/ Rules!listArrives \/ Rules!listFails
                   \/ UNCHANGED Rules!vars
  PROVE  RulesInv'
<1>1. UNCHANGED <<ruleDraft, chosen, ruleCalls, rules, ruleUnsure>>
  BY DEF Rules!listRules, Rules!listArrives, Rules!listFails, Rules!vars, Rules!form
<1>2. RulesTyped' /\ (AppliedAwaited' <=> AppliedAwaited)
  BY <1>1 DEF RulesInv, RulesTyped, AppliedAwaited
<1>3. RulesCached
  BY DEF RulesInv
<1>4. CASE Rules!listRules
  <2>1. ruleList' = [ruleList EXCEPT !.fetch = "answered", !.answer = {rules}]
    BY <1>4 DEF Rules!listRules, Rules!Cache!Answer
  <2>2. RulesCached'
    BY <1>3, <2>1 DEF RulesInv, RulesTyped, RulesCached
  <2>3. ruleList'.fetch = "answered" /\ ruleList'.answer = {rules}
    BY <1>3, <2>1 DEF RulesCached
  <2>. QED BY <1>1, <1>2, <2>2, <2>3 DEF RulesInv, RulesFresh
<1>5. CASE Rules!listArrives
  <2>1. /\ ruleList.fetch = "answered"
        /\ ruleList' = [data |-> ruleList.answer, fetch |-> "idle", answer |-> {}, error |-> FALSE]
    BY <1>5 DEF Rules!listArrives, Rules!Cache!Deliver, Rules!Cache!NoData
  <2>2. RulesCached'
    BY <1>3, <2>1 DEF RulesCached
  <2>3. ruleList'.fetch = "idle" /\ ruleList'.data = ruleList.answer
    BY <2>1
  <2>. QED BY <1>1, <1>2, <2>1, <2>2, <2>3 DEF RulesInv, RulesFresh
<1>6. CASE Rules!listFails
  <2>1. ruleList' = [ruleList EXCEPT !.fetch = "idle", !.answer = {}, !.error = TRUE]
    BY <1>6 DEF Rules!listFails, Rules!Cache!Fail, Rules!Cache!NoData
  <2>2. RulesCached'
    BY <1>3, <2>1 DEF RulesCached
  <2>3. ruleList'.fetch = "idle" /\ ruleList'.error
    BY <1>3, <2>1 DEF RulesCached
  <2>. QED BY <1>1, <1>2, <2>2, <2>3 DEF RulesInv, RulesFresh
<1>7. CASE UNCHANGED Rules!vars
  <2>1. ruleList' = ruleList
    BY <1>7 DEF Rules!vars
  <2>. QED BY <1>1, <1>2, <2>1 DEF RulesInv, RulesCached, RulesFresh
<1>. QED BY <1>4, <1>5, <1>6, <1>7

LEMMA RulesInitHolds == ASSUME Rules!Init PROVE RulesInv
<1>1. /\ ruleDraft = Rules!ErrorSpike /\ chosen = {} /\ ruleCalls = <<>> /\ ruleUnsure = FALSE
      /\ ruleList = [data |-> {}, fetch |-> "sent", answer |-> {}, error |-> FALSE]
  BY DEF Rules!Init, Rules!Cache!FirstLoad, Rules!Cache!NoData
<1>2. ruleDraft \in Rules!RuleDraft /\ Rules!Heartbeat \in Rules!RuleDraft
  BY <1>1, PresetsAreDrafts DEF Rules!RULE_PRESETS
<1>. DEFINE row == [expr |-> Rules!buildExpr(Rules!Heartbeat), threshold |-> 0,
                    forDuration |-> "1m", severity |-> "critical",
                    channels |-> Channels, isEnabled |-> TRUE]
<1>3. row \in RuleRow
  <2>1. Rules!buildExpr(Rules!Heartbeat) \in {Rules!buildExpr(d) : d \in Rules!RuleDraft}
    BY <1>2
  <2>2. "1m" \in Rules!Typed /\ Rules!ServerDuration("1m")
    BY DEF Rules!Typed, Rules!ServerDuration, Rules!Minutes
  <2>. QED BY <2>1, <2>2 DEF RuleRow, RuleBody
<1>4. rules \in Seq(RuleRow)
  <2>1. rules = <<>> \/ rules = <<row>>
    BY DEF Rules!Init
  <2>. HIDE DEF row
  <2>2. <<row>> \in Seq(RuleRow)
    BY <1>3
  <2>3. <<>> \in Seq(RuleRow)
    OBVIOUS
  <2>. QED BY <2>1, <2>2, <2>3
<1>5. RulesTyped /\ RulesCached
  <2>1. ruleCalls \in Seq(RuleCall)
    BY <1>1
  <2>3. chosen \in SUBSET Channels /\ ruleUnsure \in BOOLEAN
    BY <1>1
  <2>2. RulesCached
    BY <1>1 DEF RulesCached
  <2>. QED BY <1>2, <1>4, <2>1, <2>2, <2>3 DEF RulesTyped
<1>6. RulesFresh
  BY <1>1 DEF RulesFresh
<1>. QED BY <1>5, <1>6 DEF RulesInv

LEMMA RulesNextPreserves == ASSUME RulesInv, [Rules!Next]_(Rules!vars) PROVE RulesInv'
BY RulesTypingPreserves, RulesClickPreserves, RulesServerPreserves, RulesAnswerPreserves,
   RulesFetchPreserves DEF Rules!Next

LEMMA RulesInvImpliesCurrent == RulesInv => Rules!QuietListIsCurrent
<1>. SUFFICES ASSUME RulesInv, ruleList.fetch = "idle", ~ruleList.error, ruleList.data # {},
                     ~ruleUnsure, \A c \in DOMAIN ruleCalls : ~ruleCalls[c].awaited
              PROVE  ruleList.data = {rules}
  BY DEF Rules!QuietListIsCurrent, Rules!Cache!Settled, Rules!Cache!NoData
<1>1. ~AppliedAwaited
  BY DEF AppliedAwaited
<1>. QED BY <1>1 DEF RulesInv, RulesFresh

\* parseExpr() of the supported shapes has the subject of the preview.
LEMMA SupportedSubject ==
  ASSUME NEW expr, Rules!SupportedShape(expr), NEW l \in Rules!Line
  PROVE  <<l.level, l.logKey>> \in Rules!parseExpr(expr).subject <=> Rules!InSubject(expr, l)
<1>. USE DEF Rules!OnlyKey, Rules!IsAbsence, Rules!IsErrorSpike, Rules!Counting,
             Rules!LetterKeys, Rules!NoKey
<1>0. l.level \in Rules!Level /\ l.logKey \in Rules!LogKey
  BY DEF Rules!Line
<1>1. CASE expr.levels = {"error", "fatal"} /\ expr.logKey = ""
  <2>1. Rules!parseExpr(expr).subject = {"error", "fatal"} \X Rules!LogKey
    BY <1>1 DEF Rules!parseExpr
  <2>2. Rules!InSubject(expr, l) <=> l.level \in {"error", "fatal"}
    BY <1>1 DEF Rules!InSubject, Rules!Matches
  <2>. QED BY <1>0, <2>1, <2>2
<1>2. CASE expr.levels = {} /\ expr.logKey \in Rules!LetterKeys
           /\ (Rules!IsAbsence(expr) \/ expr.metric = "rate")
  <2>1. Rules!parseExpr(expr).subject = Rules!Level \X {expr.logKey}
    BY <1>2 DEF Rules!parseExpr
  <2>2. Rules!InSubject(expr, l) <=> l.logKey = expr.logKey
    BY <1>2 DEF Rules!InSubject, Rules!Matches
  <2>. QED BY <1>0, <2>1, <2>2
<1>. QED BY <1>1, <1>2 DEF Rules!SupportedShape

\* Grouped or not, the series hold the lines that the query selects.
LEMMA SeriesHoldTheSelected ==
  ASSUME NEW expr, NEW l \in Lines
  PROVE  l \in UNION Rules!Drawn(expr, Lines)
           <=> /\ l.service = "api" /\ Rules!InSubject(expr, l)
               /\ l.age <= Rules!Minutes[expr.window]
<1>. DEFINE selected == {m \in Lines : /\ m.service = "api" /\ Rules!InSubject(expr, m)
                                        /\ m.age <= Rules!Minutes[expr.window]}
<1>1. l.logKey \in Rules!LogKey
  BY RulesAssumption DEF Rules!Line
<1>2. Rules!Drawn(expr, Lines) =
        IF expr.grouped THEN {{m \in selected : m.logKey = key} : key \in Rules!LogKey}
                        ELSE {selected}
  BY DEF Rules!Drawn
<1>3. l \in selected <=> /\ l.service = "api" /\ Rules!InSubject(expr, l)
                         /\ l.age <= Rules!Minutes[expr.window]
  OBVIOUS
<1>. HIDE DEF selected
<1>4. CASE expr.grouped
  <2>1. l \in UNION Rules!Drawn(expr, Lines) => l \in selected
    BY <1>2, <1>4
  <2>2. ASSUME l \in selected PROVE l \in UNION Rules!Drawn(expr, Lines)
    <3>1. {m \in selected : m.logKey = l.logKey} \in Rules!Drawn(expr, Lines)
      BY <1>1, <1>2, <1>4
    <3>2. l \in {m \in selected : m.logKey = l.logKey}
      BY <2>2
    <3>. QED BY <3>1, <3>2
  <2>. QED BY <1>3, <2>1, <2>2
<1>5. CASE ~expr.grouped
  BY <1>2, <1>3, <1>5
<1>. QED BY <1>4, <1>5

LEMMA RulesInvImpliesCounts == RulesInv => Rules!SupportedShapesCountWhatIsDrawn
<1>. SUFFICES ASSUME RulesInv, NEW i \in DOMAIN rules, Rules!SupportedShape(rules[i].expr),
                     NEW l \in Lines
              PROVE  (/\ l \in Rules!Counted(rules[i], Lines) /\ l.service = "api"
                      /\ l.age <= Rules!Minutes[rules[i].expr.window])
                       <=> (/\ l \in UNION Rules!Drawn(rules[i].expr, Lines)
                            /\ l.age <= Rules!Minutes[rules[i].forDuration])
  <2>1. ASSUME NEW expr PROVE UNION Rules!Drawn(expr, Lines) \subseteq Lines
    BY DEF Rules!Drawn
  <2>2. ASSUME NEW rule PROVE Rules!Counted(rule, Lines) \subseteq Lines
    BY DEF Rules!Counted
  <2>. QED BY <2>1, <2>2 DEF Rules!SupportedShapesCountWhatIsDrawn
<1>1. rules[i] \in RuleRow
  BY DEF RulesInv, RulesTyped
<1>2. rules[i].forDuration \in {"1m", "2m", "5m", "10m"}
  BY <1>1 DEF RuleRow, Rules!ServerDuration, Rules!Minutes
<1>3. Rules!parseDuration(rules[i].forDuration) = Rules!Minutes[rules[i].forDuration]
  BY <1>2 DEF Rules!parseDuration
<1>4. <<l.level, l.logKey>> \in Rules!parseExpr(rules[i].expr).subject
        <=> Rules!InSubject(rules[i].expr, l)
  BY RulesAssumption, SupportedSubject
<1>. QED BY <1>3, <1>4, SeriesHoldTheSelected DEF Rules!Counted

\* The rule form, its requests and the rule list keep this invariant: what a quiet tab
\* lists is the table, and what the table holds the schema has let in.
THEOREM RulesInvariant == Rules!Spec => []RulesInv
<1>1. Rules!Init => RulesInv
  BY RulesInitHolds
<1>2. RulesInv /\ [Rules!Next]_(Rules!vars) => RulesInv'
  BY RulesNextPreserves
<1>. QED BY <1>1, <1>2, PTL DEF Rules!Spec

(***************************************************************************)
(* The channels of the Alerts page.                                        *)
(***************************************************************************)

Channel ==
  [id : Ids \cup {"", "slack-critical", "webhook-critical", "email-mock"},
   severities : SUBSET Registry!Severities]
ChannelCall ==
  [kind : {"create", "test"}, channel : Channel,
   at : {"sent", "audit", "answer", "over"}, awaited : BOOLEAN, ok : BOOLEAN]

RegistryTyped ==
  /\ channelDraft \in Channel /\ channels \in Seq(Channel)
  /\ channelCalls \in Seq(ChannelCall) /\ channelRestarts \in Nat
  /\ channelList = [data |-> channelList.data, fetch |-> channelList.fetch,
                    answer |-> channelList.answer, error |-> channelList.error]
  /\ channelList.data \cup channelList.answer \subseteq Seq(Channel)

\* As long as the process lives, what was listed is registered, and so is what a
\* button under the list has asked to be tested.
RegistryRemembers ==
  /\ \A c \in DOMAIN channelCalls :
       channelCalls[c].at = "audit" => channelCalls[c].kind = "create"
  /\ channelRestarts = 0 =>
       /\ \A shown \in channelList.data \cup channelList.answer :
            \A k \in DOMAIN shown : shown[k].id \in Registry!Registered
       /\ \A c \in DOMAIN channelCalls :
            channelCalls[c].kind = "test" =>
              /\ channelCalls[c].at = "sent" =>
                   channelCalls[c].channel.id \in Registry!Registered
              /\ channelCalls[c].at = "answer" => channelCalls[c].ok

RegistryInv == RegistryTyped /\ RegistryRemembers

LEMMA ChannelCallsShape ==
  ASSUME RegistryTyped
  PROVE  /\ Len(channelCalls) \in Nat /\ DOMAIN channelCalls = 1 .. Len(channelCalls)
         /\ \A c \in DOMAIN channelCalls :
              channelCalls[c] \in ChannelCall /\ channelCalls[c].channel \in Channel
<1>1. /\ Len(channelCalls) \in Nat /\ DOMAIN channelCalls = 1 .. Len(channelCalls)
      /\ \A c \in DOMAIN channelCalls : channelCalls[c] \in ChannelCall
  BY DEF RegistryTyped
<1>. QED BY <1>1 DEF ChannelCall

LEMMA DefaultChannels == Registry!DEFAULT_CHANNELS \in Seq(Channel)
<1>. DEFINE a == [id |-> "slack-critical", severities |-> Registry!Severities]
            b == [id |-> "webhook-critical", severities |-> {"critical"}]
            e == [id |-> "email-mock", severities |-> {"critical"}]
<1>1. a \in Channel /\ b \in Channel /\ e \in Channel
  BY DEF Channel, Registry!Severities
<1>2. Registry!DEFAULT_CHANNELS = <<a, b, e>>
  BY DEF Registry!DEFAULT_CHANNELS
<1>. HIDE DEF a, b, e
<1>. QED BY <1>1, <1>2

\* The form.
LEMMA RegistryFormPreserves ==
  ASSUME RegistryInv,
         Registry!Type \/ \E s \in Registry!Severities : Registry!toggleSeverity(s)
  PROVE  RegistryInv'
<1>1. UNCHANGED <<channelCalls, channelList, channels, channelRestarts>>
  BY DEF Registry!Type, Registry!toggleSeverity
<1>2. channelDraft' \in Channel
  <2>1. channelDraft \in Channel
    BY DEF RegistryInv, RegistryTyped
  <2>2. CASE Registry!Type
    BY <2>1, <2>2 DEF Registry!Type, Channel
  <2>3. ASSUME NEW s \in Registry!Severities, Registry!toggleSeverity(s) PROVE channelDraft' \in Channel
    BY <2>1, <2>3 DEF Registry!toggleSeverity, Channel
  <2>. QED BY <2>2, <2>3
<1>. QED BY <1>1, <1>2 DEF RegistryInv, RegistryTyped, RegistryRemembers, Registry!Registered

\* A click that sends a request: a channel that is tested is one that was listed.
LEMMA RegistrySendPreserves ==
  ASSUME RegistryInv,
         Registry!onSubmit \/ \E shown \in channelList.data :
                                \E k \in DOMAIN shown : Registry!sendTest(shown[k])
  PROVE  RegistryInv'
<1>1. PICK kind \in {"create", "test"}, ch \in Channel :
        /\ Registry!Send(kind, ch)
        /\ kind = "test" => \E shown \in channelList.data : \E k \in DOMAIN shown : shown[k] = ch
        /\ UNCHANGED <<channelDraft, channelList, channels, channelRestarts>>
  <2>1. CASE Registry!onSubmit
    BY <2>1 DEF Registry!onSubmit, RegistryInv, RegistryTyped
  <2>2. ASSUME NEW shown \in channelList.data, NEW k \in DOMAIN shown, Registry!sendTest(shown[k])
        PROVE  /\ shown[k] \in Channel
               /\ Registry!Send("test", shown[k])
               /\ UNCHANGED <<channelDraft, channelList, channels, channelRestarts>>
    BY <2>2 DEF Registry!sendTest, RegistryInv, RegistryTyped
  <2>. QED BY <2>1, <2>2
<1>. DEFINE n == Len(channelCalls)
            new == [kind |-> kind, channel |-> ch, at |-> "sent", awaited |-> TRUE, ok |-> FALSE]
<1>2. channelCalls' = Append(channelCalls, new)
  BY <1>1 DEF Registry!Send
<1>3. new \in ChannelCall /\ new.kind = kind /\ new.channel = ch /\ new.at = "sent"
  BY DEF ChannelCall
<1>. HIDE DEF new
<1>4. /\ n \in Nat /\ DOMAIN channelCalls = 1 .. n
      /\ channelCalls' \in Seq(ChannelCall) /\ DOMAIN channelCalls' = 1 .. n + 1
      /\ \A c \in 1 .. n : channelCalls'[c] = channelCalls[c]
      /\ channelCalls'[n + 1] = new
  BY <1>2, <1>3 DEF RegistryInv, RegistryTyped
<1>5. Registry!Registered' = Registry!Registered
  BY <1>1 DEF Registry!Registered
<1>6. RegistryTyped'
  BY <1>1, <1>4 DEF RegistryInv, RegistryTyped
<1>7. kind = "test" /\ channelRestarts = 0 => ch.id \in Registry!Registered
  BY <1>1 DEF RegistryInv, RegistryRemembers
<1>8. RegistryRemembers'
  BY <1>1, <1>3, <1>4, <1>5, <1>7 DEF RegistryInv, RegistryRemembers
<1>. QED BY <1>6, <1>8 DEF RegistryInv

\* One request gets to another stage, or is not awaited any more.
LEMMA ChannelCallChanges ==
  ASSUME RegistryTyped, NEW c \in DOMAIN channelCalls, NEW new \in ChannelCall,
         channelCalls' = [channelCalls EXCEPT ![c] = new]
  PROVE  /\ channelCalls' \in Seq(ChannelCall) /\ DOMAIN channelCalls' = DOMAIN channelCalls
         /\ \A d \in DOMAIN channelCalls : d # c => channelCalls'[d] = channelCalls[d]
         /\ channelCalls'[c] = new
BY DEF RegistryTyped

LEMMA RegistryServerPreserves ==
  ASSUME RegistryInv, NEW c \in DOMAIN channelCalls,
         Registry!addChannel(c) \/ Registry!record(c) \/ Registry!testFire(c)
  PROVE  RegistryInv'
<1>. DEFINE old == channelCalls[c]
            known == old.channel.id \in Registry!Registered
<1>1. old \in ChannelCall /\ old.channel \in Channel
  BY ChannelCallsShape DEF RegistryInv
<1>2. PICK new \in ChannelCall :
        /\ channelCalls' = [channelCalls EXCEPT ![c] = new]
        /\ new.kind = old.kind /\ new.channel = old.channel /\ new.at # "sent"
        /\ new.at = "audit" => old.kind = "create"
        /\ new.at = "answer" /\ old.kind = "test" => old.at = "sent" /\ new.ok = known
  <2>1. CASE Registry!addChannel(c)
    <3>. DEFINE new == [old EXCEPT !.at = "audit"]
    <3>1. /\ new \in ChannelCall /\ new.kind = old.kind /\ new.channel = old.channel /\ new.at = "audit"
      BY <1>1 DEF ChannelCall
    <3>2. channelCalls' = [channelCalls EXCEPT ![c] = new] /\ old.kind = "create"
      BY <2>1 DEF Registry!addChannel
    <3>. HIDE DEF new
    <3>. QED BY <3>1, <3>2
  <2>2. CASE Registry!record(c)
    <3>. DEFINE new == [[old EXCEPT !.at = "answer"] EXCEPT !.ok = TRUE]
    <3>1. /\ new \in ChannelCall /\ new.kind = old.kind /\ new.channel = old.channel /\ new.at = "answer"
      BY <1>1 DEF ChannelCall
    <3>2. old.at = "audit" /\ channelCalls' = [channelCalls EXCEPT ![c].at = "answer", ![c].ok = TRUE]
      BY <2>2 DEF Registry!record
    <3>3. channelCalls' = [channelCalls EXCEPT ![c] = new]
      BY <3>2
    <3>4. old.kind = "create"
      BY <3>2 DEF RegistryInv, RegistryRemembers
    <3>. HIDE DEF new
    <3>. QED BY <3>1, <3>3, <3>4
  <2>3. CASE Registry!testFire(c)
    <3>. DEFINE new == [[old EXCEPT !.at = "answer"] EXCEPT !.ok = known]
    <3>1. /\ new \in ChannelCall /\ new.kind = old.kind /\ new.channel = old.channel
          /\ new.at = "answer" /\ new.ok = known
      <4>1. known \in BOOLEAN
        OBVIOUS
      <4>. HIDE DEF known
      <4>. QED BY <1>1, <4>1 DEF ChannelCall
    <3>2. /\ old.kind = "test" /\ old.at = "sent"
          /\ channelCalls' = [channelCalls EXCEPT ![c].at = "answer", ![c].ok = known]
      BY <2>3 DEF Registry!testFire
    <3>3. channelCalls' = [channelCalls EXCEPT ![c] = new]
      <4>. HIDE DEF known
      <4>. QED BY <3>2
    <3>. HIDE DEF new, known
    <3>. QED BY <3>1, <3>2, <3>3
  <2>. QED BY <2>1, <2>2, <2>3
<1>. HIDE DEF old, known
<1>3. /\ channelCalls' \in Seq(ChannelCall) /\ DOMAIN channelCalls' = DOMAIN channelCalls
      /\ \A d \in DOMAIN channelCalls : d # c => channelCalls'[d] = channelCalls[d]
      /\ channelCalls'[c] = new
  BY <1>2, ChannelCallChanges DEF RegistryInv
<1>4. /\ channels' \in Seq(Channel) /\ Registry!Registered \subseteq Registry!Registered'
      /\ UNCHANGED <<channelDraft, channelList, channelRestarts>>
  <2>1. CASE Registry!addChannel(c)
    <3>1. /\ channels \in Seq(Channel) /\ channels' = Append(channels, channelCalls[c].channel)
          /\ UNCHANGED <<channelDraft, channelList, channelRestarts>>
      BY <2>1 DEF Registry!addChannel, RegistryInv, RegistryTyped
    <3>2. /\ channels' \in Seq(Channel)
          /\ \A k \in DOMAIN channels : k \in DOMAIN channels' /\ channels'[k] = channels[k]
      BY <1>1, <3>1 DEF old
    <3>. QED BY <3>1, <3>2 DEF Registry!Registered
  <2>2. CASE Registry!record(c) \/ Registry!testFire(c)
    BY <2>2 DEF Registry!record, Registry!testFire, RegistryInv, RegistryTyped, Registry!Registered
  <2>. QED BY <2>1, <2>2
<1>5. RegistryTyped'
  BY <1>3, <1>4 DEF RegistryInv, RegistryTyped
<1>6. channelRestarts = 0 /\ new.kind = "test" /\ new.at = "answer" => new.ok
  BY <1>2 DEF RegistryInv, RegistryRemembers, old, known
<1>7. RegistryRemembers'
  BY <1>2, <1>3, <1>4, <1>6 DEF RegistryInv, RegistryRemembers
<1>. QED BY <1>5, <1>7 DEF RegistryInv

LEMMA RestartPreserves == ASSUME RegistryInv, Registry!Restart PROVE RegistryInv'
<1>1. /\ channelRestarts' = channelRestarts + 1 /\ channelDraft' = channelDraft
      /\ channels' = Registry!DEFAULT_CHANNELS
      /\ channelCalls' = [c \in DOMAIN channelCalls |-> [channelCalls[c] EXCEPT !.at = "over"]]
      /\ channelList' = IF channelList.fetch = "sent"
                        THEN [channelList EXCEPT !.fetch = "idle", !.answer = {}, !.error = TRUE]
                        ELSE channelList
  BY DEF Registry!Restart, Registry!Cache!Fail, Registry!Cache!NoData
<1>2. /\ \A c \in DOMAIN channelCalls :
           /\ [channelCalls[c] EXCEPT !.at = "over"] \in ChannelCall
           /\ [channelCalls[c] EXCEPT !.at = "over"].at = "over"
      /\ Len(channelCalls) \in Nat /\ DOMAIN channelCalls = 1 .. Len(channelCalls)
  BY ChannelCallsShape DEF RegistryInv, ChannelCall
<1>3. /\ channelCalls' \in Seq(ChannelCall)
      /\ \A c \in DOMAIN channelCalls' : channelCalls'[c].at = "over"
  <2>1. channelCalls' \in [1 .. Len(channelCalls) -> ChannelCall]
    BY <1>1, <1>2
  <2>. QED BY <1>1, <1>2, <2>1, FunctionIsSequence
<1>4. channelRestarts' \in Nat /\ channelRestarts' # 0
  BY <1>1 DEF RegistryInv, RegistryTyped
<1>5. RegistryTyped'
  BY <1>1, <1>3, <1>4, DefaultChannels DEF RegistryInv, RegistryTyped
<1>. QED BY <1>3, <1>4, <1>5 DEF RegistryInv, RegistryRemembers

LEMMA RegistryAnswerPreserves ==
  ASSUME RegistryInv, NEW c \in DOMAIN channelCalls,
         Registry!onSuccess(c) \/ Registry!onError(c)
  PROVE  RegistryInv'
<1>1. /\ channelCalls' = [channelCalls EXCEPT ![c] = [channelCalls[c] EXCEPT !.awaited = FALSE]]
      /\ UNCHANGED <<channels, channelRestarts>>
  BY DEF Registry!onSuccess, Registry!onError, Registry!Done
<1>2. /\ channelDraft' \in {channelDraft, Registry!EMPTY_DRAFT}
      /\ channelList' \in {channelList, [channelList EXCEPT !.fetch = "sent", !.answer = {}]}
  BY DEF Registry!onSuccess, Registry!onError, Registry!Cache!Invalidate, Registry!Cache!NoData
<1>. DEFINE new == [channelCalls[c] EXCEPT !.awaited = FALSE]
<1>3. /\ new \in ChannelCall /\ new.kind = channelCalls[c].kind /\ new.at = channelCalls[c].at
      /\ new.ok = channelCalls[c].ok /\ new.channel = channelCalls[c].channel
  BY ChannelCallsShape DEF RegistryInv, ChannelCall
<1>. HIDE DEF new
<1>4. /\ channelCalls' \in Seq(ChannelCall) /\ DOMAIN channelCalls' = DOMAIN channelCalls
      /\ \A d \in DOMAIN channelCalls : d # c => channelCalls'[d] = channelCalls[d]
      /\ channelCalls'[c] = new
  BY <1>1, <1>3, ChannelCallChanges DEF RegistryInv, new
<1>5. Registry!EMPTY_DRAFT \in Channel
  BY DEF Registry!EMPTY_DRAFT, Registry!Blank, Channel
<1>6. channelList' = [data |-> channelList'.data, fetch |-> channelList'.fetch,
                      answer |-> channelList'.answer, error |-> channelList'.error]
      /\ channelList'.data = channelList.data /\ channelList'.answer \subseteq channelList.answer
  BY <1>2 DEF RegistryInv, RegistryTyped
<1>7. RegistryTyped'
  BY <1>1, <1>2, <1>4, <1>5, <1>6 DEF RegistryInv, RegistryTyped
<1>8. RegistryRemembers'
  BY <1>1, <1>3, <1>4, <1>6 DEF RegistryInv, RegistryRemembers, Registry!Registered
<1>. QED BY <1>7, <1>8 DEF RegistryInv

LEMMA RegistryFetchPreserves ==
  ASSUME RegistryInv, \/ Registry!listChannels \/ Registry!listArrives
                      \/ UNCHANGED Registry!vars
  PROVE  RegistryInv'
<1>1. UNCHANGED <<channelDraft, channelCalls, channels, channelRestarts>>
  BY DEF Registry!listChannels, Registry!listArrives, Registry!vars
<1>2. /\ channelList' = [data |-> channelList'.data, fetch |-> channelList'.fetch,
                         answer |-> channelList'.answer, error |-> channelList'.error]
      /\ channelList'.data \cup channelList'.answer
           \subseteq channelList.data \cup channelList.answer \cup {channels}
  <2>1. channelList = [data |-> channelList.data, fetch |-> channelList.fetch,
                       answer |-> channelList.answer, error |-> channelList.error]
    BY DEF RegistryInv, RegistryTyped
  <2>2. CASE Registry!listChannels
    BY <2>1, <2>2 DEF Registry!listChannels, Registry!Cache!Answer
  <2>3. CASE Registry!listArrives
    BY <2>1, <2>3 DEF Registry!listArrives, Registry!Cache!Deliver, Registry!Cache!NoData
  <2>4. CASE UNCHANGED Registry!vars
    BY <2>1, <2>4 DEF Registry!vars
  <2>. QED BY <2>2, <2>3, <2>4
<1>3. RegistryTyped'
  BY <1>1, <1>2 DEF RegistryInv, RegistryTyped
<1>4. \A k \in DOMAIN channels : channels[k].id \in Registry!Registered
  BY DEF Registry!Registered
<1>5. Registry!Registered' = Registry!Registered
  BY <1>1 DEF Registry!Registered
<1>6. RegistryRemembers'
  BY <1>1, <1>2, <1>4, <1>5 DEF RegistryInv, RegistryRemembers
<1>. QED BY <1>3, <1>6 DEF RegistryInv

LEMMA RegistryInitHolds == ASSUME Registry!Init PROVE RegistryInv
<1>1. /\ channelDraft = Registry!EMPTY_DRAFT /\ channelCalls = <<>> /\ channelRestarts = 0
      /\ channels = Registry!DEFAULT_CHANNELS
      /\ \/ channelList = [data |-> {}, fetch |-> "sent", answer |-> {}, error |-> FALSE]
         \/ channelList = [[data |-> {}, fetch |-> "sent", answer |-> {}, error |-> FALSE]
                             EXCEPT !.fetch = "idle"]
  BY DEF Registry!Init, Registry!Cache!FirstLoad, Registry!Cache!NoData
<1>2. channelDraft \in Channel
  BY <1>1 DEF Registry!EMPTY_DRAFT, Registry!Blank, Channel
<1>3. channelList = [data |-> {}, fetch |-> channelList.fetch, answer |-> {}, error |-> FALSE]
  BY <1>1
<1>4. channelCalls \in Seq(ChannelCall) /\ DOMAIN channelCalls = {}
  BY <1>1
<1>5. RegistryTyped
  BY <1>1, <1>2, <1>3, <1>4, DefaultChannels DEF RegistryTyped
<1>6. RegistryRemembers
  BY <1>3, <1>4 DEF RegistryRemembers
<1>. QED BY <1>5, <1>6 DEF RegistryInv

LEMMA RegistryNextPreserves == ASSUME RegistryInv, [Registry!Next]_(Registry!vars) PROVE RegistryInv'
BY RegistryFormPreserves, RegistrySendPreserves, RegistryServerPreserves, RestartPreserves,
   RegistryAnswerPreserves, RegistryFetchPreserves DEF Registry!Next

LEMMA RegistryInvImplies == RegistryInv => Registry!TestFailsOnlyAfterRestart
<1>. SUFFICES ASSUME RegistryInv, NEW c \in DOMAIN channelCalls, channelCalls[c].kind = "test",
                     channelCalls[c].at = "answer", ~channelCalls[c].ok
              PROVE  channelRestarts > 0
  BY DEF Registry!TestFailsOnlyAfterRestart
<1>1. channelRestarts # 0
  BY DEF RegistryInv, RegistryRemembers
<1>2. channelRestarts \in Nat
  BY DEF RegistryInv, RegistryTyped
<1>. QED BY <1>1, <1>2

\* The channel registry and its form keep this invariant, through any number of
\* requests of both administrators and any number of restarts.
THEOREM RegistryInvariant == Registry!Spec => []RegistryInv
<1>1. Registry!Init => RegistryInv
  BY RegistryInitHolds
<1>2. RegistryInv /\ [Registry!Next]_(Registry!vars) => RegistryInv'
  BY RegistryNextPreserves
<1>. QED BY <1>1, <1>2, PTL DEF Registry!Spec

(***************************************************************************)
(* The incident list of the Alerts page.                                   *)
(***************************************************************************)

\* An incident whose transition was applied and is not yet known to the tab.
AppliedUnseen(i) ==
  \E c \in DOMAIN incidentCalls :
    incidentCalls[c].id = i /\ incidentCalls[c].awaited /\ incidentCalls[c].at = "answer"

\* A list that differs from the table in such incidents alone.
FreshIncidents(v) ==
  /\ DOMAIN v = DOMAIN Respond!Listed
  /\ \A i \in DOMAIN v : ~AppliedUnseen(i) => v[i] = Respond!Listed[i]

RespondCall ==
  [id : Incidents, action : {"acknowledge", "snooze", "resolve"},
   at : {"sent", "answer"}, awaited : BOOLEAN, quiet : BOOLEAN]
RespondTyped ==
  /\ incidentStatus \in [Incidents -> {"none", "triggered", "acknowledged", "snoozed", "resolved"}]
  /\ incidentList = [data |-> incidentList.data, fetch |-> incidentList.fetch,
                     answer |-> incidentList.answer, error |-> incidentList.error]
  /\ incidentList.fetch \in {"idle", "sent", "answered"}
  /\ incidentCalls \in Seq(RespondCall)

\* A row was in the table when it was read, and rows are never deleted.
RespondRows ==
  /\ \A v \in incidentList.data \cup incidentList.answer :
       DOMAIN v \subseteq DOMAIN Respond!Listed
  /\ \A c \in DOMAIN incidentCalls : incidentStatus[incidentCalls[c].id] # "none"

\* The first click comes after the first list, and so does a second.
RespondLoaded ==
  /\ incidentCalls # <<>> => incidentList.data # {}
  /\ incidentList.fetch = "answered" => incidentList.answer # {}

\* What is shown, and the answer that is on its way, are fresh unless something
\* else has changed since.
RespondFresh ==
  ~incidentChanged =>
    /\ incidentList.fetch = "answered" => \A v \in incidentList.answer : FreshIncidents(v)
    /\ incidentList.fetch = "idle" /\ ~incidentList.error =>
         \A v \in incidentList.data : FreshIncidents(v)

\* A quiet click is still legal.
RespondLegal ==
  \A c \in DOMAIN incidentCalls :
    incidentCalls[c].quiet /\ incidentCalls[c].at = "sent" =>
      incidentCalls[c].action \in Respond!Offered(incidentStatus[incidentCalls[c].id])

RespondInv == RespondTyped /\ RespondRows /\ RespondLoaded /\ RespondFresh /\ RespondLegal

LEMMA RespondShape ==
  ASSUME RespondTyped
  PROVE  /\ Len(incidentCalls) \in Nat /\ DOMAIN incidentCalls = 1 .. Len(incidentCalls)
         /\ \A c \in DOMAIN incidentCalls :
              /\ incidentCalls[c] \in RespondCall /\ incidentCalls[c].id \in Incidents
              /\ incidentCalls[c].action \in {"acknowledge", "snooze", "resolve"}
<1>1. /\ Len(incidentCalls) \in Nat /\ DOMAIN incidentCalls = 1 .. Len(incidentCalls)
      /\ \A c \in DOMAIN incidentCalls : incidentCalls[c] \in RespondCall
  BY DEF RespondTyped
<1>. QED BY <1>1 DEF RespondCall

\* The list of an administrator has the status of every incident in the table.
LEMMA ListedIsTheTable ==
  /\ \A i : i \in DOMAIN Respond!Listed <=>
              i \in Incidents /\ incidentRole = "admin" /\ incidentStatus[i] # "none"
  /\ \A i \in DOMAIN Respond!Listed : Respond!Listed[i] = incidentStatus[i]
BY DEF Respond!Listed

LEMMA MutatePreserves ==
  ASSUME RespondInv, NEW i \in Respond!Rows, NEW action \in DOMAIN Respond!Becomes,
         Respond!mutate(i, action)
  PROVE  RespondInv'
<1>. DEFINE n == Len(incidentCalls)
            new == [id |-> i, action |-> action, at |-> "sent", awaited |-> TRUE,
                    quiet |-> Respond!Cache!Settled(incidentList) /\ ~incidentChanged
                                /\ ~Respond!Awaited(i)]
            old == [c \in DOMAIN incidentCalls |->
                      [incidentCalls[c] EXCEPT !.quiet =
                         @ /\ ~(incidentCalls[c].id = i /\ Respond!Unapplied(c))]]
<1>1. /\ incidentCalls' = Append(old, new)
      /\ \E shown \in incidentList.data : action \in Respond!Offered(shown[i])
      /\ UNCHANGED <<incidentRole, incidentStatus, incidentList, incidentChanged,
                     incidentChanges>>
  BY Zenon DEF Respond!mutate
<1>2. i \in DOMAIN Respond!Listed /\ i \in Incidents /\ incidentStatus[i] # "none"
      /\ incidentList.data # {} /\ ~incidentList.error
  BY ListedIsTheTable DEF Respond!Rows, RespondInv, RespondRows
<1>3. /\ n \in Nat /\ DOMAIN incidentCalls = 1 .. n
      /\ \A c \in 1 .. n : incidentCalls[c] \in RespondCall
  BY DEF RespondInv, RespondTyped
<1>4. \A c \in 1 .. n :
        /\ old[c] \in RespondCall
        /\ old[c].id = incidentCalls[c].id /\ old[c].at = incidentCalls[c].at
        /\ old[c].awaited = incidentCalls[c].awaited
        /\ old[c].action = incidentCalls[c].action
        /\ old[c].quiet => incidentCalls[c].quiet
  BY <1>3 DEF RespondCall
<1>5. new \in RespondCall
  BY <1>2 DEF RespondCall, Respond!Becomes
<1>6. old \in Seq(RespondCall)
      /\ Len(old) = n
  <2>1. old \in [1 .. n -> RespondCall]
    BY <1>3, <1>4
  <2>. HIDE DEF old, n
  <2>. QED BY <1>3, <2>1, FunctionIsSequence
<1>. HIDE DEF old, new
<1>7. /\ incidentCalls' \in Seq(RespondCall)
      /\ DOMAIN incidentCalls' = 1 .. n + 1
      /\ \A c \in 1 .. n : incidentCalls'[c] = old[c]
      /\ incidentCalls'[n + 1] = new
  BY <1>1, <1>3, <1>5, <1>6
<1>8. RespondTyped'
  BY <1>1, <1>7 DEF RespondInv, RespondTyped
<1>9. RespondRows' /\ RespondLoaded'
  <2>1. Respond!Listed' = Respond!Listed
    BY <1>1 DEF Respond!Listed
  <2>2. new.id = i
    BY DEF new
  <2>. QED BY <1>1, <1>2, <1>3, <1>4, <1>7, <2>1, <2>2 DEF RespondInv, RespondRows, RespondLoaded
<1>10. RespondFresh'
  <2>1. \A j : AppliedUnseen(j)' <=> AppliedUnseen(j)
    <3>1. new.at = "sent"
      BY DEF new
    <3>. QED BY <1>3, <1>4, <1>7, <3>1 DEF AppliedUnseen
  <2>2. Respond!Listed' = Respond!Listed
    BY <1>1 DEF Respond!Listed
  <2>. QED BY <1>1, <2>1, <2>2 DEF RespondInv, RespondFresh, FreshIncidents
<1>11. RespondLegal'
  <2>1. new.quiet => action \in Respond!Offered(incidentStatus[i])
    <3>. SUFFICES ASSUME new.quiet PROVE action \in Respond!Offered(incidentStatus[i])
      OBVIOUS
    <3>1. incidentList.fetch = "idle" /\ ~incidentChanged /\ ~Respond!Awaited(i)
      BY DEF new, Respond!Cache!Settled
    <3>2. ~AppliedUnseen(i)
      BY <3>1 DEF AppliedUnseen, Respond!Awaited
    <3>3. \A v \in incidentList.data : v[i] = incidentStatus[i]
      BY <1>2, <3>1, <3>2, ListedIsTheTable DEF RespondInv, RespondFresh, FreshIncidents
    <3>. QED BY <1>1, <3>3
  <2>2. new.id = i /\ new.action = action
    BY DEF new
  <2>. QED BY <1>1, <1>3, <1>4, <1>7, <2>1, <2>2 DEF RespondInv, RespondLegal
<1>. QED BY <1>8, <1>9, <1>10, <1>11 DEF RespondInv

\* The steps of the list's own fetch.
LEMMA IncidentFetchPreserves ==
  ASSUME RespondInv, \/ Respond!refetchInterval \/ Respond!listIncidents
                     \/ Respond!listArrives \/ Respond!listFails
                     \/ UNCHANGED Respond!vars
  PROVE  RespondInv'
<1>1. UNCHANGED <<incidentRole, incidentStatus, incidentCalls, incidentChanges>>
  BY DEF Respond!refetchInterval, Respond!listIncidents, Respond!listArrives,
         Respond!listFails, Respond!vars
<1>2. /\ Respond!Listed' = Respond!Listed
      /\ \A v : FreshIncidents(v)' <=> FreshIncidents(v)
  BY <1>1 DEF Respond!Listed, FreshIncidents, AppliedUnseen
<1>3. /\ FreshIncidents(Respond!Listed)
      /\ incidentList = [data |-> incidentList.data, fetch |-> incidentList.fetch,
                         answer |-> incidentList.answer, error |-> incidentList.error]
  BY DEF FreshIncidents, RespondInv, RespondTyped
<1>4. CASE Respond!refetchInterval
  <2>1. incidentList' = [incidentList EXCEPT !.fetch = "sent"] /\ incidentChanged' = incidentChanged
    BY <1>4 DEF Respond!refetchInterval
  <2>. QED BY <1>1, <1>2, <1>3, <2>1 DEF RespondInv, RespondTyped, RespondRows, RespondLoaded,
                                      RespondFresh, RespondLegal
<1>5. CASE Respond!listIncidents
  <2>1. incidentList' = [incidentList EXCEPT !.fetch = "answered", !.answer = {Respond!Listed}]
        /\ incidentChanged' = FALSE
    BY <1>5 DEF Respond!listIncidents, Respond!Cache!Answer
  <2>. QED BY <1>1, <1>2, <1>3, <2>1 DEF RespondInv, RespondTyped, RespondRows, RespondLoaded,
                                      RespondFresh, RespondLegal
<1>6. CASE Respond!listArrives
  <2>1. /\ incidentList.fetch = "answered" /\ incidentChanged' = incidentChanged
        /\ incidentList' = [data |-> incidentList.answer, fetch |-> "idle", answer |-> {},
                            error |-> FALSE]
    BY <1>6 DEF Respond!listArrives, Respond!Cache!Deliver, Respond!Cache!NoData
  <2>. QED BY <1>1, <1>2, <1>3, <2>1 DEF RespondInv, RespondTyped, RespondRows, RespondLoaded,
                                      RespondFresh, RespondLegal
<1>7. CASE Respond!listFails
  <2>1. /\ incidentChanged' = incidentChanged
        /\ incidentList' = [incidentList EXCEPT !.fetch = "idle", !.answer = {}, !.error = TRUE]
    BY <1>7 DEF Respond!listFails, Respond!Cache!Fail, Respond!Cache!NoData
  <2>. QED BY <1>1, <1>2, <1>3, <2>1 DEF RespondInv, RespondTyped, RespondRows, RespondLoaded,
                                      RespondFresh, RespondLegal
<1>8. CASE UNCHANGED Respond!vars
  <2>1. UNCHANGED <<incidentList, incidentChanged>>
    BY <1>8 DEF Respond!vars
  <2>. QED BY <1>1, <1>2, <2>1 DEF RespondInv, RespondTyped, RespondRows, RespondLoaded,
                                      RespondFresh, RespondLegal
<1>. QED BY <1>4, <1>5, <1>6, <1>7, <1>8

\* The end of a request, however it ends.
LEMMA IncidentAnswerPreserves ==
  ASSUME RespondInv, NEW c \in DOMAIN incidentCalls, Respond!onSuccess(c) \/ Respond!onError(c)
  PROVE  RespondInv'
<1>1. /\ incidentCalls' = [incidentCalls EXCEPT ![c].awaited = FALSE]
      /\ UNCHANGED <<incidentRole, incidentStatus, incidentChanges>>
  BY DEF Respond!onSuccess, Respond!onError, Respond!Done
<1>2. /\ DOMAIN incidentCalls' = DOMAIN incidentCalls
      /\ incidentCalls' \in Seq(RespondCall)
      /\ \A d \in DOMAIN incidentCalls :
           /\ incidentCalls'[d].id = incidentCalls[d].id
           /\ incidentCalls'[d].at = incidentCalls[d].at
           /\ incidentCalls'[d].action = incidentCalls[d].action
           /\ incidentCalls'[d].quiet = incidentCalls[d].quiet
           /\ d # c => incidentCalls'[d].awaited = incidentCalls[d].awaited
  <2>1. /\ DOMAIN incidentCalls' = DOMAIN incidentCalls
        /\ \A d \in DOMAIN incidentCalls : d # c => incidentCalls'[d] = incidentCalls[d]
        /\ incidentCalls'[c] = [incidentCalls[c] EXCEPT !.awaited = FALSE]
    BY <1>1 DEF RespondInv, RespondTyped
  <2>2. \A d \in DOMAIN incidentCalls : incidentCalls[d] \in RespondCall
    BY RespondShape DEF RespondInv
  <2>3. \A d \in DOMAIN incidentCalls :
           /\ incidentCalls'[d] \in RespondCall
           /\ incidentCalls'[d].id = incidentCalls[d].id
           /\ incidentCalls'[d].at = incidentCalls[d].at
           /\ incidentCalls'[d].action = incidentCalls[d].action
           /\ incidentCalls'[d].quiet = incidentCalls[d].quiet
           /\ d # c => incidentCalls'[d].awaited = incidentCalls[d].awaited
    <3>1. [incidentCalls[c] EXCEPT !.awaited = FALSE] \in RespondCall
      BY <2>2 DEF RespondCall
    <3>2. /\ incidentCalls'[c].id = incidentCalls[c].id
          /\ incidentCalls'[c].at = incidentCalls[c].at
          /\ incidentCalls'[c].action = incidentCalls[c].action
          /\ incidentCalls'[c].quiet = incidentCalls[c].quiet
      BY <2>1, <2>2 DEF RespondCall
    <3>. QED BY <2>1, <2>2, <3>1, <3>2
  <2>4. incidentCalls' \in [1 .. Len(incidentCalls) -> RespondCall]
    BY <1>1, <2>1, <2>3, RespondShape DEF RespondInv
  <2>5. incidentCalls' \in Seq(RespondCall)
    BY <2>4, RespondShape, FunctionIsSequence DEF RespondInv
  <2>. QED BY <2>1, <2>3, <2>5
<1>3. Respond!Listed' = Respond!Listed
  BY <1>1 DEF Respond!Listed
<1>4. RespondLegal'
  BY <1>1, <1>2 DEF RespondInv, RespondLegal
<1>5. CASE Respond!onSuccess(c)
  <2>1. /\ incidentList' = [incidentList EXCEPT !.fetch = "sent", !.answer = {}]
        /\ incidentChanged' = incidentChanged
    <3>1. incidentList.data # {}
      BY DEF RespondInv, RespondTyped, RespondLoaded
    <3>. QED BY <1>5, <3>1 DEF Respond!onSuccess, Respond!Cache!Invalidate, Respond!Cache!NoData
  <2>2. RespondTyped' /\ RespondRows' /\ RespondFresh'
    BY <1>1, <1>2, <1>3, <2>1 DEF RespondInv, RespondTyped, RespondRows, RespondFresh
  <2>3. RespondLoaded'
    BY <2>1 DEF RespondInv, RespondLoaded
  <2>. QED BY <1>4, <2>2, <2>3 DEF RespondInv
<1>6. CASE Respond!onError(c)
  <2>1. /\ incidentList' = incidentList
        /\ incidentChanged' = (incidentChanged \/ ~(incidentCalls[c].at = "sent"))
    BY <1>6 DEF Respond!onError, Respond!Unapplied
  <2>2. ASSUME ~incidentChanged' PROVE \A i : AppliedUnseen(i)' <=> AppliedUnseen(i)
    <3>1. incidentCalls[c].at = "sent" /\ ~incidentChanged
      BY <2>1, <2>2
    <3>. QED BY <1>2, <3>1 DEF AppliedUnseen
  <2>3. RespondFresh'
    BY <1>3, <2>1, <2>2 DEF RespondInv, RespondFresh, FreshIncidents
  <2>. QED BY <1>1, <1>2, <1>3, <1>4, <2>1, <2>3 DEF RespondInv, RespondTyped, RespondRows, RespondLoaded
<1>. QED BY <1>5, <1>6

\* What Disturbed() leaves of the requests of the tab.
LEMMA DisturbedCalls ==
  ASSUME RespondInv, NEW i, NEW but
  PROVE  LET d == Respond!Disturbed(i, but)
         IN  /\ d \in Seq(RespondCall)
             /\ DOMAIN d = DOMAIN incidentCalls
             /\ \A c \in DOMAIN incidentCalls :
                  /\ d[c].id = incidentCalls[c].id /\ d[c].at = incidentCalls[c].at
                  /\ d[c].action = incidentCalls[c].action
                  /\ d[c].awaited = incidentCalls[c].awaited
                  /\ d[c].quiet => incidentCalls[c].quiet
                  /\ d[c].quiet /\ c # but /\ d[c].id = i => d[c].at # "sent"
<1>. DEFINE d == Respond!Disturbed(i, but)
<1>1. /\ DOMAIN incidentCalls = 1 .. Len(incidentCalls) /\ Len(incidentCalls) \in Nat
      /\ \A c \in DOMAIN incidentCalls : incidentCalls[c] \in RespondCall
  BY DEF RespondInv, RespondTyped
<1>2. d = [c \in DOMAIN incidentCalls |->
             [incidentCalls[c] EXCEPT !.quiet =
                @ /\ ~(c # but /\ incidentCalls[c].id = i /\ incidentCalls[c].at = "sent")]]
  BY Zenon DEF Respond!Disturbed, Respond!Unapplied
<1>. HIDE DEF d
<1>3. ASSUME NEW c \in DOMAIN incidentCalls
      PROVE  /\ d[c] \in RespondCall
             /\ d[c].id = incidentCalls[c].id /\ d[c].at = incidentCalls[c].at
             /\ d[c].action = incidentCalls[c].action
             /\ d[c].awaited = incidentCalls[c].awaited
             /\ d[c].quiet => incidentCalls[c].quiet
             /\ d[c].quiet /\ c # but /\ d[c].id = i => d[c].at # "sent"
  BY <1>1, <1>2, <1>3 DEF RespondCall
<1>4. d \in Seq(RespondCall) /\ DOMAIN d = DOMAIN incidentCalls
  <2>1. d \in [1 .. Len(incidentCalls) -> RespondCall]
    BY <1>1, <1>2, <1>3
  <2>. QED BY <1>1, <2>1, FunctionIsSequence
<1>. QED BY <1>3, <1>4 DEF d

LEMMA TransitionPreserves ==
  ASSUME RespondInv, NEW c \in DOMAIN incidentCalls, Respond!transition(c)
  PROVE  RespondInv'
<1>. DEFINE i == incidentCalls[c].id
            d == Respond!Disturbed(i, c)
<1>1. /\ incidentCalls[c].at = "sent"
      /\ incidentStatus' = [incidentStatus EXCEPT ![i] = Respond!Becomes[incidentCalls[c].action]]
      /\ incidentCalls' = [d EXCEPT ![c].at = "answer"]
      /\ incidentChanged' = (incidentChanged \/ ~incidentCalls[c].awaited)
      /\ UNCHANGED <<incidentRole, incidentList, incidentChanges>>
  BY DEF Respond!transition, Respond!Unapplied
<1>2. /\ incidentCalls[c] \in RespondCall
      /\ Respond!Becomes[incidentCalls[c].action] \in {"acknowledged", "snoozed", "resolved"}
  BY RespondShape DEF RespondInv, Respond!Becomes
<1>3. /\ d \in Seq(RespondCall) /\ DOMAIN d = DOMAIN incidentCalls
      /\ \A e \in DOMAIN incidentCalls :
                  /\ d[e].id = incidentCalls[e].id /\ d[e].at = incidentCalls[e].at
                  /\ d[e].action = incidentCalls[e].action
                  /\ d[e].awaited = incidentCalls[e].awaited
                  /\ d[e].quiet => incidentCalls[e].quiet
                  /\ d[e].quiet /\ e # c /\ d[e].id = i => d[e].at # "sent"
  BY DisturbedCalls
<1>. HIDE DEF d
<1>4. /\ incidentCalls' \in Seq(RespondCall) /\ DOMAIN incidentCalls' = DOMAIN incidentCalls
      /\ incidentCalls'[c].at = "answer" /\ incidentCalls'[c].id = i
      /\ incidentCalls'[c].awaited = incidentCalls[c].awaited
      /\ \A e \in DOMAIN incidentCalls : e # c => incidentCalls'[e] = d[e]
  <2>1. /\ DOMAIN incidentCalls' = DOMAIN incidentCalls
        /\ \A e \in DOMAIN incidentCalls : e # c => incidentCalls'[e] = d[e]
        /\ incidentCalls'[c] = [d[c] EXCEPT !.at = "answer"]
    BY <1>1, <1>3
  <2>2. \A e \in DOMAIN incidentCalls : d[e] \in RespondCall
    BY <1>3
  <2>3. [d[c] EXCEPT !.at = "answer"] \in RespondCall
    BY <2>2 DEF RespondCall
  <2>4. /\ incidentCalls'[c].at = "answer" /\ incidentCalls'[c].id = i
        /\ incidentCalls'[c].awaited = incidentCalls[c].awaited
    BY <1>3, <2>1, <2>2 DEF RespondCall
  <2>5. incidentCalls' \in [1 .. Len(incidentCalls) -> RespondCall]
    BY <1>1, <1>3, <2>1, <2>2, <2>3, RespondShape DEF RespondInv
  <2>6. incidentCalls' \in Seq(RespondCall)
    BY <2>5, RespondShape, FunctionIsSequence DEF RespondInv
  <2>. QED BY <2>1, <2>4, <2>6
<1>5. /\ incidentStatus[i] # "none" /\ incidentStatus'[i] # "none"
      /\ \A j \in Incidents : j # i => incidentStatus'[j] = incidentStatus[j]
      /\ incidentStatus' \in [Incidents -> {"none", "triggered", "acknowledged", "snoozed", "resolved"}]
  BY <1>1, <1>2 DEF RespondInv, RespondTyped, RespondRows
<1>6. DOMAIN Respond!Listed' = DOMAIN Respond!Listed
      /\ \A j \in DOMAIN Respond!Listed : j # i => Respond!Listed'[j] = Respond!Listed[j]
  BY <1>1, <1>5 DEF Respond!Listed
<1>7. RespondTyped' /\ RespondRows' /\ RespondLoaded'
  <2>1. \A e \in DOMAIN incidentCalls : incidentCalls'[e].id = incidentCalls[e].id
                                        /\ incidentCalls[e].id \in Incidents
    BY <1>3, <1>4, RespondShape DEF RespondInv
  <2>2. incidentCalls # <<>>
    OBVIOUS
  <2>3. RespondTyped'
    BY <1>1, <1>4, <1>5 DEF RespondInv, RespondTyped
  <2>4. RespondRows'
    <3>1. \A e \in DOMAIN incidentCalls' : incidentStatus'[incidentCalls'[e].id] # "none"
      BY <1>4, <1>5, <2>1 DEF RespondInv, RespondRows
    <3>2. \A v \in incidentList'.data \cup incidentList'.answer :
            DOMAIN v \subseteq DOMAIN Respond!Listed'
      BY <1>1, <1>6 DEF RespondInv, RespondRows
    <3>. QED BY <3>1, <3>2 DEF RespondRows
  <2>5. RespondLoaded'
    BY <1>1, <1>4, <1>6, <2>2 DEF RespondInv, RespondLoaded
  <2>. QED BY <2>3, <2>4, <2>5
<1>8. RespondFresh'
  <2>. SUFFICES ASSUME ~incidentChanged' PROVE RespondFresh'
    BY DEF RespondFresh
  <2>1. ~incidentChanged /\ incidentCalls[c].awaited
    BY <1>1
  <2>2. ASSUME NEW j, j = i PROVE AppliedUnseen(j)'
    BY <1>4, <2>1, <2>2 DEF AppliedUnseen
  <2>3. ASSUME NEW j, j # i PROVE AppliedUnseen(j)' <=> AppliedUnseen(j)
    BY <1>3, <1>4, <2>3 DEF AppliedUnseen
  <2>4. \A v : FreshIncidents(v) => FreshIncidents(v)'
    <3>. SUFFICES ASSUME NEW v, FreshIncidents(v), NEW j \in DOMAIN v, ~AppliedUnseen(j)'
                  PROVE  v[j] = Respond!Listed'[j]
      BY <1>6 DEF FreshIncidents
    <3>1. j # i /\ ~AppliedUnseen(j)
      BY <2>2, <2>3
    <3>. QED BY <1>6, <3>1 DEF FreshIncidents
  <2>. QED BY <1>1, <2>1, <2>4 DEF RespondInv, RespondFresh
<1>9. RespondLegal'
  <2>. SUFFICES ASSUME NEW e \in DOMAIN incidentCalls, e # c,
                       d[e].quiet, d[e].at = "sent"
                PROVE  d[e].action \in Respond!Offered(incidentStatus'[d[e].id])
    BY <1>4 DEF RespondLegal, Respond!Offered, Respond!isOpen
  <2>1. d[e].id # i /\ d[e].id = incidentCalls[e].id /\ incidentCalls[e].id \in Incidents
    BY <1>3, RespondShape DEF RespondInv
  <2>. QED BY <1>3, <1>5, <2>1 DEF RespondInv, RespondLegal
<1>. QED BY <1>7, <1>8, <1>9 DEF RespondInv

LEMMA SomeoneChangesPreserves ==
  ASSUME RespondInv, NEW i \in Incidents, Respond!SomeoneChanges(i)
  PROVE  RespondInv'
<1>. DEFINE d == Respond!Disturbed(i, 0)
<1>1. /\ incidentCalls' = d /\ incidentChanged' = TRUE
      /\ UNCHANGED <<incidentRole, incidentList>>
      /\ \E new \in {"triggered", "acknowledged", "snoozed", "resolved"} :
           incidentStatus' = [incidentStatus EXCEPT ![i] = new]
  <2>1. {Respond!Becomes[action] : action \in Respond!Offered(incidentStatus[i])}
          \subseteq {"acknowledged", "snoozed", "resolved"}
    <3>1. Respond!Offered(incidentStatus[i]) \subseteq {"acknowledge", "snooze", "resolve"}
      BY DEF Respond!Offered, Respond!Becomes
    <3>. QED BY <3>1 DEF Respond!Becomes
  <2>. QED BY <2>1 DEF Respond!SomeoneChanges
<1>2. /\ d \in Seq(RespondCall)
      /\ DOMAIN d = DOMAIN incidentCalls
      /\ \A c \in DOMAIN incidentCalls :
                  /\ d[c].id = incidentCalls[c].id /\ d[c].at = incidentCalls[c].at
                  /\ d[c].action = incidentCalls[c].action
                  /\ d[c].quiet => incidentCalls[c].quiet
                  /\ d[c].quiet /\ c # 0 /\ d[c].id = i => d[c].at # "sent"
  BY DisturbedCalls
<1>. HIDE DEF d
<1>3. /\ incidentStatus'[i] # "none"
      /\ \A j \in Incidents : j # i => incidentStatus'[j] = incidentStatus[j]
      /\ incidentStatus' \in [Incidents -> {"none", "triggered", "acknowledged", "snoozed", "resolved"}]
  BY <1>1 DEF RespondInv, RespondTyped
<1>4. DOMAIN Respond!Listed \subseteq DOMAIN Respond!Listed'
  BY <1>1, <1>3 DEF Respond!Listed
<1>5. \A c \in DOMAIN incidentCalls : c # 0 /\ incidentCalls[c].id \in Incidents
  BY RespondShape DEF RespondInv
<1>6. RespondTyped' /\ RespondRows' /\ RespondLoaded' /\ RespondFresh'
  <2>1. incidentCalls = <<>> => d = <<>>
    BY <1>2
  <2>. QED BY <1>1, <1>2, <1>3, <1>4, <1>5, <2>1
           DEF RespondInv, RespondTyped, RespondRows, RespondLoaded, RespondFresh
<1>7. RespondLegal'
  <2>. SUFFICES ASSUME NEW c \in DOMAIN incidentCalls, d[c].quiet, d[c].at = "sent"
                PROVE  d[c].action \in Respond!Offered(incidentStatus'[d[c].id])
    BY <1>1, <1>2 DEF RespondLegal, Respond!Offered, Respond!isOpen
  <2>. QED BY <1>2, <1>3, <1>5 DEF RespondInv, RespondLegal
<1>. QED BY <1>6, <1>7 DEF RespondInv

LEMMA RespondInitHolds == ASSUME Respond!Init PROVE RespondInv
<1>1. /\ incidentStatus \in [Incidents -> {"none", "triggered"}]
      /\ incidentList = [data |-> {}, fetch |-> "sent", answer |-> {}, error |-> FALSE]
      /\ incidentCalls = <<>>
  BY DEF Respond!Init, Respond!Cache!FirstLoad, Respond!Cache!NoData
<1>. QED BY <1>1 DEF RespondInv, RespondTyped, RespondRows, RespondLoaded, RespondFresh, RespondLegal

LEMMA RespondNextPreserves == ASSUME RespondInv, [Respond!Next]_(Respond!vars) PROVE RespondInv'
BY MutatePreserves, IncidentFetchPreserves, IncidentAnswerPreserves, TransitionPreserves,
   SomeoneChangesPreserves DEF Respond!Next

LEMMA RespondInvImplies == RespondInv => Respond!QuietListIsCurrent
<1>. SUFFICES ASSUME RespondInv, incidentList.fetch = "idle", ~incidentList.error, ~incidentChanged,
                     NEW shown \in incidentList.data
              PROVE  /\ DOMAIN shown = DOMAIN Respond!Listed
                     /\ \A i \in DOMAIN shown : ~Respond!Awaited(i) => shown[i] = Respond!Listed[i]
  BY DEF Respond!QuietListIsCurrent, Respond!Cache!Settled
<1>1. FreshIncidents(shown)
  BY DEF RespondInv, RespondFresh
<1>2. \A i : ~Respond!Awaited(i) => ~AppliedUnseen(i)
  BY DEF AppliedUnseen, Respond!Awaited
<1>. QED BY <1>1, <1>2 DEF FreshIncidents

\* A step that applies a request finds it legal if it was quiet.
LEMMA QuietStepsAreLegal ==
  ASSUME RespondInv, [Respond!Next]_(Respond!vars), NEW c \in DOMAIN incidentCalls,
         incidentCalls[c].quiet, Respond!Unapplied(c)
  PROVE  incidentCalls[c].action \in Respond!Offered(incidentStatus[incidentCalls[c].id])
BY DEF RespondInv, RespondLegal, Respond!Unapplied

\* The incident list and the transitions behind it keep this invariant, whoever else
\* acts on the incidents.
THEOREM RespondInvariant == Respond!Spec => []RespondInv
<1>1. Respond!Init => RespondInv
  BY RespondInitHolds
<1>2. RespondInv /\ [Respond!Next]_(Respond!vars) => RespondInv'
  BY RespondNextPreserves
<1>. QED BY <1>1, <1>2, PTL DEF Respond!Spec

\* No click of incident-list.tsx takes an incident through a change that the console
\* does not offer: the server's status is as far as the tab's, or further.
THEOREM TransitionsLegal == Respond!Spec => Respond!TransitionsAreLegal
<1>1. RespondInv /\ [Respond!Next]_(Respond!vars) =>
        [\A c \in DOMAIN incidentCalls :
           (incidentCalls[c].quiet /\ Respond!Unapplied(c) /\ incidentCalls'[c].at # "sent") =>
             incidentCalls[c].action \in Respond!Offered(incidentStatus[incidentCalls[c].id])]_(Respond!vars)
  BY QuietStepsAreLegal
<1>. QED BY <1>1, RespondInvariant, PTL DEF Respond!Spec, Respond!TransitionsAreLegal

(***************************************************************************)
(* The Maintenance page under changing identities.                         *)
(***************************************************************************)

\* What NothingForeignIsShown asks of a row, for the identity that asked.
Fits(row, who) ==
  \/ who.tenantId # "" /\ row.tenantId = who.tenantId
  \/ who.role = "admin" /\ (who.tenantId = "" \/ panel = "audit")

Person == [role : Govern!ROLES, tenantId : Tenants \cup {"", BadTenant}]
TrailRow ==
  {row \in [table : {"SavedView", "AuditEvent"}, tenantId : Tenants \cup {""}, by : Govern!Contexts] :
     row.tenantId = row.by.tenantId}

GovernTyped ==
  /\ identity \in Person /\ trail \in Seq(TrailRow)

\* An entry is kept under the identity that asked, and has what that may see.
Proper(key, e) ==
  /\ e.asked \in Person /\ key = Govern!queryKey(e.asked) /\ Govern!Enabled(e.asked)
  /\ e = [asked |-> e.asked, entry |-> e.entry]
  /\ e.entry = [data |-> e.entry.data, fetch |-> e.entry.fetch,
                answer |-> e.entry.answer, error |-> e.entry.error]
  /\ \A shown \in e.entry.data \cup e.entry.answer :
       ~Govern!Refused(panel, Govern!Context(e.asked)) /\ \A row \in shown : Fits(row, e.asked)

GovernCache ==
  /\ cached = [key \in DOMAIN cached |-> cached[key]]
  /\ \A key \in DOMAIN cached : Proper(key, cached[key])
GovernExport ==
  \A file \in exported :
    /\ file = [busy |-> file.busy, asked |-> file.asked, rows |-> file.rows]
    /\ file.asked \in Person /\ \A row \in file.rows : Fits(row, file.asked)

GovernInv == GovernTyped /\ GovernCache /\ GovernExport

LEMMA GovernCardinality == \A S : Govern!Cardinality(S) = Cardinality(S)
BY DEF Govern!Cardinality, Cardinality

LEMMA SamePerson ==
  ASSUME NEW a \in Person, NEW b \in Person, a.role = b.role, a.tenantId = b.tenantId
  PROVE  a = b
<1>1. ASSUME NEW R, NEW T, NEW x \in [role : R, tenantId : T], NEW y \in [role : R, tenantId : T],
             x.role = y.role, x.tenantId = y.tenantId
      PROVE  x = y
  BY <1>1
<1>. QED BY <1>1 DEF Person

\* The context of an identity has its role, and its tenant if that is a name.
LEMMA ContextOf ==
  ASSUME NEW who \in Person
  PROVE  /\ Govern!Context(who).role = who.role
         /\ Govern!Context(who).tenantId
              = IF who.tenantId \in Tenants THEN who.tenantId ELSE ""
BY DEF Govern!Context, Govern!buildRbacContext, Govern!rbacHeaders, Govern!Unset

\* A row in the scope of somebody who is no administrator is one of the tenant.
LEMMA ScopeFits ==
  ASSUME NEW who \in Person, NEW ctx, NEW row, who.role # "admin", ctx.role = who.role,
         ctx.tenantId \in {who.tenantId, ""}, row.tenantId # "__NO_TENANT__",
         Govern!InScope(row, ctx)
  PROVE  Fits(row, who)
BY DEF Govern!InScope, Govern!toRestriction, Govern!Unset, Govern!NO_TENANT_SENTINEL, Fits

\* What is found for an administrator is of the tenant of his URL, or he has none.
LEMMA FoundFits ==
  ASSUME NEW who \in Person, NEW ctx, ctx.role = who.role, ctx.tenantId \in {who.tenantId, ""},
         NEW found \in SUBSET Govern!LogLines,
         NEW line \in Govern!Found(found, who.tenantId, ctx)
  PROVE  Fits(line, who)
<1>1. line \in Govern!LogLines /\ line.tenantId # "__NO_TENANT__"
  <2>1. line \in found
    BY DEF Govern!Found
  <2>2. \A l \in Govern!LogLines : l.tenantId \in {"acme", "globex", ""}
    <3>1. /\ Govern!Line(1, "acme").tenantId = "acme" /\ Govern!Line(2, "globex").tenantId = "globex"
          /\ Govern!Line(3, Govern!Unset).tenantId = ""
      BY DEF Govern!Line, Govern!Unset
    <3>. QED BY <3>1 DEF Govern!LogLines
  <2>. QED BY <2>1, <2>2
<1>2. CASE who.role = "admin"
  BY <1>2 DEF Govern!Found, Govern!toRestriction, Govern!Unset, Fits
<1>3. CASE who.role # "admin"
  <2>1. Govern!InScope(line, ctx)
    BY <1>3, GovernAssumption
       DEF Govern!Found, Govern!toRestriction, Govern!InScope, Govern!Unset, Govern!NO_TENANT_SENTINEL
  <2>. QED BY <1>1, <1>3, <2>1, ScopeFits
<1>. QED BY <1>2, <1>3

LEMMA TrailShape ==
  ASSUME GovernTyped
  PROVE  /\ Len(trail) \in Nat /\ DOMAIN trail = 1 .. Len(trail)
         /\ \A n \in DOMAIN trail :
              /\ trail[n] \in TrailRow
              /\ trail[n].tenantId \in Tenants \cup {""} /\ trail[n].tenantId # "__NO_TENANT__"
              /\ trail[n].tenantId = trail[n].by.tenantId
              /\ trail[n].table \in {"SavedView", "AuditEvent"}
<1>1. /\ Len(trail) \in Nat /\ DOMAIN trail = 1 .. Len(trail)
      /\ \A n \in DOMAIN trail : trail[n] \in TrailRow
  BY DEF GovernTyped
<1>2. "__NO_TENANT__" \notin Tenants \cup {""}
  BY GovernAssumption DEF Govern!NO_TENANT_SENTINEL
<1>. QED BY <1>1, <1>2 DEF TrailRow

\* An answer has nothing for whom it was not asked.
LEMMA ReadFits ==
  ASSUME GovernTyped, NEW who \in Person, Govern!Enabled(who), NEW row \in Govern!Read(panel, who)
  PROVE  Fits(row, who)
<1>1. CASE panel = "audit"
  <2>1. row \in Govern!Rows("AuditEvent", Govern!Context(who))
    BY <1>1 DEF Govern!Read, Govern!Events, Govern!Newest
  <2>2. PICK n \in DOMAIN trail : /\ row = [n |-> n, tenantId |-> trail[n].tenantId]
                                  /\ Govern!InScope(trail[n], Govern!Context(who))
    BY <2>1 DEF Govern!Rows
  <2>3. CASE who.role = "admin"
    BY <1>1, <2>3 DEF Fits
  <2>4. CASE who.role # "admin"
    <3>1. Fits(trail[n], who)
      BY <2>2, <2>4, ContextOf, TrailShape, ScopeFits
    <3>. QED BY <2>2, <3>1 DEF Fits
  <2>. QED BY <2>3, <2>4
<1>2. CASE panel = "same-record"
  <2>. DEFINE ctx == Govern!buildRbacContext(Govern!rbacHeadersForQuery(who))
  <2>1. ctx = who
    BY DEF Govern!buildRbacContext, Govern!rbacHeadersForQuery
  <2>2. PICK tier \in {Govern!LogLines, {Govern!Line(1, "acme")}} :
          row \in Govern!Newest(Govern!Found(tier, who.tenantId, who), 1)
    BY <1>2, <2>1 DEF Govern!Read, Govern!SameRecord
  <2>3. tier \in SUBSET Govern!LogLines
    BY DEF Govern!LogLines
  <2>4. row \in Govern!Found(tier, who.tenantId, who)
    BY <2>2 DEF Govern!Newest
  <2>. QED BY <2>3, <2>4, FoundFits
<1>3. CASE panel = "redact-paths"
  BY <1>3 DEF Govern!Read
<1>. QED BY <1>1, <1>2, <1>3 DEF Govern!Enabled

\* What an entry is fit to show depends on neither the identity nor the trail.
LEMMA StaysProper ==
  ASSUME panel' = panel, cached' = [k \in DOMAIN cached' |-> cached'[k]],
         \A k \in DOMAIN cached' : Proper(k, cached'[k])
  PROVE  GovernCache'
BY DEF GovernCache, Proper, Fits, Govern!queryKey, Govern!Enabled, Govern!Refused, Govern!Context,
       Govern!buildRbacContext, Govern!rbacHeaders, Person

LEMMA PersonStays == \A who : who \in Person <=> (who \in Person)'
BY DEF Person

LEMMA ExportStays == ASSUME GovernExport, panel' = panel, exported' = exported PROVE GovernExport'
BY DEF GovernExport, Fits, Person

\* One entry becomes another that is proper too.
LEMMA EntryChanges ==
  ASSUME GovernCache, panel' = panel, NEW key \in DOMAIN cached, NEW e,
         cached' = [cached EXCEPT ![key].entry = e],
         e = [data |-> e.data, fetch |-> e.fetch, answer |-> e.answer, error |-> e.error],
         \A shown \in e.data \cup e.answer :
           ~Govern!Refused(panel, Govern!Context(cached[key].asked))
           /\ \A row \in shown : Fits(row, cached[key].asked)
  PROVE  GovernCache'
<1>1. /\ cached' = [k \in DOMAIN cached' |-> cached'[k]] /\ DOMAIN cached' = DOMAIN cached
      /\ \A k \in DOMAIN cached : k # key => cached'[k] = cached[k]
      /\ cached'[key] = [cached[key] EXCEPT !.entry = e]
  OBVIOUS
<1>2. \A k \in DOMAIN cached : Proper(k, cached[k])
  BY DEF GovernCache
<1>3. /\ cached'[key].asked = cached[key].asked /\ cached'[key].entry = e
      /\ cached'[key] = [asked |-> cached[key].asked, entry |-> e]
  <2>1. cached[key] = [asked |-> cached[key].asked, entry |-> cached[key].entry]
    BY <1>2 DEF Proper
  <2>. QED BY <1>1, <2>1
<1>4. Proper(key, cached'[key])
  BY <1>2, <1>3 DEF Proper
<1>. QED BY <1>1, <1>2, <1>4, StaysProper

LEMMA PickPreserves ==
  ASSUME GovernInv, NEW who \in Person, Govern!pick(who)
  PROVE  GovernInv'
<1>. DEFINE new == Govern!Load(who)
            k0 == Govern!queryKey(who)
<1>1. /\ identity' = who /\ UNCHANGED <<panel, trail, exported>>
      /\ \/ cached' = cached
         \/ /\ Govern!Enabled(who)
            /\ cached' = [k \in DOMAIN cached \cup {k0} |-> IF k = k0 THEN new ELSE cached[k]]
         \/ k0 \in DOMAIN cached /\ cached' = [cached EXCEPT ![k0].entry.fetch = "sent"]
  BY DEF Govern!pick
<1>2. GovernTyped' /\ GovernExport'
  BY <1>1, ExportStays DEF GovernInv, GovernTyped, Person
<1>3. Govern!Enabled(who) => Proper(k0, new)
  BY DEF Proper, Govern!Load, Govern!Cache!FirstLoad, Govern!Cache!NoData
<1>4. /\ cached = [k \in DOMAIN cached |-> cached[k]] /\ GovernCache
      /\ \A k \in DOMAIN cached : Proper(k, cached[k])
  BY DEF GovernInv, GovernCache
<1>. HIDE DEF new, k0
<1>5. CASE cached' = cached
  BY <1>1, <1>2, <1>4, <1>5, StaysProper DEF GovernInv
<1>6. CASE /\ Govern!Enabled(who)
           /\ cached' = [k \in DOMAIN cached \cup {k0} |-> IF k = k0 THEN new ELSE cached[k]]
  BY <1>1, <1>2, <1>3, <1>4, <1>6, StaysProper DEF GovernInv
<1>7. CASE k0 \in DOMAIN cached /\ cached' = [cached EXCEPT ![k0].entry.fetch = "sent"]
  <2>. DEFINE old == cached[k0].entry
              e == [old EXCEPT !.fetch = "sent"]
  <2>1. /\ e = [data |-> e.data, fetch |-> e.fetch, answer |-> e.answer, error |-> e.error]
        /\ e.data = old.data /\ e.answer = old.answer
    <3>1. old = [data |-> old.data, fetch |-> old.fetch, answer |-> old.answer, error |-> old.error]
      BY <1>4, <1>7 DEF Proper
    <3>. HIDE DEF old
    <3>. QED BY <3>1
  <2>2. cached' = [cached EXCEPT ![k0].entry = e]
    BY <1>7
  <2>3. \A shown \in cached[k0].entry.data \cup cached[k0].entry.answer :
           ~Govern!Refused(panel, Govern!Context(cached[k0].asked))
           /\ \A row \in shown : Fits(row, cached[k0].asked)
    BY <1>4, <1>7 DEF Proper
  <2>. HIDE DEF e
  <2>4. GovernCache'
    BY <1>1, <1>4, <1>7, <2>1, <2>2, <2>3, EntryChanges
  <2>. QED BY <1>2, <2>4 DEF GovernInv
<1>. QED BY <1>1, <1>5, <1>6, <1>7

LEMMA GovernAnswerPreserves ==
  ASSUME GovernInv, NEW key \in DOMAIN cached, Govern!answer(key) \/ Govern!arrives(key)
  PROVE  GovernInv'
<1>. DEFINE who == cached[key].asked
            old == cached[key].entry
            e == IF Govern!arrives(key) THEN Govern!Cache!Deliver(old)
                 ELSE IF Govern!Refused(panel, Govern!Context(who)) THEN Govern!Cache!Fail(old)
                 ELSE Govern!Cache!Answer(old, Govern!Read(panel, who))
<1>1. UNCHANGED <<panel, identity, trail, exported>> /\ cached' = [cached EXCEPT ![key].entry = e]
  BY DEF Govern!answer, Govern!arrives
<1>2. Proper(key, cached[key]) /\ GovernCache
  BY DEF GovernInv, GovernCache
<1>3. /\ e = [data |-> e.data, fetch |-> e.fetch, answer |-> e.answer, error |-> e.error]
      /\ \/ e.data \cup e.answer \subseteq old.data \cup old.answer
         \/ /\ ~Govern!Refused(panel, Govern!Context(who))
            /\ e.data \cup e.answer \subseteq old.data \cup {Govern!Read(panel, who)}
  <2>. HIDE DEF who
  <2>1. old = [data |-> old.data, fetch |-> old.fetch, answer |-> old.answer, error |-> old.error]
    BY <1>2 DEF Proper
  <2>. HIDE DEF old
  <2>. QED BY <2>1 DEF Govern!Cache!Deliver, Govern!Cache!Fail, Govern!Cache!Answer, Govern!Cache!NoData
<1>4. \A row \in Govern!Read(panel, who) : Fits(row, who)
  BY <1>2, ReadFits DEF GovernInv, Proper
<1>5. \A shown \in e.data \cup e.answer :
           ~Govern!Refused(panel, Govern!Context(who)) /\ \A row \in shown : Fits(row, who)
  <2>. HIDE DEF e
  <2>. QED BY <1>2, <1>3, <1>4 DEF Proper
<1>. HIDE DEF e
<1>6. GovernCache'
  BY <1>1, <1>2, <1>3, <1>5, EntryChanges
<1>7. GovernTyped' /\ GovernExport'
  BY <1>1, ExportStays DEF GovernInv, GovernTyped, Person
<1>. QED BY <1>6, <1>7 DEF GovernInv

LEMMA GovernExportPreserves ==
  ASSUME GovernInv, Govern!download \/ Govern!saveBlob \/ Govern!exportFails
  PROVE  GovernInv'
<1>1. UNCHANGED <<panel, identity, cached, trail>>
  BY DEF Govern!download, Govern!saveBlob, Govern!exportFails
<1>2. GovernTyped' /\ GovernCache'
  BY <1>1, StaysProper DEF GovernInv, GovernTyped, GovernCache, Person
<1>3. GovernExport'
  <2>1. CASE Govern!download
    <3>. DEFINE file == [busy |-> TRUE, asked |-> identity, rows |-> {}]
    <3>1. exported' = {file} /\ identity \in Person
      BY <2>1 DEF Govern!download, GovernInv, GovernTyped
    <3>2. /\ file = [busy |-> file.busy, asked |-> file.asked, rows |-> file.rows]
          /\ file.asked = identity /\ file.rows = {}
      OBVIOUS
    <3>. HIDE DEF file
    <3>. QED BY <1>1, <3>1, <3>2, PersonStays DEF GovernExport
  <2>2. CASE Govern!saveBlob
    <3>1. PICK file \in exported :
            exported' = {[file EXCEPT !.busy = FALSE,
                            !.rows = Govern!Found(Govern!LogLines, file.asked.tenantId,
                                                  Govern!Context(file.asked))]}
      BY <2>2 DEF Govern!saveBlob
    <3>. DEFINE found == Govern!Found(Govern!LogLines, file.asked.tenantId, Govern!Context(file.asked))
    <3>2. file = [busy |-> file.busy, asked |-> file.asked, rows |-> file.rows] /\ file.asked \in Person
      BY DEF GovernInv, GovernExport
    <3>3. \A row \in found : Fits(row, file.asked)
      BY <3>2, ContextOf, FoundFits
    <3>. HIDE DEF found
    <3>. DEFINE saved == [file EXCEPT !.busy = FALSE, !.rows = found]
    <3>4. exported' = {saved}
      BY <3>1 DEF found
    <3>5. /\ saved = [busy |-> saved.busy, asked |-> saved.asked, rows |-> saved.rows]
          /\ saved.asked = file.asked /\ saved.rows = found
      <4>1. PICK b, a, rows0 : file = [busy |-> b, asked |-> a, rows |-> rows0]
        BY <3>2
      <4>2. \A no : [file EXCEPT !.busy = no, !.rows = found] = [busy |-> no, asked |-> a, rows |-> found]
        <5>. SUFFICES ASSUME NEW no
                      PROVE  [file EXCEPT !.busy = no, !.rows = found]
                               = [busy |-> no, asked |-> a, rows |-> found]
          OBVIOUS
        <5>1. [file EXCEPT !.busy = no, !.rows = found]
                = [[file EXCEPT !.busy = no] EXCEPT !.rows = found]
          OBVIOUS
        <5>2. [file EXCEPT !.busy = no] = [busy |-> no, asked |-> a, rows |-> rows0]
          BY <4>1
        <5>3. PICK half : half = [file EXCEPT !.busy = no]
          OBVIOUS
        <5>4. half = [busy |-> no, asked |-> a, rows |-> rows0]
          BY <5>2, <5>3
        <5>5. [half EXCEPT !.rows = found] = [busy |-> no, asked |-> a, rows |-> found]
          BY <5>4
        <5>. QED BY <5>1, <5>3, <5>5
      <4>3. saved = [busy |-> FALSE, asked |-> a, rows |-> found]
        BY <4>2, Zenon
      <4>. HIDE DEF saved
      <4>. QED BY <4>1, <4>3
    <3>. HIDE DEF saved
    <3>6. \A row \in found : Fits(row, file.asked)'
      BY <1>1, <3>3 DEF Fits
    <3>7. \A row : Fits(row, saved.asked)' <=> Fits(row, file.asked)'
      BY <3>5 DEF Fits
    <3>. QED BY <1>1, <3>2, <3>4, <3>5, <3>6, <3>7, PersonStays DEF GovernExport
  <2>3. CASE Govern!exportFails
    BY <2>3 DEF Govern!exportFails, GovernExport
  <2>. QED BY <2>1, <2>2, <2>3
<1>. QED BY <1>2, <1>3 DEF GovernInv

LEMMA ActPreserves ==
  ASSUME GovernInv, NEW kind, NEW ctx \in Govern!Contexts, Govern!act(kind, ctx)
  PROVE  GovernInv'
<1>1. /\ trail' = Append(trail, Govern!record(kind, ctx))
      /\ UNCHANGED <<panel, identity, cached, exported>>
  BY DEF Govern!act
<1>2. Govern!record(kind, ctx) \in TrailRow
  <2>1. ctx.tenantId \in Tenants \cup {""}
    <3>1. PICK who \in [role : Govern!ROLES, tenantId : Tenants \cup {""}] : ctx = Govern!Context(who)
      BY DEF Govern!Contexts, Govern!Unset
    <3>. QED BY <3>1, ContextOf DEF Person
  <2>. QED BY <2>1 DEF Govern!record, TrailRow
<1>3. GovernTyped'
  <2>1. trail' \in Seq(TrailRow) /\ identity' \in Person
    BY <1>1, <1>2 DEF GovernInv, GovernTyped
  <2>. QED BY <2>1 DEF GovernTyped, Person, TrailRow, Govern!Contexts, Govern!Context,
                       Govern!buildRbacContext, Govern!rbacHeaders
<1>4. GovernCache' /\ GovernExport'
  BY <1>1, StaysProper, ExportStays DEF GovernInv, GovernCache
<1>. QED BY <1>3, <1>4 DEF GovernInv

LEMMA GovernInitHolds == ASSUME Govern!Init PROVE GovernInv
<1>1. /\ identity \in [role : Govern!ROLES, tenantId : {""}] /\ trail = <<>> /\ exported = {}
      /\ cached = [key \in {Govern!queryKey(who) : who \in {w \in {identity} : Govern!Enabled(w)}} |->
                     Govern!Load(identity)]
  BY DEF Govern!Init, Govern!Unset
<1>2. GovernTyped /\ GovernExport
  <2>1. identity \in Person
    BY <1>1 DEF Person
  <2>2. trail \in Seq(TrailRow)
    <3>1. trail = <<>>
      BY <1>1
    <3>. QED BY <3>1
  <2>. QED BY <1>1, <2>1, <2>2 DEF GovernTyped, GovernExport
<1>3. GovernCache
  BY <1>1, <1>2 DEF GovernTyped, GovernCache, Proper, Govern!Load, Govern!Cache!FirstLoad, Govern!Cache!NoData
<1>. QED BY <1>2, <1>3 DEF GovernInv

LEMMA GovernNextPreserves == ASSUME GovernInv, [Govern!Next]_(Govern!vars) PROVE GovernInv'
<1>1. ASSUME UNCHANGED Govern!vars PROVE GovernInv'
  <2>1. UNCHANGED <<panel, identity, cached, trail, exported>>
    BY <1>1 DEF Govern!vars
  <2>2. GovernTyped'
    BY <2>1 DEF GovernInv, GovernTyped
  <2>3. GovernCache' /\ GovernExport'
    BY <2>1, StaysProper, ExportStays DEF GovernInv, GovernCache
  <2>. QED BY <2>2, <2>3 DEF GovernInv
<1>2. [role : Govern!ROLES, tenantId : Tenants \cup {Govern!Unset, BadTenant}] = Person
  BY DEF Person, Govern!Unset
<1>. QED BY <1>1, <1>2, PickPreserves, GovernAnswerPreserves, GovernExportPreserves, ActPreserves
         DEF Govern!Next

LEMMA GovernInvImpliesNothingForeign == GovernInv => Govern!NothingForeignIsShown
<1>. SUFFICES ASSUME GovernInv PROVE Govern!NothingForeignIsShown
  OBVIOUS
<1>. DEFINE key == Govern!queryKey(identity)
<1>1. ASSUME key \in DOMAIN cached, NEW shown \in cached[key].entry.data
      PROVE  ~Govern!Refused(panel, Govern!Context(identity)) /\ \A row \in shown : Fits(row, identity)
  <2>. DEFINE who == cached[key].asked
  <2>1. /\ who \in Person /\ key = Govern!queryKey(who)
        /\ ~Govern!Refused(panel, Govern!Context(who)) /\ \A row \in shown : Fits(row, who)
    BY <1>1 DEF GovernInv, GovernCache, Proper
  <2>2. who = identity
    <3>1. who.role = identity.role /\ who.tenantId = identity.tenantId
      BY <2>1 DEF Govern!queryKey
    <3>2. identity \in Person
      BY DEF GovernInv, GovernTyped
    <3>. HIDE DEF who
    <3>. QED BY <2>1, <3>1, <3>2, SamePerson
  <2>. QED BY <2>1, <2>2
<1>2. \A file \in exported : \A row \in file.rows : Fits(row, file.asked)
  BY DEF GovernInv, GovernExport
<1>. QED BY <1>1, <1>2 DEF Govern!NothingForeignIsShown, Fits, Govern!Unset

LEMMA GovernInvImpliesReads == GovernInv => Govern!WhatOneWritesOneReads
<1>. SUFFICES ASSUME GovernInv, NEW n \in DOMAIN trail, trail[n].by.role # "viewer",
                     Govern!MayRead(trail[n].by)
              PROVE  LET by == trail[n].by
                     IN  IF trail[n].table = "SavedView" THEN \E row \in Govern!Views(by) : row.n = n
                         ELSE \/ \E row \in Govern!Events(by) : row.n = n
                              \/ Govern!Cardinality({row \in Govern!Rows("AuditEvent", by) : row.n > n})
                                   >= TrailLimit
  BY Zenon DEF Govern!WhatOneWritesOneReads
<1>. DEFINE by == trail[n].by
            row0 == [n |-> n, tenantId |-> trail[n].tenantId]
<1>1. /\ Len(trail) \in Nat /\ DOMAIN trail = 1 .. Len(trail)
      /\ trail[n].tenantId = by.tenantId /\ trail[n].table \in {"SavedView", "AuditEvent"}
  BY TrailShape DEF GovernInv
<1>2. Govern!InScope(trail[n], by)
  BY <1>1 DEF Govern!InScope, Govern!toRestriction, Govern!MayRead, Govern!Unset
<1>3. row0 \in Govern!Rows(trail[n].table, by) /\ row0.n = n
  BY <1>2 DEF Govern!Rows
<1>. HIDE DEF row0, by
<1>4. CASE trail[n].table = "SavedView"
  BY <1>3, <1>4 DEF Govern!Views, by
<1>5. CASE trail[n].table = "AuditEvent"
  <2>. DEFINE newer == {row \in Govern!Rows("AuditEvent", by) : row.n > n}
  <2>1. IsFiniteSet(newer)
    <3>. DEFINE all == {[n |-> m, tenantId |-> trail[m].tenantId] : m \in DOMAIN trail}
                at == [m \in DOMAIN trail |-> [n |-> m, tenantId |-> trail[m].tenantId]]
    <3>1. IsFiniteSet(DOMAIN trail)
      BY <1>1, FS_Interval
    <3>2. at \in Surjection(DOMAIN trail, all)
      BY Zenon DEF Surjection
    <3>3. newer \subseteq all
      BY DEF Govern!Rows
    <3>. HIDE DEF at, all, newer
    <3>. QED BY <3>1, <3>2, <3>3, FS_Surjection, FS_Subset
  <2>2. Govern!Cardinality(newer) \in Nat
    BY <2>1, GovernCardinality, FS_CardinalityType
  <2>. HIDE DEF newer
  <2>3. Govern!Cardinality(newer) < TrailLimit \/ Govern!Cardinality(newer) >= TrailLimit
    BY <2>2, GovernAssumption
  <2>4. Govern!Cardinality(newer) < TrailLimit => row0 \in Govern!Events(by)
    BY <1>3, <1>5 DEF Govern!Events, Govern!Newest, newer
  <2>. QED BY <1>3, <1>5, <2>3, <2>4 DEF by, newer
<1>. QED BY <1>1, <1>4, <1>5

\* The Maintenance page keeps this invariant: every cache entry and every export was
\* read under the identity of its key.
THEOREM GovernInvariant == Govern!Spec => []GovernInv
<1>1. Govern!Init => GovernInv
  BY GovernInitHolds
<1>2. GovernInv /\ [Govern!Next]_(Govern!vars) => GovernInv'
  BY GovernNextPreserves
<1>. QED BY <1>1, <1>2, PTL DEF Govern!Spec

(***************************************************************************)
(* The filter.  A compiled query is read row by row: what a row has to be  *)
(* for each clause, then for each compilation, then what a control makes   *)
(* of the filter and of the list.                                          *)
(***************************************************************************)

\* What a row has to be for a clause to let it through.
Admits(row, field, value, values) == value # Filter!Unset => row[field] \in values

\* A row satisfies a clause if the field is not set or has one of the values.
LEMMA ClauseAdmits ==
  ASSUME NEW row, NEW field, NEW value, NEW values
  PROVE  Filter!Satisfies(row, Filter!Clause(field, value, values))
           <=> Admits(row, field, value, values)
<1>1. CASE value = Filter!Unset
  BY <1>1 DEF Filter!Satisfies, Filter!Clause, Admits
<1>2. CASE value # Filter!Unset
  <2>. DEFINE clause == [field |-> field, values |-> values]
  <2>1. clause.field = field /\ clause.values = values
    OBVIOUS
  <2>2. Filter!Clause(field, value, values) = {clause}
    BY <1>2 DEF Filter!Clause
  <2>. HIDE DEF clause
  <2>3. Filter!Satisfies(row, {clause}) <=> row[clause.field] \in clause.values
    BY DEF Filter!Satisfies
  <2>. QED BY <1>2, <2>1, <2>2, <2>3 DEF Admits
<1>. QED BY <1>1, <1>2

LevelAdmits(row, level) == level # Filter!NoLevel => row.level \in Filter!Levels(level)

LEMMA LevelClauseAdmits ==
  ASSUME NEW row, NEW level
  PROVE  Filter!Satisfies(row, Filter!LevelClause(level)) <=> LevelAdmits(row, level)
<1>1. CASE level = Filter!NoLevel
  BY <1>1 DEF Filter!Satisfies, Filter!LevelClause, LevelAdmits
<1>2. CASE level # Filter!NoLevel
  <2>. DEFINE clause == [field |-> "level", values |-> Filter!Levels(level)]
  <2>1. clause.field = "level" /\ clause.values = Filter!Levels(level)
    OBVIOUS
  <2>2. Filter!LevelClause(level) = {clause}
    BY <1>2 DEF Filter!LevelClause
  <2>. HIDE DEF clause
  <2>3. Filter!Satisfies(row, {clause}) <=> row[clause.field] \in clause.values
    BY DEF Filter!Satisfies
  <2>. QED BY <1>2, <2>1, <2>2, <2>3 DEF LevelAdmits
<1>. QED BY <1>1, <1>2

KeyAdmits(row, key, wildcard) ==
  Admits(row, "logKey", key, IF Filter!endsWithStar(key) THEN wildcard ELSE {key})

\* What a row has to be for buildPrismaWhere() to select it.
ListAdmits(row, q, restriction) ==
  /\ LevelAdmits(row, q.level)
  /\ KeyAdmits(row, q.logKey, Filter!startsWith(q.logKey))
  /\ Admits(row, "service", q.service, {q.service})
  /\ Admits(row, "traceId", q.traceId, {q.traceId})
  /\ Admits(row, "requestId", q.requestId, {q.requestId})
  /\ Admits(row, "message", q.q, Filter!Insensitive(q.q))
  /\ Admits(row, "tenantId", Filter!Tenant(q, restriction), {Filter!Tenant(q, restriction)})

\* The clauses of a union are satisfied one set after the other.
LEMMA UnionAdmits ==
  ASSUME NEW row, NEW a, NEW b, NEW c, NEW d, NEW e, NEW f, NEW g
  PROVE  Filter!Satisfies(row, UNION {a, b, c, d, e, f, g}) <=>
           /\ Filter!Satisfies(row, a) /\ Filter!Satisfies(row, b)
           /\ Filter!Satisfies(row, c) /\ Filter!Satisfies(row, d)
           /\ Filter!Satisfies(row, e) /\ Filter!Satisfies(row, f)
           /\ Filter!Satisfies(row, g)
BY DEF Filter!Satisfies

LEMMA IsAdmits ==
  ASSUME NEW row, NEW field, NEW value
  PROVE  Filter!Satisfies(row, Filter!Is(field, value)) <=> Admits(row, field, value, {value})
BY ClauseAdmits DEF Filter!Is

LEMMA KeyClauseAdmits ==
  ASSUME NEW row, NEW key, NEW wildcard
  PROVE  Filter!Satisfies(row, Filter!KeyClause(key, wildcard)) <=> KeyAdmits(row, key, wildcard)
BY ClauseAdmits DEF Filter!KeyClause, KeyAdmits

LEMMA WhereAdmits ==
  ASSUME NEW row, NEW q, NEW restriction
  PROVE  Filter!Satisfies(row, Filter!buildPrismaWhere(q, restriction))
           <=> ListAdmits(row, q, restriction)
<1>. DEFINE Holds(clauses) == Filter!Satisfies(row, clauses)
            tenant == Filter!Tenant(q, restriction)
<1>1. Holds(Filter!buildPrismaWhere(q, restriction)) <=>
        /\ Holds(Filter!LevelClause(q.level))
        /\ Holds(Filter!KeyClause(q.logKey, Filter!startsWith(q.logKey)))
        /\ Holds(Filter!Is("service", q.service))
        /\ Holds(Filter!Is("traceId", q.traceId))
        /\ Holds(Filter!Is("requestId", q.requestId))
        /\ Holds(Filter!Clause("message", q.q, Filter!Insensitive(q.q)))
        /\ Holds(Filter!Is("tenantId", tenant))
  BY UnionAdmits DEF Filter!buildPrismaWhere
<1>2. Holds(Filter!LevelClause(q.level)) <=> LevelAdmits(row, q.level)
  BY LevelClauseAdmits
<1>3. Holds(Filter!KeyClause(q.logKey, Filter!startsWith(q.logKey)))
        <=> KeyAdmits(row, q.logKey, Filter!startsWith(q.logKey))
  BY KeyClauseAdmits
<1>4. /\ Holds(Filter!Is("service", q.service)) <=> Admits(row, "service", q.service, {q.service})
      /\ Holds(Filter!Is("traceId", q.traceId)) <=> Admits(row, "traceId", q.traceId, {q.traceId})
      /\ Holds(Filter!Is("requestId", q.requestId))
           <=> Admits(row, "requestId", q.requestId, {q.requestId})
      /\ Holds(Filter!Is("tenantId", tenant)) <=> Admits(row, "tenantId", tenant, {tenant})
  BY IsAdmits
<1>5. Holds(Filter!Clause("message", q.q, Filter!Insensitive(q.q)))
        <=> Admits(row, "message", q.q, Filter!Insensitive(q.q))
  BY ClauseAdmits
<1>. HIDE DEF Holds
<1>6. Holds(Filter!buildPrismaWhere(q, restriction)) <=> ListAdmits(row, q, restriction)
  BY <1>1, <1>2, <1>3, <1>4, <1>5 DEF ListAdmits
<1>. QED BY <1>6 DEF Holds

\* What a row has to be for the stream of a service to have it; the free text is
\* compared letter by letter.
StreamAdmits(row, q, restriction, service) ==
  /\ row.service = service
  /\ LevelAdmits(row, q.level)
  /\ KeyAdmits(row, q.logKey, Filter!startsWith(q.logKey))
  /\ Admits(row, "traceId", q.traceId, {q.traceId})
  /\ Admits(row, "requestId", q.requestId, {q.requestId})
  /\ Admits(row, "tenantId", Filter!Tenant(q, restriction), {Filter!Tenant(q, restriction)})
  /\ Admits(row, "message", q.q, {msg \in Filter!Messages : msg = q.q})

LEMMA StreamSelectorAdmits ==
  ASSUME NEW row, NEW q, NEW restriction, q.service # Filter!Unset
  PROVE  Filter!Satisfies(row, Filter!buildLogQL(q, restriction))
           <=> StreamAdmits(row, q, restriction, q.service)
<1>. DEFINE Holds(clauses) == Filter!Satisfies(row, clauses)
            tenant == Filter!Tenant(q, restriction)
            selector == [field |-> "service",
                         values |-> {IF q.service = Filter!Unset THEN "api" ELSE q.service}]
<1>1. Holds(Filter!buildLogQL(q, restriction)) <=>
        /\ Holds({selector})
        /\ Holds(Filter!LevelClause(q.level))
        /\ Holds(Filter!KeyClause(q.logKey, Filter!startsWith(q.logKey)))
        /\ Holds(Filter!Is("tenantId", tenant))
        /\ Holds(Filter!Is("traceId", q.traceId))
        /\ Holds(Filter!Is("requestId", q.requestId))
        /\ Holds(Filter!Clause("message", q.q, {msg \in Filter!Messages : msg = q.q}))
  <2>. DEFINE level == Filter!LevelClause(q.level)
              key == Filter!KeyClause(q.logKey, Filter!startsWith(q.logKey))
              ofTenant == Filter!Is("tenantId", tenant)
              ofTrace == Filter!Is("traceId", q.traceId)
              ofRequest == Filter!Is("requestId", q.requestId)
              word == Filter!Clause("message", q.q, {msg \in Filter!Messages : msg = q.q})
  <2>1. Filter!buildLogQL(q, restriction)
          = UNION {{selector}, level, key, ofTenant, ofTrace, ofRequest, word}
    BY DEF Filter!buildLogQL
  <2>. HIDE DEF selector, level, key, ofTenant, ofTrace, ofRequest, word
  <2>2. Holds(UNION {{selector}, level, key, ofTenant, ofTrace, ofRequest, word}) <=>
          /\ Holds({selector}) /\ Holds(level) /\ Holds(key) /\ Holds(ofTenant)
          /\ Holds(ofTrace) /\ Holds(ofRequest) /\ Holds(word)
    BY UnionAdmits
  <2>. HIDE DEF Holds
  <2>. QED BY <2>1, <2>2 DEF level, key, ofTenant, ofTrace, ofRequest, word
<1>2. Holds({selector}) <=> row.service = q.service
  <2>1. selector.field = "service" /\ selector.values = {q.service}
    OBVIOUS
  <2>. HIDE DEF selector
  <2>2. Holds({selector}) <=> row[selector.field] \in selector.values
    BY DEF Filter!Satisfies
  <2>. QED BY <2>1, <2>2
<1>3. Holds(Filter!LevelClause(q.level)) <=> LevelAdmits(row, q.level)
  BY LevelClauseAdmits
<1>4. Holds(Filter!KeyClause(q.logKey, Filter!startsWith(q.logKey)))
        <=> KeyAdmits(row, q.logKey, Filter!startsWith(q.logKey))
  BY KeyClauseAdmits
<1>5. /\ Holds(Filter!Is("traceId", q.traceId)) <=> Admits(row, "traceId", q.traceId, {q.traceId})
      /\ Holds(Filter!Is("requestId", q.requestId))
           <=> Admits(row, "requestId", q.requestId, {q.requestId})
      /\ Holds(Filter!Is("tenantId", tenant)) <=> Admits(row, "tenantId", tenant, {tenant})
  BY IsAdmits
<1>6. Holds(Filter!Clause("message", q.q, {msg \in Filter!Messages : msg = q.q}))
        <=> Admits(row, "message", q.q, {msg \in Filter!Messages : msg = q.q})
  BY ClauseAdmits
<1>. HIDE DEF Holds, selector
<1>7. Holds(Filter!buildLogQL(q, restriction)) <=> StreamAdmits(row, q, restriction, q.service)
  BY <1>1, <1>2, <1>3, <1>4, <1>5, <1>6 DEF StreamAdmits
<1>. QED BY <1>7 DEF Holds

\* query-compile.ts prints what an unrestricted list is compiled to, unless the
\* underscore of a LIKE pattern stands for a letter.
LEMMA PreviewIsTheList ==
  ASSUME NEW q, q.role = "admin", q.logKey # "PAY_*"
  PROVE  Filter!toSqlWhere(q) = Filter!ListWhere(q)
<1>1. Filter!Tenant(q, Filter!Restriction(q)) = q.tenantId
  BY DEF Filter!Tenant, Filter!Restriction, Filter!toRestriction
<1>2. Filter!KeyClause(q.logKey, Filter!Like(q.logKey))
        = Filter!KeyClause(q.logKey, Filter!startsWith(q.logKey))
  BY DEF Filter!KeyClause, Filter!Like, Filter!startsWith, Filter!endsWithStar, Filter!Wildcards
<1>. QED
  BY <1>1, <1>2 DEF Filter!toSqlWhere, Filter!ListWhere, Filter!buildPrismaWhere

\* A filter as useLogQuery() makes it.
Fields == {"level", "logKey", "service", "tenantId", "traceId", "requestId", "q",
           "source", "role", "from", "to"}
IsQuery(q) == DOMAIN q = Fields
IsRow(row) == /\ row.level \in Filter!Level /\ row.logKey \in Filter!LogKeys
              /\ row.message \in Filter!Messages

\* Where the identity is restricted to the tenant of the filter, the tail lets through
\* what the list selects.
LEMMA TailIsTheList ==
  ASSUME NEW row, IsRow(row), NEW q, IsQuery(q),
         q.level = Filter!NoLevel \/ q.level[2] \in Filter!Level,
         Filter!Restriction(q) = q.tenantId
  PROVE  Filter!InTail(row, q) <=> Filter!Satisfies(row, Filter!ListWhere(q))
<1>. DEFINE f == Filter!tailFilter(q)
            restriction == Filter!Restriction(q)
<1>1. /\ f.level = q.level /\ f.logKey = q.logKey /\ f.service = q.service
      /\ f.traceId = q.traceId /\ f.requestId = q.requestId /\ f.q = q.q
      /\ f.tenantId = Filter!Unset
  BY DEF Filter!tailFilter, IsQuery, Fields
<1>2. Filter!Tenant(q, restriction) = q.tenantId
  BY DEF Filter!Tenant
<1>. HIDE DEF f, restriction
<1>3. Admits(row, "message", q.q, Filter!Insensitive(q.q))
        <=> (f.q # Filter!Unset => Filter!Lower(row.message) = Filter!Lower(f.q))
  BY <1>1 DEF Admits, Filter!Insensitive, IsRow
<1>4. LevelAdmits(row, q.level) <=>
        (f.level # Filter!NoLevel =>
           IF f.level[1] = ">="
           THEN Filter!LEVEL_RANK[row.level] >= Filter!LEVEL_RANK[f.level[2]]
           ELSE row.level = f.level[2])
  BY <1>1 DEF LevelAdmits, Filter!Levels, Filter!levelsAtOrAbove, IsRow
<1>5. KeyAdmits(row, q.logKey, Filter!startsWith(q.logKey)) <=>
        (f.logKey # Filter!Unset =>
           IF Filter!endsWithStar(f.logKey)
           THEN row.logKey \in Filter!startsWith(f.logKey)
           ELSE row.logKey = f.logKey)
  BY <1>1 DEF KeyAdmits, Admits
<1>6. /\ Admits(row, "service", q.service, {q.service})
           <=> (f.service # Filter!Unset => row.service = f.service)
      /\ Admits(row, "traceId", q.traceId, {q.traceId})
           <=> (f.traceId # Filter!Unset => row.traceId = f.traceId)
      /\ Admits(row, "requestId", q.requestId, {q.requestId})
           <=> (f.requestId # Filter!Unset => row.requestId = f.requestId)
      /\ Admits(row, "tenantId", q.tenantId, {q.tenantId})
           <=> (restriction # Filter!Unset => row.tenantId = restriction)
  BY <1>1 DEF Admits, restriction
<1>7. Filter!matches(row, f) <=>
        /\ f.service # Filter!Unset => row.service = f.service
        /\ f.tenantId # Filter!Unset => row.tenantId = f.tenantId
        /\ f.traceId # Filter!Unset => row.traceId = f.traceId
        /\ f.requestId # Filter!Unset => row.requestId = f.requestId
        /\ f.q # Filter!Unset => Filter!Lower(row.message) = Filter!Lower(f.q)
        /\ f.level # Filter!NoLevel =>
             IF f.level[1] = ">="
             THEN Filter!LEVEL_RANK[row.level] >= Filter!LEVEL_RANK[f.level[2]]
             ELSE row.level = f.level[2]
        /\ f.logKey # Filter!Unset =>
             IF Filter!endsWithStar(f.logKey)
             THEN row.logKey \in Filter!startsWith(f.logKey)
             ELSE row.logKey = f.logKey
  BY DEF Filter!matches
<1>8. Filter!InTail(row, q) <=>
        /\ restriction # Filter!Unset => row.tenantId = restriction
        /\ Filter!matches(row, f)
  BY DEF Filter!InTail, f, restriction
<1>9. Filter!Satisfies(row, Filter!ListWhere(q)) <=> ListAdmits(row, q, restriction)
  BY WhereAdmits DEF Filter!ListWhere, restriction
<1>10. ListAdmits(row, q, restriction) <=>
         /\ LevelAdmits(row, q.level)
         /\ KeyAdmits(row, q.logKey, Filter!startsWith(q.logKey))
         /\ Admits(row, "service", q.service, {q.service})
         /\ Admits(row, "traceId", q.traceId, {q.traceId})
         /\ Admits(row, "requestId", q.requestId, {q.requestId})
         /\ Admits(row, "message", q.q, Filter!Insensitive(q.q))
         /\ Admits(row, "tenantId", q.tenantId, {q.tenantId})
  BY <1>2 DEF ListAdmits
<1>. QED BY <1>1, <1>3, <1>4, <1>5, <1>6, <1>7, <1>8, <1>9, <1>10

\* Loki's own service, without a free text.
LEMMA LokiIsTheList ==
  ASSUME NEW row, NEW q, IsQuery(q), q.q = Filter!Unset, NEW service,
         service # Filter!Unset, row.service = service
  PROVE  Filter!Satisfies(row, Filter!LokiList(q, Filter!Restriction(q), service))
           <=> Filter!Satisfies(row, Filter!ListWhere(q))
<1>. DEFINE restriction == Filter!Restriction(q)
            named == [q EXCEPT !.service = IF @ = Filter!Unset THEN service ELSE @]
<1>1. /\ named.level = q.level /\ named.logKey = q.logKey /\ named.traceId = q.traceId
      /\ named.requestId = q.requestId /\ named.q = q.q /\ named.tenantId = q.tenantId
      /\ named.service = IF q.service = Filter!Unset THEN service ELSE q.service
  BY DEF IsQuery, Fields
<1>2. Filter!LokiList(q, restriction, service) = Filter!buildLogQL(named, restriction)
  BY DEF Filter!LokiList
<1>. HIDE DEF named, restriction
<1>3. named.service # Filter!Unset
  BY <1>1
<1>4. Filter!Satisfies(row, Filter!LokiList(q, restriction, service))
        <=> StreamAdmits(row, named, restriction, named.service)
  BY <1>1, <1>2, <1>3, StreamSelectorAdmits
<1>5. Filter!Satisfies(row, Filter!ListWhere(q)) <=> ListAdmits(row, q, restriction)
  BY WhereAdmits DEF Filter!ListWhere, restriction
<1>6. Filter!Tenant(named, restriction) = Filter!Tenant(q, restriction)
  BY <1>1 DEF Filter!Tenant
<1>7. row.service = named.service <=> Admits(row, "service", q.service, {q.service})
  BY <1>1 DEF Admits
<1>8. /\ Admits(row, "message", q.q, Filter!Insensitive(q.q))
      /\ Admits(row, "message", named.q, {msg \in Filter!Messages : msg = named.q})
  BY <1>1 DEF Admits
<1>9. StreamAdmits(row, named, restriction, named.service) <=> ListAdmits(row, q, restriction)
  BY <1>1, <1>6, <1>7, <1>8 DEF StreamAdmits, ListAdmits
<1>. QED BY <1>4, <1>5, <1>9 DEF restriction

\* The aggregates take the key out of the compiled query and put it back as a LIKE
\* pattern: which makes no difference unless the underscore stands for a letter.
LEMMA AggregatesCountTheList ==
  ASSUME NEW q, q.logKey # "PAY_*", NEW window
  PROVE  Filter!Aggregated(Table, q, Filter!Restriction(q), window)
           = Filter!Selected(Table, Filter!ListWhere(q), window)
<1>. DEFINE restriction == Filter!Restriction(q)
            where == Filter!buildPrismaWhere(q, restriction)
            key == Filter!KeyClause(q.logKey, Filter!startsWith(q.logKey))
            rest == UNION {Filter!LevelClause(q.level), Filter!Is("service", q.service),
                           Filter!Is("traceId", q.traceId), Filter!Is("requestId", q.requestId),
                           Filter!Clause("message", q.q, Filter!Insensitive(q.q)),
                           Filter!Is("tenantId", Filter!Tenant(q, restriction))}
<1>1. where = key \cup rest
  BY DEF Filter!buildPrismaWhere
<1>2. ASSUME NEW field, NEW value, NEW values, NEW c \in Filter!Clause(field, value, values)
      PROVE  c.field = field
  <2>1. value # Filter!Unset /\ c = [field |-> field, values |-> values]
    BY <1>2 DEF Filter!Clause
  <2>. QED BY <2>1
<1>3. \A c \in key : c.field = "logKey"
  BY <1>2 DEF Filter!KeyClause
<1>4. \A c \in rest : c.field # "logKey"
  <2>1. \A c \in Filter!LevelClause(q.level) : c.field = "level"
    BY DEF Filter!LevelClause
  <2>2. /\ \A c \in Filter!Is("service", q.service) : c.field = "service"
        /\ \A c \in Filter!Is("traceId", q.traceId) : c.field = "traceId"
        /\ \A c \in Filter!Is("requestId", q.requestId) : c.field = "requestId"
        /\ \A c \in Filter!Is("tenantId", Filter!Tenant(q, restriction)) : c.field = "tenantId"
    BY <1>2 DEF Filter!Is
  <2>3. \A c \in Filter!Clause("message", q.q, Filter!Insensitive(q.q)) : c.field = "message"
    BY <1>2
  <2>. QED BY <2>1, <2>2, <2>3
<1>5. Filter!KeyClause(q.logKey, Filter!Like(q.logKey)) = key
  BY DEF Filter!KeyClause, Filter!Like, Filter!startsWith, Filter!endsWithStar, Filter!Wildcards
<1>6. key = {} => Filter!KeyClause(q.logKey, Filter!Like(q.logKey)) = {}
  BY <1>5
<1>. HIDE DEF where, key, rest
<1>7. (\E c \in where : c.field = "logKey") <=> key # {}
  BY <1>1, <1>3, <1>4
<1>8. (IF \E c \in where : c.field = "logKey"
       THEN Filter!KeyClause(q.logKey, Filter!Like(q.logKey)) ELSE {}) = key
  BY <1>5, <1>6, <1>7
<1>9. Filter!buildFilterSql(where, q)
        = {c \in where : c.field \notin {"tenantId", "logKey"}} \cup key
  BY <1>8 DEF Filter!buildFilterSql
<1>10. Filter!buildFilterSql(where, q) \cup {c \in where : c.field = "tenantId"} = where
  BY <1>1, <1>3, <1>4, <1>9
<1>. QED BY <1>10 DEF Filter!Aggregated, Filter!ListWhere, where, restriction

\* useLogQuery() field by field.
LEMMA QueryFields ==
  ASSUME NEW u
  PROVE  LET q == Filter!useLogQuery(u)
         IN  /\ IsQuery(q)
             /\ q.level = Filter!NoLevel \/ q.level[2] \in Filter!Level
             /\ q.level = Filter!parseLevelToken(u.level)
             /\ q.logKey = u.logKey /\ q.service = u.service /\ q.tenantId = u.tenantId
             /\ q.traceId = u.traceId /\ q.requestId = u.requestId /\ q.q = u.q
             /\ q.source = u.source /\ q.role = u.role
<1>1. Filter!parseLevelToken(u.level) = Filter!NoLevel
        \/ Filter!parseLevelToken(u.level)[2] \in Filter!Level
  BY DEF Filter!parseLevelToken
<1>. QED BY <1>1 DEF Filter!useLogQuery, IsQuery, Fields

\* Whatever the filter, and for every table: SQL, raw SQL, LogQL, tail and preview agree.
LEMMA SourcesAgreeAlways == Filter!SourcesAgree
<1>. DEFINE q == Filter!query
<1>1. /\ IsQuery(q) /\ (q.level = Filter!NoLevel \/ q.level[2] \in Filter!Level)
  BY QueryFields DEF Filter!query
<1>2. \A row \in Table \cup LokiTable : IsRow(row)
  BY FilterAssumption DEF IsRow
<1>. HIDE DEF q
<1>3. (q.role = "admin" /\ q.logKey # "PAY_*") => Filter!toSqlWhere(q) = Filter!ListWhere(q)
  BY PreviewIsTheList
<1>4. ASSUME NEW row \in Table \cup LokiTable, Filter!Restriction(q) = q.tenantId
      PROVE  Filter!InTail(row, q) <=> Filter!Satisfies(row, Filter!ListWhere(q))
  BY <1>1, <1>2, <1>4, TailIsTheList
<1>5. ASSUME NEW row \in Table \cup LokiTable, q.q = Filter!Unset, row.service = DefaultService
      PROVE  Filter!Satisfies(row, Filter!LokiList(q, Filter!Restriction(q), DefaultService))
               <=> Filter!Satisfies(row, Filter!ListWhere(q))
  BY <1>1, <1>5, LokiIsTheList, FilterAssumption
<1>6. q.logKey # "PAY_*" =>
        Filter!Aggregated(Table, q, Filter!Restriction(q), Filter!Window(q, Filter!now, Filter!HOUR))
          = Filter!Selected(Table, Filter!ListWhere(q), Filter!Window(q, Filter!now, Filter!HOUR))
  BY AggregatesCountTheList
<1>. QED BY <1>3, <1>4, <1>5, <1>6 DEF q, Filter!SourcesAgree, Filter!Rows

\* A value that a facet or the drawer can put into a field.
IsValue(field, v) ==
  /\ v # Filter!Unset
  /\ field = "level" => v \in Filter!Level
  /\ field = "logKey" => Filter!logKeySchema(v) /\ v \in Filter!LogKeys

\* The filter with a value put into a field, by facet-rail.tsx or detail-drawer.tsx.
Narrowed(u, field, v) == [u EXCEPT ![field] = IF field = "level" THEN <<"", v>> ELSE v]

\* Putting the value of a listed row into its field narrows the list to the rows that
\* have this value, whatever was in the field before.
LEMMA NarrowedList ==
  ASSUME NEW u, DOMAIN u = DOMAIN Filter!Home, NEW field \in Filter!OVERVIEW_FIELDS, NEW v,
         IsValue(field, v), NEW row, NEW seen, seen[field] = v,
         Filter!Satisfies(seen, Filter!ListWhere(Filter!useLogQuery(u)))
  PROVE  Filter!Satisfies(row, Filter!ListWhere(Filter!useLogQuery(Narrowed(u, field, v))))
           <=> Filter!Satisfies(row, Filter!ListWhere(Filter!useLogQuery(u))) /\ row[field] = v
<1>. DEFINE n == Narrowed(u, field, v)
            q == Filter!useLogQuery(u)
            p == Filter!useLogQuery(n)
            old == Filter!Restriction(q)
            new == Filter!Restriction(p)
            Text(r) == Admits(r, "message", q.q, Filter!Insensitive(q.q))
            Key(r, k) == KeyAdmits(r, k, Filter!startsWith(k))
            Has(r, f, w) == Admits(r, f, w, {w})
<1>2. /\ q.level = Filter!parseLevelToken(u.level)
      /\ q.logKey = u.logKey /\ q.service = u.service /\ q.tenantId = u.tenantId
      /\ q.traceId = u.traceId /\ q.requestId = u.requestId /\ q.q = u.q /\ q.role = u.role
  BY QueryFields
<1>1. /\ n.q = u.q /\ n.role = u.role
      /\ field # "level" => n.level = u.level
      /\ field = "level" => n.level = <<"", v>>
      /\ field # "logKey" => n.logKey = u.logKey
      /\ field = "logKey" => n.logKey = v
      /\ field # "service" => n.service = u.service
      /\ field = "service" => n.service = v
      /\ field # "traceId" => n.traceId = u.traceId
      /\ field = "traceId" => n.traceId = v
      /\ field # "requestId" => n.requestId = u.requestId
      /\ field = "requestId" => n.requestId = v
      /\ field # "tenantId" => n.tenantId = u.tenantId
      /\ field = "tenantId" => n.tenantId = v
  BY DEF Narrowed, Filter!Home, Filter!OVERVIEW_FIELDS, Filter!FACETS
<1>. HIDE DEF n
<1>3. /\ p.level = Filter!parseLevelToken(n.level)
      /\ p.logKey = n.logKey /\ p.service = n.service /\ p.tenantId = n.tenantId
      /\ p.traceId = n.traceId /\ p.requestId = n.requestId /\ p.q = n.q /\ p.role = n.role
  BY QueryFields
<1>. HIDE DEF q, p
<1>. SUFFICES Filter!Satisfies(row, Filter!ListWhere(p))
                <=> Filter!Satisfies(row, Filter!ListWhere(q)) /\ row[field] = v
  BY DEF n, p, q
<1>4. ASSUME NEW r
      PROVE  /\ Filter!Satisfies(r, Filter!ListWhere(q)) <=>
                  /\ LevelAdmits(r, q.level) /\ Key(r, q.logKey) /\ Has(r, "service", q.service)
                  /\ Has(r, "traceId", q.traceId) /\ Has(r, "requestId", q.requestId)
                  /\ Text(r) /\ Has(r, "tenantId", Filter!Tenant(q, old))
             /\ Filter!Satisfies(r, Filter!ListWhere(p)) <=>
                  /\ LevelAdmits(r, p.level) /\ Key(r, p.logKey) /\ Has(r, "service", p.service)
                  /\ Has(r, "traceId", p.traceId) /\ Has(r, "requestId", p.requestId)
                  /\ Admits(r, "message", p.q, Filter!Insensitive(p.q))
                  /\ Has(r, "tenantId", Filter!Tenant(p, new))
  BY WhereAdmits DEF Filter!ListWhere, ListAdmits
<1>5. field # "tenantId" => Filter!Tenant(p, new) = Filter!Tenant(q, old)
  BY <1>2, <1>3, <1>1 DEF Filter!Tenant, Filter!Restriction, Filter!toRestriction
<1>6. field = "tenantId" => Filter!Tenant(p, new) = v
  BY <1>2, <1>3, <1>1 DEF Filter!Tenant, Filter!Restriction, Filter!toRestriction, IsValue
<1>. HIDE DEF old, new
<1>7. ASSUME NEW r, NEW f, NEW w, w # Filter!Unset PROVE Has(r, f, w) <=> r[f] = w
  BY <1>7 DEF Admits
<1>8. ASSUME NEW f, NEW w, seen[f] = v, Has(seen, f, w), row[f] = v PROVE Has(row, f, w)
  BY <1>8 DEF Admits
<1>9. /\ LevelAdmits(seen, q.level) /\ Key(seen, q.logKey) /\ Has(seen, "service", q.service)
       /\ Has(seen, "traceId", q.traceId) /\ Has(seen, "requestId", q.requestId)
       /\ Has(seen, "tenantId", Filter!Tenant(q, old))
  BY <1>4 DEF q
<1>10. /\ Filter!Satisfies(row, Filter!ListWhere(q)) <=>
            /\ LevelAdmits(row, q.level) /\ Key(row, q.logKey) /\ Has(row, "service", q.service)
            /\ Has(row, "traceId", q.traceId) /\ Has(row, "requestId", q.requestId)
            /\ Text(row) /\ Has(row, "tenantId", Filter!Tenant(q, old))
       /\ Filter!Satisfies(row, Filter!ListWhere(p)) <=>
            /\ LevelAdmits(row, p.level) /\ Key(row, p.logKey) /\ Has(row, "service", p.service)
            /\ Has(row, "traceId", p.traceId) /\ Has(row, "requestId", p.requestId)
            /\ Text(row) /\ Has(row, "tenantId", Filter!Tenant(p, new))
  BY <1>2, <1>3, <1>4, <1>1
<1>11. /\ field # "level" => p.level = q.level
       /\ field # "logKey" => p.logKey = q.logKey
       /\ field = "logKey" => p.logKey = v
       /\ field # "service" => p.service = q.service
       /\ field = "service" => p.service = v
       /\ field # "traceId" => p.traceId = q.traceId
       /\ field = "traceId" => p.traceId = v
       /\ field # "requestId" => p.requestId = q.requestId
       /\ field = "requestId" => p.requestId = v
  BY <1>2, <1>3, <1>1
<1>12. CASE field = "level"
  <2>. DEFINE is == <<"", v>>
  <2>1. /\ is[1] = "" /\ is[2] = v /\ is = <<is[1], is[2]>> /\ v # ""
        /\ v \in Filter!Level
    BY <1>12 DEF IsValue, Filter!Unset
  <2>2. is # Filter!NoLevel
    BY <2>1 DEF Filter!NoLevel
  <2>. HIDE DEF is
  <2>3. n.level = is
    BY <1>1, <1>12 DEF is
  <2>4. p.level = is
    BY <1>3, <2>1, <2>3 DEF Filter!parseLevelToken
  <2>5. LevelAdmits(row, p.level) <=> row.level = v
    BY <2>1, <2>2, <2>4 DEF LevelAdmits, Filter!Levels
  <2>6. LevelAdmits(seen, q.level) => (row.level = v => LevelAdmits(row, q.level))
    BY <1>12 DEF LevelAdmits
  <2>. HIDE DEF Key, Has, Text
  <2>. QED BY <1>5, <1>9, <1>10, <1>11, <1>12, <2>5, <2>6
<1>13. CASE field = "logKey"
  <2>1. Key(row, v) <=> row.logKey = v
    BY <1>13 DEF KeyAdmits, Admits, IsValue, Filter!endsWithStar, Filter!Wildcards, Filter!LogKeys
  <2>2. Key(seen, q.logKey) => (row.logKey = v => Key(row, q.logKey))
    BY <1>13 DEF KeyAdmits, Admits
  <2>. HIDE DEF Key, Has, Text
  <2>. QED BY <1>5, <1>9, <1>10, <1>11, <1>13, <2>1, <2>2
<1>14. CASE field = "service"
  <2>1. Has(row, "service", v) <=> row.service = v
    BY <1>7 DEF IsValue
  <2>2. Has(seen, "service", q.service) => (row.service = v => Has(row, "service", q.service))
    BY <1>8, <1>14
  <2>. HIDE DEF Key, Has, Text
  <2>. QED BY <1>5, <1>9, <1>10, <1>11, <1>14, <2>1, <2>2
<1>15. CASE field = "traceId"
  <2>1. Has(row, "traceId", v) <=> row.traceId = v
    BY <1>7 DEF IsValue
  <2>2. Has(seen, "traceId", q.traceId) => (row.traceId = v => Has(row, "traceId", q.traceId))
    BY <1>8, <1>15
  <2>. HIDE DEF Key, Has, Text
  <2>. QED BY <1>5, <1>9, <1>10, <1>11, <1>15, <2>1, <2>2
<1>16. CASE field = "requestId"
  <2>1. Has(row, "requestId", v) <=> row.requestId = v
    BY <1>7 DEF IsValue
  <2>2. Has(seen, "requestId", q.requestId) =>
          (row.requestId = v => Has(row, "requestId", q.requestId))
    BY <1>8, <1>16
  <2>. HIDE DEF Key, Has, Text
  <2>. QED BY <1>5, <1>9, <1>10, <1>11, <1>16, <2>1, <2>2
<1>17. CASE field = "tenantId"
  <2>1. Has(row, "tenantId", v) <=> row.tenantId = v
    BY <1>7 DEF IsValue
  <2>2. Has(seen, "tenantId", Filter!Tenant(q, old)) =>
          (row.tenantId = v => Has(row, "tenantId", Filter!Tenant(q, old)))
    BY <1>8, <1>17
  <2>. HIDE DEF Key, Has, Text
  <2>. QED BY <1>6, <1>9, <1>10, <1>11, <1>17, <2>1, <2>2
<1>. QED
  BY <1>12, <1>13, <1>14, <1>15, <1>16, <1>17 DEF Filter!OVERVIEW_FIELDS, Filter!FACETS

\* The window does not depend on the fields that are narrowed.
LEMMA NarrowedWindow ==
  ASSUME NEW u, DOMAIN u = DOMAIN Filter!Home, NEW field \in Filter!OVERVIEW_FIELDS, NEW v
  PROVE  LET q == Filter!useLogQuery(u)
             p == Filter!useLogQuery(Narrowed(u, field, v))
         IN  Filter!Window(p, Filter!now, Filter!HOUR) = Filter!Window(q, Filter!now, Filter!HOUR)
<1>. DEFINE n == Narrowed(u, field, v)
            q == Filter!useLogQuery(u)
            p == Filter!useLogQuery(n)
<1>1. n.range = u.range /\ n.from = u.from /\ n.to = u.to
  BY DEF Narrowed, Filter!Home, Filter!OVERVIEW_FIELDS, Filter!FACETS
<1>. HIDE DEF n
<1>2. p.from = q.from /\ p.to = q.to
  BY <1>1 DEF Filter!useLogQuery
<1>. HIDE DEF p, q
<1>3. Filter!Window(p, Filter!now, Filter!HOUR) = Filter!Window(q, Filter!now, Filter!HOUR)
  BY <1>2 DEF Filter!Window
<1>. QED BY <1>3 DEF n, p, q

LEMMA SumLevelsIs ==
  ASSUME NEW bars, NEW levels
  PROVE  LET S == {bar \in bars : bar.level \in levels}
         IN  Filter!sumLevels(bars, levels) = SumOver(S, [b \in S |-> b.n])
<1>. DEFINE S == {bar \in bars : bar.level \in levels}
            h == [b \in S |-> b.n]
            Step(g) == [s \in SUBSET S |->
                          IF s = {} THEN 0
                          ELSE (CHOOSE x \in s : TRUE).n + g[s \ {CHOOSE x \in s : TRUE}]]
<1>1. Filter!sumLevels(bars, levels) = (CHOOSE g : g = Step(g))[S]
  BY DEF Filter!sumLevels, Filter!MapThenSumSet, Filter!MapThenFoldSet
<1>2. ASSUME NEW g PROVE Sums(g, S, h) <=> g = Step(g)
  <2>1. \A s \in SUBSET S : s # {} => h[CHOOSE x \in s : TRUE] = (CHOOSE x \in s : TRUE).n
    OBVIOUS
  <2>. HIDE DEF h, S
  <2>. QED BY <2>1 DEF Sums
<1>. HIDE DEF Step, h, S
<1>3. (CHOOSE g : g = Step(g)) = (CHOOSE g : Sums(g, S, h))
  BY <1>2
<1>. QED BY <1>1, <1>3 DEF SumOver, S, h

LEMMA SumHeightsIs ==
  ASSUME NEW S
  PROVE  Filter!sumHeights(S) = SumOver(S, [p \in S |-> p.height])
<1>. DEFINE h == [p \in S |-> p.height]
            Step(g) == [s \in SUBSET S |->
                          IF s = {} THEN 0
                          ELSE (CHOOSE x \in s : TRUE).height + g[s \ {CHOOSE x \in s : TRUE}]]
<1>1. Filter!sumHeights(S) = (CHOOSE g : g = Step(g))[S]
  BY DEF Filter!sumHeights, Filter!MapThenSumSet, Filter!MapThenFoldSet
<1>2. ASSUME NEW g PROVE Sums(g, S, h) <=> g = Step(g)
  <2>1. \A s \in SUBSET S : s # {} => h[CHOOSE x \in s : TRUE] = (CHOOSE x \in s : TRUE).height
    OBVIOUS
  <2>. HIDE DEF h
  <2>. QED BY <2>1 DEF Sums
<1>. HIDE DEF Step, h
<1>3. (CHOOSE g : g = Step(g)) = (CHOOSE g : Sums(g, S, h))
  BY <1>2
<1>. QED BY <1>1, <1>3 DEF SumOver, h

LEMMA SumCountsIs ==
  ASSUME NEW S
  PROVE  Filter!sumCounts(S) = SumOver(S, [f \in S |-> f.count])
<1>. DEFINE h == [f \in S |-> f.count]
            Step(g) == [s \in SUBSET S |->
                          IF s = {} THEN 0
                          ELSE (CHOOSE x \in s : TRUE).count + g[s \ {CHOOSE x \in s : TRUE}]]
<1>1. Filter!sumCounts(S) = (CHOOSE g : g = Step(g))[S]
  BY DEF Filter!sumCounts, Filter!MapThenSumSet, Filter!MapThenFoldSet
<1>2. ASSUME NEW g PROVE Sums(g, S, h) <=> g = Step(g)
  <2>1. \A s \in SUBSET S : s # {} => h[CHOOSE x \in s : TRUE] = (CHOOSE x \in s : TRUE).count
    OBVIOUS
  <2>. HIDE DEF h
  <2>. QED BY <2>1 DEF Sums
<1>. HIDE DEF Step, h
<1>3. (CHOOSE g : g = Step(g)) = (CHOOSE g : Sums(g, S, h))
  BY <1>2
<1>. QED BY <1>1, <1>3 DEF SumOver, h

LEMMA FilterCardinality == \A S : Filter!Cardinality(S) = Cardinality(S)
BY DEF Filter!Cardinality, Cardinality

\* A bar counts the lines of its bucket and its level.
LinesOf(lines, unit, bar) ==
  {r \in lines : Filter!date_trunc(unit, r.time) = bar.bucket /\ r.level = bar.level}

LEMMA BarShape ==
  ASSUME NEW lines, NEW window, NEW bucket, NEW bar \in Filter!volume(lines, window, bucket)
  PROVE  \E s \in lines, r \in lines :
           /\ bar = [bucket |-> Filter!date_trunc(bucket.unit, s.time), level |-> r.level,
                     n |-> Cardinality(LinesOf(lines, bucket.unit, bar))]
           /\ bar.bucket = Filter!date_trunc(bucket.unit, s.time) /\ bar.level = r.level
           /\ bar.n = Cardinality(LinesOf(lines, bucket.unit, bar))
           /\ Filter!InSeries(bar.bucket, window, bucket.interval)
<1>1. PICK s \in lines, r \in lines :
        /\ Filter!InSeries(Filter!date_trunc(bucket.unit, s.time), window, bucket.interval)
        /\ bar = [bucket |-> Filter!date_trunc(bucket.unit, s.time), level |-> r.level,
                  n |-> Filter!Cardinality({x \in lines :
                          /\ Filter!date_trunc(bucket.unit, x.time)
                               = Filter!date_trunc(bucket.unit, s.time)
                          /\ x.level = r.level})]
  BY DEF Filter!volume
<1>2. bar.bucket = Filter!date_trunc(bucket.unit, s.time) /\ bar.level = r.level
  BY <1>1
<1>3. bar.n = Filter!Cardinality(LinesOf(lines, bucket.unit, bar))
  BY <1>1, <1>2 DEF LinesOf
<1>4. bar = [bucket |-> bar.bucket, level |-> bar.level, n |-> bar.n]
  BY <1>1
<1>5. Filter!Cardinality(LinesOf(lines, bucket.unit, bar))
        = Cardinality(LinesOf(lines, bucket.unit, bar))
  BY FilterCardinality
<1>. QED BY <1>1, <1>2, <1>3, <1>4, <1>5

\* Bars add up to the lines they count.
LEMMA BarsCount ==
  ASSUME NEW lines, IsFiniteSet(lines), NEW window, NEW bucket,
         NEW bars \in SUBSET Filter!volume(lines, window, bucket)
  PROVE  /\ IsFiniteSet(bars)
         /\ SumOver(bars, [b \in bars |-> b.n])
              = Cardinality(UNION {LinesOf(lines, bucket.unit, bar) : bar \in bars})
<1>. DEFINE All == Filter!volume(lines, window, bucket)
            Made(s, r) == [bucket |-> Filter!date_trunc(bucket.unit, s.time), level |-> r.level]
            f == [p \in lines \X lines |->
                    [bucket |-> Filter!date_trunc(bucket.unit, p[1].time), level |-> p[2].level,
                     n |-> Cardinality(LinesOf(lines, bucket.unit, Made(p[1], p[2])))]]
            F == [bar \in bars |-> LinesOf(lines, bucket.unit, bar)]
            h == [b \in bars |-> b.n]
<1>1. IsFiniteSet(bars)
  <2>1. IsFiniteSet(lines \X lines)
    BY FS_Product
  <2>2. \A bar \in All : \E p \in lines \X lines : bar = f[p]
    <3>. SUFFICES ASSUME NEW bar \in All PROVE \E p \in lines \X lines : bar = f[p]
      OBVIOUS
    <3>1. PICK s \in lines, r \in lines :
            /\ bar = [bucket |-> Filter!date_trunc(bucket.unit, s.time), level |-> r.level,
                      n |-> Cardinality(LinesOf(lines, bucket.unit, bar))]
            /\ bar.bucket = Filter!date_trunc(bucket.unit, s.time) /\ bar.level = r.level
      BY BarShape
    <3>2. LinesOf(lines, bucket.unit, bar) = LinesOf(lines, bucket.unit, Made(s, r))
      BY <3>1 DEF LinesOf
    <3>3. <<s, r>> \in lines \X lines
      OBVIOUS
    <3>4. f[<<s, r>>] = [bucket |-> Filter!date_trunc(bucket.unit, s.time), level |-> r.level,
                         n |-> Cardinality(LinesOf(lines, bucket.unit, Made(s, r)))]
      BY <3>3
    <3>. HIDE DEF f, Made
    <3>5. bar = f[<<s, r>>]
      BY <3>1, <3>2, <3>4
    <3>. QED BY <3>3, <3>5
  <2>. HIDE DEF All, f
  <2>3. IsFiniteSet(All)
    BY <2>1, <2>2, ImageIsFinite
  <2>. QED BY <2>3, FS_Subset DEF All
<1>2. \A bar \in bars : IsFiniteSet(F[bar])
  BY FS_Subset DEF LinesOf
<1>3. \A x, y \in bars : x # y => F[x] \cap F[y] = {}
  <2>. SUFFICES ASSUME NEW x \in bars, NEW y \in bars, NEW r \in F[x] \cap F[y] PROVE x = y
    OBVIOUS
  <2>1. x.bucket = y.bucket /\ x.level = y.level
    BY DEF LinesOf
  <2>2. LinesOf(lines, bucket.unit, x) = LinesOf(lines, bucket.unit, y)
    BY <2>1 DEF LinesOf
  <2>3. x \in All /\ y \in All
    OBVIOUS
  <2>. HIDE DEF F, All
  <2>4. x = [bucket |-> x.bucket, level |-> x.level, n |-> Cardinality(LinesOf(lines, bucket.unit, x))]
    BY <2>3, BarShape DEF All
  <2>5. y = [bucket |-> y.bucket, level |-> y.level, n |-> Cardinality(LinesOf(lines, bucket.unit, y))]
    BY <2>3, BarShape DEF All
  <2>. QED BY <2>1, <2>2, <2>4, <2>5
<1>4. h \in [bars -> Int] /\ \A bar \in bars : h[bar] = Cardinality(F[bar])
  <2>1. \A bar \in bars : bar.n = Cardinality(LinesOf(lines, bucket.unit, bar))
    BY BarShape
  <2>2. \A bar \in bars : h[bar] = Cardinality(F[bar])
    BY <2>1
  <2>3. \A bar \in bars : h[bar] = bar.n
    OBVIOUS
  <2>. HIDE DEF F
  <2>4. \A bar \in bars : Cardinality(F[bar]) \in Nat
    BY <1>2, FS_CardinalityType
  <2>. QED BY <2>2, <2>4
<1>5. {F[bar] : bar \in bars} = {LinesOf(lines, bucket.unit, bar) : bar \in bars}
  OBVIOUS
<1>. HIDE DEF F, h
<1>6. SumOver(bars, h) = Cardinality(UNION {F[bar] : bar \in bars})
  BY <1>1, <1>2, <1>3, <1>4, SumOverCounts
<1>. QED BY <1>1, <1>5, <1>6 DEF h

\* Lines in a window that starts on a bucket, in buckets as long as bars: each is in
\* the bar of its bucket and its level.
OnBuckets(lines, window, bucket) ==
  /\ window.from \in Int /\ window.to \in Int
  /\ bucket.unit \in Nat \ {0} /\ bucket.interval = bucket.unit
  /\ window.from % bucket.unit = 0
  /\ \A r \in lines : r.time \in window.from .. window.to

LEMMA LinesHaveBars ==
  ASSUME NEW lines, NEW window, NEW bucket, OnBuckets(lines, window, bucket), NEW r \in lines
  PROVE  \E bar \in Filter!volume(lines, window, bucket) :
           r \in LinesOf(lines, bucket.unit, bar) /\ bar.level = r.level
<1>. DEFINE c == Filter!date_trunc(bucket.unit, r.time)
            N(b, l) == Filter!Cardinality({x \in lines :
                         /\ Filter!date_trunc(bucket.unit, x.time) = b /\ x.level = l})
            D == {d \in {Filter!date_trunc(bucket.unit, x.time) : x \in lines} :
                    Filter!InSeries(d, window, bucket.interval)}
            bar == [bucket |-> c, level |-> r.level, n |-> N(c, r.level)]
<1>1. Filter!InSeries(c, window, bucket.interval)
  <2>1. /\ r.time - (r.time % bucket.unit) \in window.from .. window.to
        /\ ((r.time - (r.time % bucket.unit)) - window.from) % bucket.unit = 0
    BY BucketInSeries DEF OnBuckets
  <2>. QED BY <2>1 DEF Filter!InSeries, Filter!date_trunc, OnBuckets
<1>2. c \in D
  BY <1>1
<1>3. Filter!volume(lines, window, bucket)
        = {[bucket |-> b, level |-> row.level, n |-> N(b, row.level)] : b \in D, row \in lines}
  BY DEF Filter!volume
<1>4. bar.bucket = c /\ bar.level = r.level
  OBVIOUS
<1>. HIDE DEF D, N, c
<1>5. bar \in Filter!volume(lines, window, bucket)
  BY <1>2, <1>3
<1>. HIDE DEF bar
<1>6. r \in LinesOf(lines, bucket.unit, bar)
  BY <1>4 DEF LinesOf, c
<1>. QED BY <1>4, <1>5, <1>6

LEMMA LevelsCount ==
  ASSUME NEW lines, IsFiniteSet(lines), NEW window, NEW bucket, OnBuckets(lines, window, bucket),
         NEW levels
  PROVE  Filter!sumLevels(Filter!volume(lines, window, bucket), levels)
           = Cardinality({r \in lines : r.level \in levels})
<1>. DEFINE bars == Filter!volume(lines, window, bucket)
            S == {bar \in bars : bar.level \in levels}
<1>1. SumOver(S, [b \in S |-> b.n])
        = Cardinality(UNION {LinesOf(lines, bucket.unit, bar) : bar \in S})
  <2>1. S \in SUBSET Filter!volume(lines, window, bucket)
    OBVIOUS
  <2>. HIDE DEF S
  <2>. QED BY <2>1, BarsCount
<1>2. \A r \in lines : \E bar \in bars : r \in LinesOf(lines, bucket.unit, bar) /\ bar.level = r.level
  BY LinesHaveBars
<1>3. \A bar, r : r \in LinesOf(lines, bucket.unit, bar) => r \in lines /\ r.level = bar.level
  BY DEF LinesOf
<1>4. Filter!sumLevels(bars, levels) = SumOver(S, [b \in S |-> b.n])
  BY SumLevelsIs
<1>. HIDE DEF bars
<1>5. UNION {LinesOf(lines, bucket.unit, bar) : bar \in S} = {r \in lines : r.level \in levels}
  BY <1>2, <1>3
<1>. HIDE DEF S
<1>. QED BY <1>1, <1>4, <1>5 DEF bars

\* The stacks of the volume panel hold each line once.
LEMMA StacksCount ==
  ASSUME NEW lines, IsFiniteSet(lines), NEW window, NEW bucket, OnBuckets(lines, window, bucket)
  PROVE  Filter!sumHeights(Filter!pivotVolume(Filter!volume(lines, window, bucket)))
           = Cardinality(lines)
<1>. DEFINE bars == Filter!volume(lines, window, bucket)
            Of(b) == {bar \in bars : bar.bucket = b}
            stacks == Filter!pivotVolume(bars)
            Lines_(b) == {r \in lines : Filter!date_trunc(bucket.unit, r.time) = b}
            F == [p \in stacks |-> Lines_(p.bucket)]
            h == [p \in stacks |-> p.height]
<1>1. IsFiniteSet(bars)
  BY BarsCount
<1>2. \A r \in lines : \E bar \in bars : r \in LinesOf(lines, bucket.unit, bar) /\ bar.level = r.level
  BY LinesHaveBars
<1>3. ASSUME NEW b
      PROVE  Filter!sumLevels(Of(b), {bar.level : bar \in bars}) = Cardinality(Lines_(b))
  <2>. DEFINE S == {bar \in Of(b) : bar.level \in {x.level : x \in bars}}
  <2>1. S \in SUBSET Filter!volume(lines, window, bucket)
    OBVIOUS
  <2>2. SumOver(S, [x \in S |-> x.n])
          = Cardinality(UNION {LinesOf(lines, bucket.unit, bar) : bar \in S})
    <3>. HIDE DEF S
    <3>. QED BY <2>1, BarsCount
  <2>3. Filter!sumLevels(Of(b), {bar.level : bar \in bars}) = SumOver(S, [x \in S |-> x.n])
    BY SumLevelsIs
  <2>4. UNION {LinesOf(lines, bucket.unit, bar) : bar \in S} = Lines_(b)
    <3>. HIDE DEF bars
    <3>1. \A bar \in S : bar.bucket = b /\ bar \in bars
      OBVIOUS
    <3>2. \A bar \in bars : bar.bucket = b => bar \in S
      OBVIOUS
    <3>. HIDE DEF S
    <3>. QED BY <1>2, <3>1, <3>2 DEF LinesOf
  <2>. HIDE DEF S, Of, Lines_
  <2>. QED BY <2>2, <2>3, <2>4
<1>. HIDE DEF bars
<1>4. \A p \in stacks : \E bar \in bars :
        /\ p = [bucket |-> bar.bucket, height |-> Cardinality(Lines_(bar.bucket))]
        /\ p.bucket = bar.bucket /\ p.height = Cardinality(Lines_(bar.bucket))
  <2>. SUFFICES ASSUME NEW p \in stacks
                PROVE  \E bar \in bars :
                  /\ p = [bucket |-> bar.bucket, height |-> Cardinality(Lines_(bar.bucket))]
                  /\ p.bucket = bar.bucket /\ p.height = Cardinality(Lines_(bar.bucket))
    OBVIOUS
  <2>1. PICK bar \in bars :
          p = [bucket |-> bar.bucket,
               height |-> Filter!sumLevels(Of(bar.bucket), {x.level : x \in bars})]
    BY DEF Filter!pivotVolume
  <2>. HIDE DEF Of, Lines_
  <2>. QED BY <1>3, <2>1
<1>5. \A bar \in bars : \E p \in stacks : p.bucket = bar.bucket
  <2>. TAKE bar \in bars
  <2>. DEFINE p == [bucket |-> bar.bucket,
                    height |-> Filter!sumLevels(Of(bar.bucket), {x.level : x \in bars})]
  <2>1. p \in stacks
    BY DEF Filter!pivotVolume
  <2>2. p.bucket = bar.bucket
    OBVIOUS
  <2>. QED BY <2>1, <2>2
<1>. HIDE DEF stacks
<1>6. IsFiniteSet(stacks)
  <2>. DEFINE f == [bar \in bars |->
                      [bucket |-> bar.bucket, height |-> Cardinality(Lines_(bar.bucket))]]
  <2>1. \A p \in stacks : \E bar \in bars : p = f[bar]
    BY <1>4
  <2>. HIDE DEF f
  <2>. QED BY <1>1, <2>1, ImageIsFinite
<1>7. \A p \in stacks : IsFiniteSet(F[p])
  BY FS_Subset
<1>8. \A p, q \in stacks : p # q => F[p] \cap F[q] = {}
  <2>. SUFFICES ASSUME NEW p \in stacks, NEW q \in stacks, p.bucket = q.bucket PROVE p = q
    OBVIOUS
  <2>. HIDE DEF Lines_
  <2>. QED BY <1>4
<1>9. h \in [stacks -> Int] /\ \A p \in stacks : h[p] = Cardinality(F[p])
  <2>1. \A p \in stacks : h[p] = p.height /\ F[p] = Lines_(p.bucket)
    OBVIOUS
  <2>2. \A p \in stacks : h[p] = Cardinality(F[p])
    <3>. HIDE DEF Lines_, h, F
    <3>. QED BY <1>4, <2>1
  <2>. HIDE DEF F
  <2>3. \A p \in stacks : Cardinality(F[p]) \in Nat
    BY <1>7, FS_CardinalityType
  <2>. QED BY <2>2, <2>3
<1>10. UNION {F[p] : p \in stacks} = lines
  <2>1. \A r \in lines : \E p \in stacks : r \in F[p]
    <3>. TAKE r \in lines
    <3>1. PICK bar \in bars : Filter!date_trunc(bucket.unit, r.time) = bar.bucket
      BY <1>2 DEF LinesOf
    <3>2. PICK p \in stacks : p.bucket = bar.bucket
      BY <1>5
    <3>. QED BY <3>1, <3>2
  <2>2. \A p \in stacks : F[p] \subseteq lines
    OBVIOUS
  <2>. HIDE DEF F
  <2>. QED BY <2>1, <2>2
<1>. HIDE DEF F, h
<1>11. SumOver(stacks, h) = Cardinality(UNION {F[p] : p \in stacks})
  BY <1>6, <1>7, <1>8, <1>9, SumOverCounts
<1>12. Filter!sumHeights(stacks) = SumOver(stacks, h)
  BY SumHeightsIs DEF h
<1>. QED BY <1>10, <1>11, <1>12 DEF stacks, bars

LEMMA FilterMin ==
  ASSUME NEW a \in Int, NEW b \in Int
  PROVE  Filter!Min({a, b}) = IF a <= b THEN a ELSE b
BY DEF Filter!Min

\* The facets of a set of lines by tenant; with their counts they add up to the lines
\* that have the value.
CountedAs(lines, f) == {row \in lines : row.tenantId = f.value}
Facet(lines, v) == [value |-> v, count |-> Cardinality({row \in lines : row.tenantId = v})]

LEMMA FacetFields ==
  \A lines, v : /\ Facet(lines, v).value = v
                /\ Facet(lines, v).count = Cardinality(CountedAs(lines, Facet(lines, v)))
<1>. TAKE lines, v
<1>1. /\ Facet(lines, v).value = v
      /\ Facet(lines, v).count = Cardinality({row \in lines : row.tenantId = v})
  BY DEF Facet
<1>2. CountedAs(lines, Facet(lines, v)) = {row \in lines : row.tenantId = v}
  BY <1>1 DEF CountedAs
<1>. QED BY <1>1, <1>2

LEMMA FacetsAddUp ==
  ASSUME NEW lines, IsFiniteSet(lines), NEW values, IsFiniteSet(values),
         NEW S \in SUBSET {Facet(lines, v) : v \in values}
  PROVE  /\ IsFiniteSet(S)
         /\ Filter!sumCounts(S) = Cardinality(UNION {CountedAs(lines, f) : f \in S})
<1>. DEFINE h == [f \in S |-> f.count]
            F == [f \in S |-> CountedAs(lines, f)]
            m == [v \in values |-> Facet(lines, v)]
<1>1. \A f \in S : /\ f = Facet(lines, f.value)
                   /\ f.count = Cardinality(CountedAs(lines, f))
  <2>. TAKE f \in S
  <2>1. PICK v \in values : f = Facet(lines, v)
    OBVIOUS
  <2>. QED BY <2>1, FacetFields
<1>2. IsFiniteSet(S)
  <2>1. \A f \in S : \E v \in values : f = m[v]
    OBVIOUS
  <2>. HIDE DEF m
  <2>. QED BY <2>1, ImageIsFinite
<1>3. \A f \in S : IsFiniteSet(F[f])
  BY FS_Subset DEF CountedAs
<1>4. \A f, g \in S : f # g => F[f] \cap F[g] = {}
  <2>. SUFFICES ASSUME NEW f \in S, NEW g \in S, NEW r \in F[f] \cap F[g] PROVE f = g
    OBVIOUS
  <2>1. f.value = g.value
    BY DEF CountedAs
  <2>. QED BY <1>1, <2>1
<1>5. h \in [S -> Int] /\ \A f \in S : h[f] = Cardinality(F[f])
  <2>1. \A f \in S : h[f] = Cardinality(F[f])
    BY <1>1
  <2>. HIDE DEF F
  <2>2. \A f \in S : Cardinality(F[f]) \in Nat
    BY <1>3, FS_CardinalityType
  <2>. QED BY <2>1, <2>2
<1>6. {F[f] : f \in S} = {CountedAs(lines, f) : f \in S}
  OBVIOUS
<1>. HIDE DEF F, h
<1>7. SumOver(S, h) = Cardinality(UNION {F[f] : f \in S})
  BY <1>2, <1>3, <1>4, <1>5, SumOverCounts
<1>8. Filter!sumCounts(S) = SumOver(S, h)
  BY SumCountsIs DEF h
<1>. QED BY <1>2, <1>6, <1>7, <1>8

\* The bars of the tenants: those that are kept and the one of the others.
LEMMA RolledUp ==
  ASSUME NEW lines, IsFiniteSet(lines), NEW values, IsFiniteSet(values),
         NEW facets, facets = {Facet(lines, v) : v \in values}, NEW N \in Nat
  PROVE  LET bars == Filter!rollupOther(facets, N)
         IN  /\ Filter!sumCounts(bars.top) + bars.other
                  = Cardinality({row \in lines : row.tenantId \in values})
<1>. DEFINE Beats(top) == \A f \in top, g \in facets \ top : f.count >= g.count
            Kept(top) == Cardinality(top) = Filter!Min({N, Cardinality(facets)}) /\ Beats(top)
            kept == CHOOSE top \in SUBSET facets : Kept(top)
            Rows(S) == UNION {CountedAs(lines, f) : f \in S}
<1>1. IsFiniteSet(facets)
  BY FacetsAddUp
<1>2. \A f \in facets : f.count \in Int
  <2>. TAKE f \in facets
  <2>1. PICK v \in values : f = Facet(lines, v)
    OBVIOUS
  <2>2. IsFiniteSet(CountedAs(lines, f))
    BY FS_Subset DEF CountedAs
  <2>3. Cardinality(CountedAs(lines, f)) \in Nat
    BY <2>2, FS_CardinalityType
  <2>. QED BY <2>1, <2>3, FacetFields
<1>3. \E top \in SUBSET facets : Kept(top)
  <2>. DEFINE c == [f \in facets |-> f.count]
              n == Filter!Min({N, Cardinality(facets)})
  <2>1. Cardinality(facets) \in Nat
    BY <1>1, FS_CardinalityType
  <2>2. n \in Nat /\ n <= Cardinality(facets)
    BY <2>1, FilterMin
  <2>3. c \in [facets -> Int]
    BY <1>2
  <2>. HIDE DEF c, n
  <2>4. PICK top \in SUBSET facets :
          Cardinality(top) = n /\ \A f \in top, g \in facets \ top : c[f] >= c[g]
    BY <1>1, <2>2, <2>3, TopExists
  <2>. QED BY <2>4 DEF c, n
<1>4. kept \in SUBSET facets
  <2>. HIDE DEF Kept
  <2>. QED BY <1>3
<1>5. Filter!rollupOther(facets, N) = [top |-> kept, other |-> Filter!sumCounts(facets \ kept)]
  BY FilterCardinality DEF Filter!rollupOther
<1>. HIDE DEF kept
<1>6. /\ Filter!sumCounts(kept) = Cardinality(Rows(kept))
      /\ Filter!sumCounts(facets \ kept) = Cardinality(Rows(facets \ kept))
  <2>1. /\ kept \in SUBSET {Facet(lines, v) : v \in values}
        /\ facets \ kept \in SUBSET {Facet(lines, v) : v \in values}
    BY <1>4
  <2>2. Filter!sumCounts(kept) = Cardinality(Rows(kept))
    BY <2>1, FacetsAddUp
  <2>3. Filter!sumCounts(facets \ kept) = Cardinality(Rows(facets \ kept))
    BY <2>1, FacetsAddUp
  <2>. QED BY <2>2, <2>3
<1>7. Rows(kept) \cap Rows(facets \ kept) = {}
  <2>. SUFFICES ASSUME NEW f \in kept, NEW g \in facets \ kept,
                       NEW row \in CountedAs(lines, f), row \in CountedAs(lines, g)
                PROVE  FALSE
    OBVIOUS
  <2>1. f.value = g.value
    BY DEF CountedAs
  <2>2. PICK v \in values, w \in values : f = Facet(lines, v) /\ g = Facet(lines, w)
    BY <1>4
  <2>3. v = w
    BY <2>1, <2>2, FacetFields
  <2>. QED BY <2>2, <2>3
<1>8. Rows(kept) \cup Rows(facets \ kept) = {row \in lines : row.tenantId \in values}
  <2>1. \A row \in lines : row.tenantId \in values =>
          /\ Facet(lines, row.tenantId) \in facets
          /\ row \in CountedAs(lines, Facet(lines, row.tenantId))
    BY FacetFields DEF CountedAs
  <2>2. \A f \in facets : \A row \in CountedAs(lines, f) : row \in lines /\ row.tenantId \in values
    <3>. TAKE f \in facets
    <3>1. PICK v \in values : f = Facet(lines, v)
      OBVIOUS
    <3>. QED BY <3>1, FacetFields DEF CountedAs
  <2>. HIDE DEF Rows
  <2>3. \A S, row : row \in Rows(S) <=> \E f \in S : row \in CountedAs(lines, f)
    BY DEF Rows
  <2>. QED BY <1>4, <2>1, <2>2, <2>3
<1>9. IsFiniteSet(Rows(kept)) /\ IsFiniteSet(Rows(facets \ kept))
  <2>1. \A S : Rows(S) \in SUBSET lines
    BY DEF CountedAs
  <2>. HIDE DEF Rows
  <2>. QED BY <2>1, FS_Subset
<1>. HIDE DEF Rows
<1>10. Cardinality(Rows(kept) \cup Rows(facets \ kept))
         = Cardinality(Rows(kept)) + Cardinality(Rows(facets \ kept))
  <2>1. Cardinality(Rows(kept) \cap Rows(facets \ kept)) = 0
    BY <1>7, FS_EmptySet
  <2>2. Cardinality(Rows(kept)) \in Nat /\ Cardinality(Rows(facets \ kept)) \in Nat
    BY <1>9, FS_CardinalityType
  <2>3. Cardinality(Rows(kept) \cup Rows(facets \ kept))
          = Cardinality(Rows(kept)) + Cardinality(Rows(facets \ kept))
              - Cardinality(Rows(kept) \cap Rows(facets \ kept))
    BY <1>9, FS_Union
  <2>. QED BY <2>1, <2>2, <2>3
<1>11. /\ Filter!rollupOther(facets, N).top = kept
       /\ Filter!rollupOther(facets, N).other = Filter!sumCounts(facets \ kept)
  BY <1>5
<1>. QED BY <1>6, <1>8, <1>10, <1>11

\* The instants of the URL and of the clock are numbers.
UrlTimes == url.from \in Int /\ url.to \in Int /\ tick \in DOMAIN Clock

LEMMA WindowIsTime ==
  ASSUME UrlTimes
  PROVE  LET w == Filter!Window(Filter!query, Filter!now, Filter!HOUR)
         IN  w.from \in Int /\ w.to \in Int
<1>1. MINUTE \in Nat /\ MINUTE >= 2
  BY ChartsAssumption
<1>2. Filter!now \in Int
  BY FilterAssumption DEF UrlTimes, Filter!now
<1>3. Filter!HOUR \in Int
  BY <1>1 DEF Filter!HOUR
<1>4. Filter!now - (Filter!now % Filter!NOW_QUANTUM) \in Int
  BY <1>1, <1>2 DEF Filter!NOW_QUANTUM
<1>5. \A r \in Filter!RANGES : Filter!RANGE_MS[r] \in Int
  BY <1>1, <1>3 DEF Filter!RANGES, Filter!RANGE_MS
<1>. DEFINE u == url
<1>6. Filter!query.from \in Int /\ Filter!query.to \in Int
  <2>1. /\ Filter!query.from
             = IF url.range \in Filter!RANGES
               THEN (Filter!now - (Filter!now % Filter!NOW_QUANTUM)) - Filter!RANGE_MS[url.range]
               ELSE url.from
        /\ Filter!query.to
             = IF url.range \in Filter!RANGES
               THEN Filter!now - (Filter!now % Filter!NOW_QUANTUM)
               ELSE url.to
    BY DEF Filter!query, Filter!useLogQuery
  <2>. QED BY <1>4, <1>5, <2>1 DEF UrlTimes
<1>7. /\ Filter!Window(Filter!query, Filter!now, Filter!HOUR).from
           = IF Filter!query.from = 0 THEN Filter!now - Filter!HOUR ELSE Filter!query.from
      /\ Filter!Window(Filter!query, Filter!now, Filter!HOUR).to
           = IF Filter!query.to = 0 THEN Filter!now ELSE Filter!query.to
  BY DEF Filter!Window
<1>. QED BY <1>2, <1>3, <1>6, <1>7

\* The facets have every tenant that fits.
LEMMA AllTenants ==
  ASSUME NEW lines, IsFiniteSet(lines), NEW values, IsFiniteSet(values),
         Cardinality(values) <= TOP_N
  PROVE  \A v \in values :
           Cardinality({w \in values : Cardinality({row \in lines : row.tenantId = w})
                                         > Cardinality({row \in lines : row.tenantId = v})}) < TOP_N
<1>. DEFINE Count(v) == Cardinality({row \in lines : row.tenantId = v})
<1>. SUFFICES ASSUME NEW v \in values
              PROVE  Cardinality({w \in values : Count(w) > Count(v)}) < TOP_N
  OBVIOUS
<1>. DEFINE More == {w \in values : Count(w) > Count(v)}
<1>1. Count(v) \in Nat
  <2>1. IsFiniteSet({row \in lines : row.tenantId = v})
    BY FS_Subset
  <2>. QED BY <2>1, FS_CardinalityType
<1>. HIDE DEF Count
<1>2. v \notin More /\ More \in SUBSET (values \ {v})
  BY <1>1
<1>. HIDE DEF More
<1>3. IsFiniteSet(values \ {v}) /\ Cardinality(values \ {v}) = Cardinality(values) - 1
  BY FS_RemoveElement
<1>4. Cardinality(More) <= Cardinality(values \ {v}) /\ IsFiniteSet(More)
  BY <1>2, <1>3, FS_Subset
<1>5. Cardinality(More) \in Nat /\ Cardinality(values) \in Nat
  BY <1>4, FS_CardinalityType
<1>6. Cardinality(More) < TOP_N
  BY <1>3, <1>4, <1>5, ChartsAssumption
<1>. QED BY <1>6 DEF More

LEMMA TenantsCount ==
  LET owned == {row \in Filter!Rows(Filter!query) : row.tenantId # Filter!Unset}
  IN  Filter!Cardinality({row.tenantId : row \in owned}) <= TOP_N =>
        Filter!sumCounts(Filter!TenantBars.top) + Filter!TenantBars.other
          = Filter!Cardinality(owned)
<1>. DEFINE lines == Filter!Rows(Filter!query)
            owned == {row \in lines : row.tenantId # Filter!Unset}
            values == {row.tenantId : row \in owned}
            window == Filter!Window(Filter!query, Filter!now, Filter!HOUR)
            facets == Filter!facetCounts(Table, Filter!query, "tenantId", window, TOP_N)
<1>. SUFFICES ASSUME Filter!Cardinality(values) <= TOP_N
              PROVE  Filter!sumCounts(Filter!TenantBars.top) + Filter!TenantBars.other
                       = Filter!Cardinality(owned)
  OBVIOUS
<1>1. IsFiniteSet(lines)
  <2>1. lines \in SUBSET Table
    BY DEF Filter!Rows, Filter!Selected
  <2>. HIDE DEF lines
  <2>. QED BY <2>1, FS_Subset, FilterAssumption
<1>2. lines = Filter!Selected(Table, Filter!ListWhere(Filter!query), window)
  BY DEF Filter!Rows
<1>. HIDE DEF lines
<1>3. IsFiniteSet(values)
  <2>. DEFINE m == [row \in lines |-> row.tenantId]
  <2>1. \A v \in values : \E row \in lines : v = m[row]
    OBVIOUS
  <2>. HIDE DEF m, values
  <2>. QED BY <1>1, <2>1, ImageIsFinite
<1>4. facets = {Facet(lines, v) : v \in values}
  <2>. DEFINE Count(v) == Cardinality({row \in lines : row.tenantId = v})
              all == {row["tenantId"] : row \in lines} \ {Filter!Unset}
  <2>1. facets = {[value |-> v, count |-> Count(v)] :
                    v \in {v \in all : Cardinality({w \in all : Count(w) > Count(v)}) < TOP_N}}
    BY <1>2, FilterCardinality DEF Filter!facetCounts
  <2>2. all = values
    OBVIOUS
  <2>3. \A v : Facet(lines, v) = [value |-> v, count |-> Count(v)]
    BY DEF Facet
  <2>4. Cardinality(values) <= TOP_N
    BY FilterCardinality
  <2>. HIDE DEF values, all
  <2>5. \A v \in values : Cardinality({w \in values : Count(w) > Count(v)}) < TOP_N
    BY <1>1, <1>3, <2>4, AllTenants
  <2>. HIDE DEF Count, facets
  <2>. QED BY <2>1, <2>2, <2>3, <2>5
<1>. HIDE DEF facets
<1>5. Filter!sumCounts(Filter!rollupOther(facets, TopN).top) + Filter!rollupOther(facets, TopN).other
        = Cardinality({row \in lines : row.tenantId \in values})
  <2>. HIDE DEF values
  <2>. QED BY <1>1, <1>3, <1>4, RolledUp, ChartsAssumption
<1>6. {row \in lines : row.tenantId \in values} = owned
  OBVIOUS
<1>7. Filter!TenantBars = Filter!rollupOther(facets, TopN)
  BY DEF Filter!TenantBars, facets
<1>8. Filter!Cardinality(owned) = Cardinality(owned)
  BY FilterCardinality
<1>. HIDE DEF owned, values
<1>. QED BY <1>5, <1>6, <1>7, <1>8

LEMMA PanelsCount == UrlTimes => Filter!PanelsCountTheList
<1>. SUFFICES ASSUME UrlTimes PROVE Filter!PanelsCountTheList
  OBVIOUS
<1>. DEFINE window == Filter!Window(Filter!query, Filter!now, Filter!HOUR)
            bucket == Filter!resolveBucket(window.from, window.to)
            lines == Filter!Rows(Filter!query)
            bars == Filter!volume(lines, window, bucket)
<1>1. window.from \in Int /\ window.to \in Int
  BY WindowIsTime
<1>2. bucket.unit \in Nat \ {0}
  BY ChartsAssumption DEF Filter!resolveBucket, Filter!HOUR
<1>3. lines \in SUBSET Table /\ \A row \in lines : row.time \in window.from .. window.to
  BY DEF Filter!Rows, Filter!Selected
<1>4. IsFiniteSet(lines)
  <2>. HIDE DEF lines
  <2>. QED BY <1>3, FS_Subset, FilterAssumption
<1>5. ASSUME Filter!query.logKey # "PAY_*", window.from % bucket.unit = 0,
             bucket.unit = bucket.interval
      PROVE  /\ Filter!sumLevels(Filter!Bars, Filter!Level) = Filter!Cardinality(lines)
             /\ Filter!sumHeights(Filter!pivotVolume(Filter!Bars)) = Filter!Cardinality(lines)
             /\ \A l \in Filter!Level :
                  Filter!sumLevels({bar \in Filter!Bars : bar.level = l}, Filter!Level)
                    = Filter!Cardinality({row \in lines : row.level = l})
  <2>1. Filter!Bars = bars
    <3>1. Filter!Aggregated(Table, Filter!query, Filter!Restriction(Filter!query), window) = lines
      BY <1>5, AggregatesCountTheList DEF Filter!Rows
    <3>. QED BY <3>1 DEF Filter!Bars
  <2>2. OnBuckets(lines, window, bucket)
    BY <1>1, <1>2, <1>3, <1>5 DEF OnBuckets
  <2>3. \A row \in lines : row.level \in Filter!Level
    BY <1>3, FilterAssumption
  <2>. HIDE DEF lines, window, bucket
  <2>4. \A levels : Filter!sumLevels(bars, levels) = Cardinality({r \in lines : r.level \in levels})
    BY <1>4, <2>2, LevelsCount
  <2>5. Filter!sumHeights(Filter!pivotVolume(bars)) = Cardinality(lines)
    BY <1>4, <2>2, StacksCount
  <2>. HIDE DEF bars
  <2>6. {r \in lines : r.level \in Filter!Level} = lines
    BY <2>3
  <2>7. ASSUME NEW l \in Filter!Level
        PROVE  Filter!sumLevels({bar \in bars : bar.level = l}, Filter!Level)
                 = Cardinality({row \in lines : row.level = l})
    <3>. DEFINE S == {bar \in {b \in bars : b.level = l} : bar.level \in Filter!Level}
                R == {bar \in bars : bar.level \in {l}}
    <3>1. S = R
      OBVIOUS
    <3>2. Filter!sumLevels({bar \in bars : bar.level = l}, Filter!Level)
            = SumOver(S, [b \in S |-> b.n])
      BY SumLevelsIs
    <3>3. Filter!sumLevels(bars, {l}) = SumOver(R, [b \in R |-> b.n])
      BY SumLevelsIs
    <3>4. {row \in lines : row.level \in {l}} = {row \in lines : row.level = l}
      OBVIOUS
    <3>5. Filter!sumLevels(bars, {l}) = Cardinality({row \in lines : row.level \in {l}})
      BY <2>4
    <3>. HIDE DEF S, R
    <3>. QED BY <3>1, <3>2, <3>3, <3>4, <3>5
  <2>. QED BY <2>1, <2>4, <2>5, <2>6, <2>7, FilterCardinality
<1>. HIDE DEF lines, window, bucket
<1>. QED BY <1>5, TenantsCount DEF Filter!PanelsCountTheList, lines, window, bucket

\* The URL has a field for everything that the filter can name, and its times are numbers.
UrlInv == DOMAIN url = DOMAIN Filter!Home /\ UrlTimes

\* What a row or an entry says of itself can be put into the field, if the API takes it.
LEMMA ListedValue ==
  ASSUME UrlInv, NEW field \in Filter!OVERVIEW_FIELDS, NEW seen \in Table \cup LokiTable,
         seen[field] # Filter!Unset,
         Filter!Accepted(Filter!useLogQuery(Narrowed(url, field, seen[field])))
  PROVE  IsValue(field, seen[field])
<1>. DEFINE v == seen[field]
            n == Narrowed(url, field, v)
<1>1. seen.level \in Filter!Level /\ seen.logKey \in Filter!LogKeys
  BY FilterAssumption
<1>2. field = "logKey" => n.logKey = v
  BY DEF Narrowed, UrlInv, Filter!Home
<1>. HIDE DEF n
<1>3. field = "logKey" => Filter!logKeySchema(v)
  BY <1>2, QueryFields DEF Filter!Accepted, n
<1>. QED BY <1>1, <1>3 DEF IsValue

\* What LogsLokiService makes of the filter, in terms of the list without the free text.
LEMMA StreamOfUrl ==
  ASSUME NEW u, DOMAIN u = DOMAIN Filter!Home, NEW row
  PROVE  LET q == Filter!useLogQuery(u)
         IN  Filter!Satisfies(row, Filter!LokiList(q, Filter!Restriction(q), DefaultService)) <=>
               /\ row.service = IF u.service = Filter!Unset THEN DefaultService ELSE u.service
               /\ Filter!Satisfies(row,
                    Filter!ListWhere(Filter!useLogQuery([u EXCEPT !.q = Filter!Unset])))
               /\ Admits(row, "message", u.q, {msg \in Filter!Messages : msg = u.q})
<1>. DEFINE q == Filter!useLogQuery(u)
            u0 == [u EXCEPT !.q = Filter!Unset]
            q0 == Filter!useLogQuery(u0)
            restriction == Filter!Restriction(q)
            service == IF u.service = Filter!Unset THEN DefaultService ELSE u.service
            named == [q EXCEPT !.service = IF @ = Filter!Unset THEN DefaultService ELSE @]
<1>1. /\ IsQuery(q) /\ q.level = Filter!parseLevelToken(u.level)
      /\ q.logKey = u.logKey /\ q.service = u.service /\ q.tenantId = u.tenantId
      /\ q.traceId = u.traceId /\ q.requestId = u.requestId /\ q.q = u.q /\ q.role = u.role
  BY QueryFields
<1>2. /\ u0.level = u.level /\ u0.logKey = u.logKey /\ u0.service = u.service
      /\ u0.tenantId = u.tenantId /\ u0.traceId = u.traceId
      /\ u0.requestId = u.requestId /\ u0.q = Filter!Unset /\ u0.role = u.role
  BY DEF Filter!Home
<1>. HIDE DEF u0
<1>3. /\ q0.level = Filter!parseLevelToken(u0.level)
      /\ q0.logKey = u0.logKey /\ q0.service = u0.service /\ q0.tenantId = u0.tenantId
      /\ q0.traceId = u0.traceId /\ q0.requestId = u0.requestId /\ q0.q = u0.q
      /\ q0.role = u0.role
  BY QueryFields
<1>. HIDE DEF q, q0
<1>4. /\ named.level = q.level /\ named.logKey = q.logKey /\ named.traceId = q.traceId
      /\ named.requestId = q.requestId /\ named.q = q.q /\ named.tenantId = q.tenantId
      /\ named.service = service
  BY <1>1 DEF IsQuery, Fields
<1>5. Filter!LokiList(q, restriction, DefaultService) = Filter!buildLogQL(named, restriction)
  BY DEF Filter!LokiList
<1>6. service # Filter!Unset
  BY FilterAssumption
<1>. HIDE DEF named, service
<1>7. Filter!Satisfies(row, Filter!LokiList(q, restriction, DefaultService))
        <=> StreamAdmits(row, named, restriction, service)
  BY <1>4, <1>5, <1>6, StreamSelectorAdmits
<1>8. Filter!Satisfies(row, Filter!ListWhere(q0)) <=> ListAdmits(row, q0, Filter!Restriction(q0))
  BY WhereAdmits DEF Filter!ListWhere
<1>9. /\ Filter!Tenant(named, restriction) = Filter!Tenant(q0, Filter!Restriction(q0))
      /\ Filter!Restriction(q0) = restriction
  BY <1>1, <1>2, <1>3, <1>4 DEF Filter!Tenant, Filter!Restriction
<1>10. row.service = service => Admits(row, "service", q0.service, {q0.service})
  BY <1>2, <1>3 DEF Admits, service
<1>11. Admits(row, "message", q0.q, Filter!Insensitive(q0.q))
  BY <1>2, <1>3 DEF Admits
<1>. HIDE DEF restriction
<1>12. StreamAdmits(row, named, restriction, service) <=>
         /\ row.service = service
         /\ ListAdmits(row, q0, Filter!Restriction(q0))
         /\ Admits(row, "message", u.q, {msg \in Filter!Messages : msg = u.q})
  BY <1>1, <1>2, <1>3, <1>4, <1>9, <1>10, <1>11 DEF StreamAdmits, ListAdmits
<1>. QED BY <1>7, <1>8, <1>12 DEF q, q0, u0, restriction, service

\* The same over Loki: putting the value of a listed entry into its field narrows the
\* list to the entries that have this value.
LEMMA NarrowedStream ==
  ASSUME NEW u, DOMAIN u = DOMAIN Filter!Home, NEW field \in Filter!OVERVIEW_FIELDS, NEW v,
         IsValue(field, v), NEW row, NEW seen, seen[field] = v,
         LET q == Filter!useLogQuery(u)
         IN  Filter!Satisfies(seen, Filter!LokiList(q, Filter!Restriction(q), DefaultService))
  PROVE  LET q == Filter!useLogQuery(u)
             p == Filter!useLogQuery(Narrowed(u, field, v))
         IN  Filter!Satisfies(row, Filter!LokiList(p, Filter!Restriction(p), DefaultService))
               <=> /\ Filter!Satisfies(row, Filter!LokiList(q, Filter!Restriction(q), DefaultService))
                   /\ row[field] = v
<1>. DEFINE n == Narrowed(u, field, v)
            u0 == [u EXCEPT !.q = Filter!Unset]
            n0 == [n EXCEPT !.q = Filter!Unset]
            q == Filter!useLogQuery(u)
            p == Filter!useLogQuery(n)
            Without(r, w) == Filter!Satisfies(r, Filter!ListWhere(Filter!useLogQuery(w)))
            Text(r) == Admits(r, "message", u.q, {msg \in Filter!Messages : msg = u.q})
            Service(w) == IF w.service = Filter!Unset THEN DefaultService ELSE w.service
<1>1. /\ n.q = u.q
      /\ field # "service" => n.service = u.service
      /\ field = "service" => n.service = v
      /\ DOMAIN n = DOMAIN Filter!Home
  BY DEF Narrowed, Filter!Home, Filter!OVERVIEW_FIELDS, Filter!FACETS
<1>2. DOMAIN u0 = DOMAIN Filter!Home /\ n0 = Narrowed(u0, field, v)
  BY DEF Narrowed, Filter!Home, Filter!OVERVIEW_FIELDS, Filter!FACETS
<1>. HIDE DEF n
<1>3. ASSUME NEW r
      PROVE  /\ Filter!Satisfies(r, Filter!LokiList(q, Filter!Restriction(q), DefaultService))
                  <=> r.service = Service(u) /\ Without(r, u0) /\ Text(r)
             /\ Filter!Satisfies(r, Filter!LokiList(p, Filter!Restriction(p), DefaultService))
                  <=> r.service = Service(n) /\ Without(r, n0) /\ Text(r)
  BY <1>1, StreamOfUrl
<1>4. seen.service = Service(u) /\ Without(seen, u0)
  BY <1>3
<1>5. Without(row, n0) <=> Without(row, u0) /\ row[field] = v
  BY <1>2, <1>4, NarrowedList
<1>6. field # "service" => Service(n) = Service(u)
  BY <1>1
<1>7. field = "service" => Service(n) = v /\ Service(u) = v
  BY <1>1, <1>4 DEF IsValue
<1>. HIDE DEF Without, Text, Service, q, p
<1>. QED BY <1>3, <1>5, <1>6, <1>7 DEF q, p, n

LEMMA NarrowedRows ==
  ASSUME UrlInv, NEW field \in Filter!OVERVIEW_FIELDS, NEW seen \in Filter!Rows(Filter!query),
         seen[field] # Filter!Unset,
         Filter!Accepted(Filter!useLogQuery(Narrowed(url, field, seen[field])))
  PROVE  Filter!Rows(Filter!useLogQuery(Narrowed(url, field, seen[field])))
           = {row \in Filter!Rows(Filter!query) : row[field] = seen[field]}
<1>. DEFINE v == seen[field]
            n == Narrowed(url, field, v)
            p == Filter!useLogQuery(n)
            q == Filter!useLogQuery(url)
            window == Filter!Window(q, Filter!now, Filter!HOUR)
<1>1. /\ Filter!Rows(Filter!query) = {row \in Table : Filter!Satisfies(row, Filter!ListWhere(q))
                                          /\ row.time \in window.from .. window.to}
      /\ seen \in Table /\ Filter!Satisfies(seen, Filter!ListWhere(q))
  BY DEF Filter!Rows, Filter!query, Filter!Selected
<1>2. Filter!Window(p, Filter!now, Filter!HOUR) = window
  BY NarrowedWindow DEF UrlInv
<1>3. IsValue(field, v)
  BY <1>1, ListedValue
<1>4. ASSUME NEW row
      PROVE  Filter!Satisfies(row, Filter!ListWhere(p))
               <=> Filter!Satisfies(row, Filter!ListWhere(q)) /\ row[field] = v
  BY <1>1, <1>3, NarrowedList DEF UrlInv
<1>. HIDE DEF p, q, window
<1>5. Filter!Rows(p) = {row \in Filter!Rows(Filter!query) : row[field] = v}
  BY <1>1, <1>2, <1>4 DEF Filter!Rows, Filter!Selected
<1>. QED BY <1>5 DEF p

\* Whichever source the table is about.
LEMMA NarrowedIsShown ==
  ASSUME UrlInv, NEW field \in Filter!OVERVIEW_FIELDS, NEW seen \in Filter!Shown,
         seen[field] # Filter!Unset,
         Filter!Accepted(Filter!useLogQuery(Narrowed(url, field, seen[field])))
  PROVE  Filter!Listed(Filter!useLogQuery(Narrowed(url, field, seen[field])))
           = {row \in Filter!Shown : row[field] = seen[field]}
<1>. DEFINE v == seen[field]
            n == Narrowed(url, field, v)
            p == Filter!useLogQuery(n)
            q == Filter!useLogQuery(url)
            window == Filter!Window(q, Filter!now, Filter!HOUR)
            range == [window EXCEPT !.to = @ - 1]
            Streamed(row, w) ==
              Filter!Satisfies(row, Filter!LokiList(w, Filter!Restriction(w), DefaultService))
<1>1. p.source = q.source
  <2>1. n.source = url.source
    BY DEF Narrowed, UrlInv, Filter!Home, Filter!OVERVIEW_FIELDS, Filter!FACETS
  <2>. HIDE DEF n
  <2>. QED BY <2>1, QueryFields
<1>2. CASE q.source # "loki"
  <2>1. Filter!Shown = Filter!Rows(Filter!query) /\ Filter!Listed(p) = Filter!Rows(p)
    BY <1>1, <1>2 DEF Filter!Shown, Filter!Listed, Filter!query
  <2>. QED BY <2>1, NarrowedRows
<1>3. CASE q.source = "loki"
  <2>1. /\ Filter!Shown = {row \in LokiTable : Streamed(row, q) /\ row.time \in range.from .. range.to}
        /\ seen \in LokiTable /\ Streamed(seen, q)
    BY <1>3 DEF Filter!Shown, Filter!Listed, Filter!query, Filter!Selected
  <2>2. Filter!Window(p, Filter!now, Filter!HOUR) = window
    BY NarrowedWindow DEF UrlInv
  <2>3. IsValue(field, v)
    BY <2>1, ListedValue
  <2>4. ASSUME NEW row PROVE Streamed(row, p) <=> Streamed(row, q) /\ row[field] = v
    BY <2>1, <2>3, NarrowedStream DEF UrlInv
  <2>. HIDE DEF n, p, q, window
  <2>5. Filter!Listed(p) = {row \in LokiTable : Streamed(row, p) /\ row.time \in range.from .. range.to}
    BY <1>1, <1>3, <2>2 DEF Filter!Listed, Filter!Selected
  <2>. HIDE DEF range, Streamed
  <2>6. Filter!Listed(p) = {row \in Filter!Shown : row[field] = v}
    BY <2>1, <2>4, <2>5
  <2>. QED BY <2>6 DEF p, n
<1>. QED BY <1>2, <1>3

\* What the drawer says of a row narrows the list to the rows that say the same.
LEMMA PivotsNarrow == UrlInv => Filter!PivotKeepsTheRow
<1>. SUFFICES ASSUME UrlInv, NEW row \in Filter!Shown, NEW field \in Filter!OVERVIEW_FIELDS,
                     row[field] # Filter!Unset,
                     Filter!Accepted(Filter!useLogQuery(Filter!applyFieldFilter(url, field, row)))
              PROVE  Filter!Listed(Filter!useLogQuery(Filter!applyFieldFilter(url, field, row)))
                       = {other \in Filter!Shown : other[field] = row[field]}
  BY DEF Filter!PivotKeepsTheRow
<1>1. Filter!applyFieldFilter(url, field, row) = Narrowed(url, field, row[field])
  <2>1. CASE field = "level"
    BY <2>1 DEF Filter!applyFieldFilter, Narrowed
  <2>2. CASE field # "level"
    BY <2>2 DEF Filter!applyFieldFilter, Narrowed
  <2>. QED BY <2>1, <2>2
<1>. QED BY <1>1, NarrowedIsShown

\* A facet is a value of rows that are listed, with their number.
LEMMA FacetsCount == UrlInv => Filter!FacetsCountTheList
<1>. SUFFICES ASSUME UrlInv, NEW field \in Filter!FACETS,
                     NEW facet \in Filter!facetCounts(Table, Filter!query, field,
                                     Filter!Window(Filter!query, Filter!now, Filter!HOUR), TOP_N),
                     Filter!Accepted(Filter!useLogQuery(Filter!apply(url, field, facet.value)))
              PROVE  LET p == Filter!useLogQuery(Filter!apply(url, field, facet.value))
                     IN  facet.count = Filter!Cardinality(Filter!Rows(p))
  BY DEF Filter!FacetsCountTheList
<1>1. /\ facet.value \in {row[field] : row \in Filter!Rows(Filter!query)} \ {Filter!Unset}
      /\ facet.count = Filter!Cardinality({row \in Filter!Rows(Filter!query) : row[field] = facet.value})
  <2>. DEFINE Counted(v) == Filter!Cardinality({row \in Filter!Rows(Filter!query) : row[field] = v})
  <2>1. \A f \in Filter!facetCounts(Table, Filter!query, field,
                    Filter!Window(Filter!query, Filter!now, Filter!HOUR), TOP_N) :
          \E v \in {row[field] : row \in Filter!Rows(Filter!query)} \ {Filter!Unset} :
            f = [value |-> v, count |-> Counted(v)]
    BY DEF Filter!facetCounts, Filter!Rows
  <2>. HIDE DEF Counted
  <2>2. PICK v \in {row[field] : row \in Filter!Rows(Filter!query)} \ {Filter!Unset} :
          facet = [value |-> v, count |-> Counted(v)]
    BY <2>1
  <2>3. facet.value = v /\ facet.count = Counted(v)
    BY <2>2
  <2>. QED BY <2>2, <2>3 DEF Counted
<1>2. PICK seen \in Filter!Rows(Filter!query) : seen[field] = facet.value
  BY <1>1
<1>3. Filter!apply(url, field, facet.value) = Narrowed(url, field, facet.value)
  BY DEF Filter!apply, Narrowed
<1>4. field \in Filter!OVERVIEW_FIELDS
  BY DEF Filter!OVERVIEW_FIELDS
<1>. DEFINE p == Filter!useLogQuery(Narrowed(url, field, facet.value))
            found == Filter!Rows(p)
<1>5. found = {row \in Filter!Rows(Filter!query) : row[field] = facet.value}
  <2>1. /\ seen[field] # Filter!Unset
        /\ Filter!Accepted(Filter!useLogQuery(Narrowed(url, field, seen[field])))
    BY <1>1, <1>2, <1>3
  <2>2. Filter!Rows(Filter!useLogQuery(Narrowed(url, field, seen[field])))
          = {row \in Filter!Rows(Filter!query) : row[field] = seen[field]}
    BY <1>4, <2>1, NarrowedRows
  <2>. QED BY <1>2, <2>2
<1>. HIDE DEF found
<1>6. facet.count = Filter!Cardinality(found)
  BY <1>1, <1>5
<1>. QED BY <1>3, <1>6 DEF found

\* No control changes what fields there are, and the times that some of them set are numbers.
LEMMA SubmittedFields ==
  ASSUME NEW tokens, NEW u, DOMAIN u = DOMAIN Filter!Home
  PROVE  /\ DOMAIN Filter!Submitted(tokens, u) = DOMAIN Filter!Home
         /\ Filter!Submitted(tokens, u).from = u.from /\ Filter!Submitted(tokens, u).to = u.to
BY DEF Filter!Submitted, Filter!Home

LEMMA FilterInitEstablishes == Filter!Init => UrlInv
<1>. SUFFICES ASSUME Filter!Init PROVE UrlInv
  OBVIOUS
<1>1. \A target \in Filter!Targets : target.from \in Int
  <2>. TAKE target \in Filter!Targets
  <2>1. target.from = 0 \/ target.from \in Instants
    BY DEF Filter!Targets
  <2>2. 0 \in Int /\ Instants \subseteq Int
    BY FilterAssumption
  <2>. QED BY <2>1, <2>2
<1>2. /\ DOMAIN Filter!Home = DOMAIN Filter!Home
      /\ Filter!Home.from = 0 /\ Filter!Home.to = 0
  BY DEF Filter!Home
<1>3. ASSUME NEW target \in Filter!Targets
      PROVE  LET u == Filter!explorerHref(target)
             IN  DOMAIN u = DOMAIN Filter!Home /\ u.from \in Int /\ u.to \in Int
  <2>1. CASE target.from # 0
    BY <1>1, <1>2, <2>1 DEF Filter!explorerHref, Filter!Home
  <2>2. CASE target.from = 0
    BY <1>2, <2>2 DEF Filter!explorerHref, Filter!Home
  <2>. QED BY <2>1, <2>2
<1>4. tick \in DOMAIN Clock
  BY FilterAssumption DEF Filter!Init
<1>. QED BY <1>2, <1>3, <1>4 DEF Filter!Init, UrlInv, UrlTimes

LEMMA FilterNextPreserves == UrlInv /\ [Filter!Next]_(Filter!vars) => UrlInv'
<1>. SUFFICES ASSUME UrlInv, [Filter!Next]_(Filter!vars) PROVE UrlInv'
  OBVIOUS
<1>0. /\ DOMAIN url = DOMAIN Filter!Home /\ url.from \in Int /\ url.to \in Int
      /\ tick \in DOMAIN Clock
      /\ {"from", "to", "range", "level", "logKey", "service", "tenantId", "traceId",
          "requestId", "role", "source"} \subseteq DOMAIN url
  BY DEF UrlInv, UrlTimes, Filter!Home
<1>1. ASSUME NEW u, NEW focus, Filter!Use(u, focus), DOMAIN u = DOMAIN Filter!Home,
             u.from \in Int, u.to \in Int
      PROVE  UrlInv'
  BY <1>0, <1>1 DEF Filter!Use, UrlInv, UrlTimes
<1>2. ASSUME NEW typed, Filter!Type(typed) PROVE UrlInv'
  BY <1>0, <1>2 DEF Filter!Type, UrlInv, UrlTimes
<1>3. CASE Filter!blur \/ UNCHANGED Filter!vars
  BY <1>0, <1>3 DEF Filter!blur, Filter!vars, UrlInv, UrlTimes
<1>4. CASE Filter!Tick
  BY <1>0, <1>4, FilterAssumption DEF Filter!Tick, UrlInv, UrlTimes
<1>5. CASE Filter!submit
  BY <1>0, <1>1, <1>5, SubmittedFields DEF Filter!submit
<1>6. ASSUME NEW field \in Filter!FACETS, Filter!FacetClick(field) PROVE UrlInv'
  <2>1. ASSUME NEW v
        PROVE  LET u == Filter!apply(url, field, v)
               IN  DOMAIN u = DOMAIN Filter!Home /\ u.from = url.from /\ u.to = url.to
    BY <1>0 DEF Filter!apply, Filter!FACETS
  <2>. QED BY <1>0, <1>1, <1>6, <2>1 DEF Filter!FacetClick
<1>7. CASE Filter!pickSlice
  BY <1>0, <1>1, <1>7 DEF Filter!pickSlice
<1>8. CASE Filter!pickTopError
  BY <1>0, <1>1, <1>8 DEF Filter!pickTopError
<1>9. CASE Filter!pickTopTenant
  BY <1>0, <1>1, <1>9 DEF Filter!pickTopTenant
<1>10. CASE Filter!onBrush
  <2>1. \A bar \in Filter!Bars : bar.bucket \in Int
    <3>. TAKE bar \in Filter!Bars
    <3>1. \E w, i : Filter!InSeries(bar.bucket, w, i)
      BY BarShape DEF Filter!Bars
    <3>. QED BY <3>1 DEF Filter!InSeries
  <2>2. PICK first \in Int, last \in Int :
          Filter!Use([url EXCEPT !.from = first, !.to = last, !.range = Filter!Unset], FALSE)
    BY <1>10, <2>1 DEF Filter!onBrush
  <2>. QED BY <1>0, <1>1, <2>2
<1>11. CASE Filter!OverviewTab
  <2>1. ASSUME NEW row, NEW field \in Filter!OVERVIEW_FIELDS
        PROVE  LET u == Filter!applyFieldFilter(url, field, row)
               IN  DOMAIN u = DOMAIN Filter!Home /\ u.from = url.from /\ u.to = url.to
    BY <1>0 DEF Filter!applyFieldFilter, Filter!OVERVIEW_FIELDS, Filter!FACETS
  <2>. QED BY <1>0, <1>1, <1>11, <2>1 DEF Filter!OverviewTab
<1>12. CASE Filter!TraceTab
  BY <1>0, <1>1, <1>12 DEF Filter!TraceTab
<1>13. CASE Filter!pickPreset
  <2>1. PICK r \in Filter!RANGES :
          Filter!Use([url EXCEPT !.range = r, !.from = 0, !.to = 0], FALSE)
    BY <1>13 DEF Filter!pickPreset
  <2>. DEFINE u == [url EXCEPT !.range = r, !.from = 0, !.to = 0]
  <2>2. DOMAIN u = DOMAIN Filter!Home /\ u.from \in Int /\ u.to \in Int
    BY <1>0
  <2>. HIDE DEF u
  <2>. QED BY <1>1, <2>1, <2>2 DEF u
<1>14. CASE Filter!pickFrom \/ Filter!pickTo
  <2>1. PICK t \in Instants \cup {0} :
          \/ Filter!Use([url EXCEPT !.from = t, !.range = Filter!Unset], FALSE)
          \/ Filter!Use([url EXCEPT !.to = t, !.range = Filter!Unset], FALSE)
    BY <1>14 DEF Filter!pickFrom, Filter!pickTo
  <2>2. t \in Int
    BY FilterAssumption
  <2>3. CASE Filter!Use([url EXCEPT !.from = t, !.range = Filter!Unset], FALSE)
    BY <1>0, <1>1, <2>2, <2>3
  <2>4. CASE Filter!Use([url EXCEPT !.to = t, !.range = Filter!Unset], FALSE)
    BY <1>0, <1>1, <2>2, <2>4
  <2>. QED BY <2>1, <2>3, <2>4
<1>15. CASE Filter!pickSource \/ Filter!pickTenant \/ Filter!pickRole
  BY <1>0, <1>1, <1>15 DEF Filter!pickSource, Filter!pickTenant, Filter!pickRole
<1>. QED
  BY <1>2, <1>3, <1>4, <1>5, <1>6, <1>7, <1>8, <1>9, <1>10, <1>11, <1>12, <1>13, <1>14, <1>15
     DEF Filter!Next

\* useLogQuery() and the dozen controls keep the fields of the URL.
THEOREM FilterInvariant == Filter!Spec => []UrlInv
BY FilterInitEstablishes, FilterNextPreserves, PTL DEF Filter!Spec

(* The text of the query bar: a sequence that prints a set of tokens, each once and
   no two of a field. *)
Prints(printed, tokens) ==
  /\ printed \in Seq(tokens)
  /\ \A k \in 1 .. Len(printed), j \in 1 .. Len(printed) :
       printed[k].field = printed[j].field => k = j
  /\ \A t \in tokens : \E k \in 1 .. Len(printed) : printed[k] = t

TokenSet(field, op, value) ==
  IF value = Filter!Unset THEN {} ELSE {[field |-> field, value |-> <<op, value>>]}

LEMMA PrintToken ==
  ASSUME NEW printed, NEW tokens, Prints(printed, tokens), NEW field, NEW op, NEW value,
         \A t \in tokens : t.field # field
  PROVE  Prints(printed \o Filter!Token(field, op, value), tokens \cup TokenSet(field, op, value))
<1>1. CASE value = Filter!Unset
  <2>1. printed \o <<>> = printed
    BY DEF Prints
  <2>. QED BY <1>1, <2>1 DEF Filter!Token, TokenSet
<1>2. CASE value # Filter!Unset
  <2>. DEFINE new == [field |-> field, value |-> <<op, value>>]
              more == tokens \cup {new}
              longer == printed \o <<new>>
  <2>1. Filter!Token(field, op, value) = <<new>> /\ TokenSet(field, op, value) = {new}
    BY <1>2 DEF Filter!Token, TokenSet
  <2>2. new.field = field
    OBVIOUS
  <2>. HIDE DEF new
  <2>3. printed \in Seq(tokens) /\ Len(printed) \in Nat
    BY DEF Prints
  <2>4. /\ printed \in Seq(more) /\ <<new>> \in Seq(more)
        /\ \A k \in 1 .. Len(printed) : printed[k] \in tokens
    BY <2>3
  <2>5. /\ longer \in Seq(more) /\ Len(longer) = Len(printed) + 1
        /\ longer[Len(printed) + 1] = new
        /\ \A k \in 1 .. Len(printed) : longer[k] = printed[k]
    BY <2>4
  <2>. HIDE DEF longer
  <2>6. ASSUME NEW k \in 1 .. Len(longer), NEW j \in 1 .. Len(longer),
               longer[k].field = longer[j].field
        PROVE  k = j
    <3>1. CASE k \in 1 .. Len(printed) /\ j \in 1 .. Len(printed)
      BY <2>5, <2>6, <3>1 DEF Prints
    <3>2. CASE k \notin 1 .. Len(printed) \/ j \notin 1 .. Len(printed)
      <4>1. /\ k \notin 1 .. Len(printed) => k = Len(printed) + 1
            /\ j \notin 1 .. Len(printed) => j = Len(printed) + 1
        BY <2>3, <2>5
      <4>2. /\ k \in 1 .. Len(printed) => longer[k].field # field
            /\ j \in 1 .. Len(printed) => longer[j].field # field
        BY <2>4, <2>5
      <4>. QED BY <2>2, <2>5, <2>6, <3>2, <4>1, <4>2
    <3>. QED BY <3>1, <3>2
  <2>7. ASSUME NEW t \in more PROVE \E k \in 1 .. Len(longer) : longer[k] = t
    <3>1. CASE t = new
      BY <2>3, <2>5, <3>1
    <3>2. CASE t \in tokens
      <4>1. PICK k \in 1 .. Len(printed) : printed[k] = t
        BY <3>2 DEF Prints
      <4>. QED BY <2>3, <2>5, <4>1
    <3>. QED BY <3>1, <3>2
  <2>8. Prints(longer, more)
    BY <2>5, <2>6, <2>7 DEF Prints
  <2>. QED BY <2>1, <2>8 DEF longer
<1>. QED BY <1>1, <1>2

\* The only wanted token of a text is the last one.
LEMMA LastOfPrinted ==
  ASSUME NEW printed, NEW tokens, Prints(printed, tokens), NEW wanted
  PROVE  /\ tokens \cap wanted = {} => Filter!LastOf(printed, wanted) = Filter!NoLevel
         /\ \A t : tokens \cap wanted = {t} => Filter!LastOf(printed, wanted) = t.value
<1>. DEFINE places == {k \in DOMAIN printed : printed[k] \in wanted}
<1>1. DOMAIN printed = 1 .. Len(printed) /\ \A k \in 1 .. Len(printed) : printed[k] \in tokens
  BY DEF Prints
<1>2. ASSUME tokens \cap wanted = {} PROVE Filter!LastOf(printed, wanted) = Filter!NoLevel
  <2>1. places = {}
    BY <1>1, <1>2
  <2>. QED BY <2>1 DEF Filter!LastOf
<1>3. ASSUME NEW t, tokens \cap wanted = {t} PROVE Filter!LastOf(printed, wanted) = t.value
  <2>1. PICK k \in 1 .. Len(printed) : printed[k] = t
    BY <1>3 DEF Prints
  <2>2. places = {k}
    <3>1. k \in places
      BY <1>1, <1>3, <2>1
    <3>2. ASSUME NEW j \in places PROVE j = k
      <4>1. printed[j] = t /\ j \in 1 .. Len(printed)
        BY <1>1, <1>3, <3>2
      <4>. QED BY <2>1, <4>1 DEF Prints
    <3>. QED BY <3>1, <3>2
  <2>3. Filter!Max({k}) = k
    BY <2>1 DEF Filter!Max
  <2>. HIDE DEF places
  <2>4. Filter!LastOf(printed, wanted) = IF places = {} THEN Filter!NoLevel
                                         ELSE printed[Filter!Max(places)].value
    BY DEF Filter!LastOf, places
  <2>. QED BY <2>1, <2>2, <2>3, <2>4
<1>. QED BY <1>2, <1>3

\* The tokens that queryToText() prints for a filter.
PrintedTokens(q) ==
  TokenSet("level", q.level[1], q.level[2]) \cup TokenSet("logKey", ":", q.logKey)
    \cup TokenSet("service", ":", q.service) \cup TokenSet("tenantId", ":", q.tenantId)
    \cup TokenSet("traceId", ":", q.traceId) \cup TokenSet("msg", "~", q.q)

LEMMA TokensAreOfTheirField ==
  ASSUME NEW field, NEW op, NEW value, NEW t \in TokenSet(field, op, value)
  PROVE  t.field = field
BY DEF TokenSet

LEMMA QueryIsPrinted ==
  ASSUME NEW q PROVE Prints(Filter!queryToText(q), PrintedTokens(q))
<1>. DEFINE T1 == TokenSet("level", q.level[1], q.level[2])
            T2 == T1 \cup TokenSet("logKey", ":", q.logKey)
            T3 == T2 \cup TokenSet("service", ":", q.service)
            T4 == T3 \cup TokenSet("tenantId", ":", q.tenantId)
            T5 == T4 \cup TokenSet("traceId", ":", q.traceId)
            s1 == Filter!Token("level", q.level[1], q.level[2])
            s2 == s1 \o Filter!Token("logKey", ":", q.logKey)
            s3 == s2 \o Filter!Token("service", ":", q.service)
            s4 == s3 \o Filter!Token("tenantId", ":", q.tenantId)
            s5 == s4 \o Filter!Token("traceId", ":", q.traceId)
<1>1. Prints(s1, T1)
  <2>1. Prints(<<>>, {})
    BY DEF Prints
  <2>2. Prints(<<>> \o s1, {} \cup T1)
    BY <2>1, PrintToken
  <2>3. <<>> \o s1 = s1
    <3>1. CASE q.level[2] = Filter!Unset
      BY <3>1 DEF Filter!Token
    <3>2. CASE q.level[2] # Filter!Unset
      BY <3>2 DEF Filter!Token
    <3>. QED BY <3>1, <3>2
  <2>4. {} \cup T1 = T1
    OBVIOUS
  <2>. QED BY <2>2, <2>3, <2>4
<1>2. /\ \A t \in T1 : t.field # "logKey"
      /\ \A t \in T2 : t.field # "service"
      /\ \A t \in T3 : t.field # "tenantId"
      /\ \A t \in T4 : t.field # "traceId"
      /\ \A t \in T5 : t.field # "msg"
  BY TokensAreOfTheirField
<1>. HIDE DEF T1, s1
<1>3. Prints(s2, T2)
  BY <1>1, <1>2, PrintToken
<1>. HIDE DEF T2, s2
<1>4. Prints(s3, T3)
  BY <1>2, <1>3, PrintToken
<1>. HIDE DEF T3, s3
<1>5. Prints(s4, T4)
  BY <1>2, <1>4, PrintToken
<1>. HIDE DEF T4, s4
<1>6. Prints(s5, T5)
  BY <1>2, <1>5, PrintToken
<1>. HIDE DEF T5, s5
<1>7. Prints(s5 \o Filter!Token("msg", "~", q.q), T5 \cup TokenSet("msg", "~", q.q))
  BY <1>2, <1>6, PrintToken
<1>. QED
  BY <1>7 DEF Filter!queryToText, PrintedTokens, s1, s2, s3, s4, s5, T1, T2, T3, T4, T5

\* What a field of the text is read as is what was printed.
LEMMA WantedIsReadBack ==
  ASSUME NEW printed, NEW tokens, Prints(printed, tokens), NEW field, NEW op, NEW value,
         NEW wanted, tokens \cap wanted = TokenSet(field, op, value)
  PROVE  Filter!LastOf(printed, wanted)
           = IF value = Filter!Unset THEN Filter!NoLevel ELSE <<op, value>>
<1>1. CASE value = Filter!Unset
  BY <1>1, LastOfPrinted DEF TokenSet
<1>2. CASE value # Filter!Unset
  <2>. DEFINE t == [field |-> field, value |-> <<op, value>>]
  <2>1. t.value = <<op, value>>
    OBVIOUS
  <2>2. tokens \cap wanted = {t}
    BY <1>2 DEF TokenSet
  <2>. HIDE DEF t
  <2>3. \A x : tokens \cap wanted = {x} => Filter!LastOf(printed, wanted) = x.value
    BY LastOfPrinted
  <2>4. Filter!LastOf(printed, wanted) = t.value
    BY <2>2, <2>3
  <2>. QED BY <1>2, <2>1, <2>4
<1>. QED BY <1>1, <1>2

LEMMA RangeOfPrinted ==
  ASSUME NEW printed, NEW tokens, Prints(printed, tokens)
  PROVE  Filter!Range(printed) = tokens
<1>1. /\ DOMAIN printed = 1 .. Len(printed)
      /\ \A k \in 1 .. Len(printed) : printed[k] \in tokens
      /\ \A t \in tokens : \E k \in 1 .. Len(printed) : printed[k] = t
  BY DEF Prints
<1>. QED BY <1>1 DEF Filter!Range

\* parseQueryText() after queryToText() is the filter again, unless its key is none or
\* its free text has a quote.
LEMMA TextIsReadBack ==
  ASSUME NEW u, LET q == Filter!useLogQuery(u)
                IN  /\ q.q # Filter!QUOTED
                    /\ q.logKey = Filter!Unset \/ Filter!isValidLogKey(q.logKey)
  PROVE  LET q == Filter!useLogQuery(u)
             parsed == Filter!parseQueryText(Filter!queryToText(q))
         IN  /\ Filter!parseLevelToken(parsed.level) = q.level
             /\ parsed.logKey = q.logKey /\ parsed.service = q.service
             /\ parsed.tenantId = q.tenantId /\ parsed.traceId = q.traceId
             /\ parsed.q = q.q
<1>. DEFINE q == Filter!useLogQuery(u)
            T == PrintedTokens(q)
            printed == Filter!queryToText(q)
            Of(f) == {t \in Filter!Range(printed) : t.field = f}
            Read(f) == Filter!LastOf(printed, Of(f))
            parsed == Filter!parseQueryText(printed)
            valid == {t \in Of("logKey") : Filter!isValidLogKey(t.value[2])}
<1>1. Prints(printed, T)
  BY QueryIsPrinted
<1>2. /\ q.level = Filter!parseLevelToken(u.level)
      /\ q.q # Filter!QUOTED
      /\ q.logKey = Filter!Unset \/ Filter!isValidLogKey(q.logKey)
  BY QueryFields
<1>3. /\ parsed.level = Read("level") /\ parsed.service = Read("service")[2]
      /\ parsed.tenantId = Read("tenantId")[2] /\ parsed.traceId = Read("traceId")[2]
      /\ parsed.logKey = Filter!LastOf(printed, valid)[2]
      /\ parsed.q = IF Read("msg") = Filter!NoLevel THEN Read("word")[2]
                    ELSE Filter!UpToQuote(Read("msg")[2])
  BY DEF Filter!parseQueryText
<1>. HIDE DEF q
<1>4. /\ {t \in T : t.field = "level"} = TokenSet("level", q.level[1], q.level[2])
      /\ {t \in T : t.field = "logKey"} = TokenSet("logKey", ":", q.logKey)
      /\ {t \in T : t.field = "service"} = TokenSet("service", ":", q.service)
      /\ {t \in T : t.field = "tenantId"} = TokenSet("tenantId", ":", q.tenantId)
      /\ {t \in T : t.field = "traceId"} = TokenSet("traceId", ":", q.traceId)
      /\ {t \in T : t.field = "msg"} = TokenSet("msg", "~", q.q)
      /\ {t \in T : t.field = "word"} = TokenSet("word", "", Filter!Unset)
  <2>1. TokenSet("word", "", Filter!Unset) = {}
    BY DEF TokenSet
  <2>. DEFINE L == TokenSet("level", q.level[1], q.level[2])
              K == TokenSet("logKey", ":", q.logKey)
              S == TokenSet("service", ":", q.service)
              N == TokenSet("tenantId", ":", q.tenantId)
              R == TokenSet("traceId", ":", q.traceId)
              M == TokenSet("msg", "~", q.q)
  <2>2. T = L \cup K \cup S \cup N \cup R \cup M
    BY DEF PrintedTokens
  <2>3. /\ \A t \in L : t.field = "level"
        /\ \A t \in K : t.field = "logKey"
        /\ \A t \in S : t.field = "service"
        /\ \A t \in N : t.field = "tenantId"
        /\ \A t \in R : t.field = "traceId"
        /\ \A t \in M : t.field = "msg"
    BY TokensAreOfTheirField
  <2>. HIDE DEF T, L, K, S, N, R, M
  <2>4. {t \in T : t.field = "level"} = L /\ {t \in T : t.field = "logKey"} = K
    BY <2>2, <2>3
  <2>5. {t \in T : t.field = "service"} = S /\ {t \in T : t.field = "tenantId"} = N
    BY <2>2, <2>3
  <2>6. {t \in T : t.field = "traceId"} = R /\ {t \in T : t.field = "msg"} = M
    BY <2>2, <2>3
  <2>7. {t \in T : t.field = "word"} = {}
    BY <2>2, <2>3
  <2>. QED BY <2>1, <2>4, <2>5, <2>6, <2>7 DEF L, K, S, N, R, M
<1>. HIDE DEF printed, T
<1>5. /\ Read("level") = IF q.level[2] = Filter!Unset THEN Filter!NoLevel
                         ELSE <<q.level[1], q.level[2]>>
      /\ Read("service") = IF q.service = Filter!Unset THEN Filter!NoLevel ELSE <<":", q.service>>
      /\ Read("tenantId") = IF q.tenantId = Filter!Unset THEN Filter!NoLevel ELSE <<":", q.tenantId>>
      /\ Read("traceId") = IF q.traceId = Filter!Unset THEN Filter!NoLevel ELSE <<":", q.traceId>>
      /\ Read("msg") = IF q.q = Filter!Unset THEN Filter!NoLevel ELSE <<"~", q.q>>
      /\ Read("word") = Filter!NoLevel
  <2>1. ASSUME NEW field, NEW op, NEW value,
               {t \in T : t.field = field} = TokenSet(field, op, value)
        PROVE  Read(field) = IF value = Filter!Unset THEN Filter!NoLevel ELSE <<op, value>>
    <3>1. T \cap Of(field) = TokenSet(field, op, value)
      BY <1>1, <2>1, RangeOfPrinted
    <3>. HIDE DEF Of
    <3>2. Filter!LastOf(printed, Of(field))
            = IF value = Filter!Unset THEN Filter!NoLevel ELSE <<op, value>>
      BY <1>1, <3>1, WantedIsReadBack
    <3>. QED BY <3>2
  <2>. HIDE DEF Read
  <2>2. Read("level") = IF q.level[2] = Filter!Unset THEN Filter!NoLevel
                        ELSE <<q.level[1], q.level[2]>>
    <3>1. {t \in T : t.field = "level"} = TokenSet("level", q.level[1], q.level[2])
      BY <1>4
    <3>. QED BY <2>1, <3>1
  <2>3. Read("service") = IF q.service = Filter!Unset THEN Filter!NoLevel ELSE <<":", q.service>>
    <3>1. {t \in T : t.field = "service"} = TokenSet("service", ":", q.service)
      BY <1>4
    <3>. QED BY <2>1, <3>1
  <2>4. Read("tenantId") = IF q.tenantId = Filter!Unset THEN Filter!NoLevel ELSE <<":", q.tenantId>>
    <3>1. {t \in T : t.field = "tenantId"} = TokenSet("tenantId", ":", q.tenantId)
      BY <1>4
    <3>. QED BY <2>1, <3>1
  <2>5. Read("traceId") = IF q.traceId = Filter!Unset THEN Filter!NoLevel ELSE <<":", q.traceId>>
    <3>1. {t \in T : t.field = "traceId"} = TokenSet("traceId", ":", q.traceId)
      BY <1>4
    <3>. QED BY <2>1, <3>1
  <2>6. Read("msg") = IF q.q = Filter!Unset THEN Filter!NoLevel ELSE <<"~", q.q>>
    <3>1. {t \in T : t.field = "msg"} = TokenSet("msg", "~", q.q)
      BY <1>4
    <3>. QED BY <2>1, <3>1
  <2>7. Read("word") = Filter!NoLevel
    <3>1. {t \in T : t.field = "word"} = TokenSet("word", "", Filter!Unset)
      BY <1>4
    <3>. QED BY <2>1, <3>1
  <2>. QED BY <2>2, <2>3, <2>4, <2>5, <2>6, <2>7
<1>6. Filter!LastOf(printed, valid)
        = IF q.logKey = Filter!Unset THEN Filter!NoLevel ELSE <<":", q.logKey>>
  <2>1. \A t \in TokenSet("logKey", ":", q.logKey) : Filter!isValidLogKey(t.value[2])
    BY <1>2 DEF TokenSet
  <2>2. {t \in T : t.field = "logKey"} = TokenSet("logKey", ":", q.logKey)
    BY <1>4
  <2>3. T \cap valid = TokenSet("logKey", ":", q.logKey)
    BY <1>1, <2>1, <2>2, RangeOfPrinted
  <2>. HIDE DEF valid
  <2>. QED BY <1>1, <2>3, WantedIsReadBack
<1>. HIDE DEF valid, Read, parsed
<1>7. Filter!NoLevel[2] = Filter!Unset
  BY DEF Filter!NoLevel, Filter!Unset
<1>8. /\ parsed.logKey = q.logKey /\ parsed.service = q.service
      /\ parsed.tenantId = q.tenantId /\ parsed.traceId = q.traceId
  BY <1>3, <1>5, <1>6, <1>7
<1>9. parsed.q = q.q
  <2>1. CASE q.q = Filter!Unset
    BY <1>3, <1>5, <1>7, <2>1
  <2>2. CASE q.q # Filter!Unset
    <3>1. Read("msg") = <<"~", q.q>>
      BY <1>5, <2>2
    <3>2. <<"~", q.q>> # Filter!NoLevel /\ <<"~", q.q>>[2] = q.q
      BY DEF Filter!NoLevel
    <3>. QED BY <1>2, <1>3, <3>1, <3>2 DEF Filter!UpToQuote
  <2>. QED BY <2>1, <2>2
<1>10. Filter!parseLevelToken(parsed.level) = q.level
  <2>1. Filter!Unset \notin Filter!Level
    BY DEF Filter!Unset, Filter!Level, Filter!LEVEL_RANK
  <2>2. CASE u.level[2] \in Filter!Level
    <3>1. /\ q.level = <<u.level[1], u.level[2]>>
          /\ q.level[1] = u.level[1] /\ q.level[2] = u.level[2]
      BY <1>2, <2>2 DEF Filter!parseLevelToken
    <3>2. parsed.level = q.level
      BY <1>3, <1>5, <2>1, <2>2, <3>1
    <3>. QED BY <2>2, <3>1, <3>2 DEF Filter!parseLevelToken
  <2>3. CASE u.level[2] \notin Filter!Level
    <3>1. q.level = Filter!NoLevel
      BY <1>2, <2>3 DEF Filter!parseLevelToken
    <3>2. parsed.level = Filter!NoLevel
      BY <1>3, <1>5, <1>7, <3>1
    <3>. QED BY <1>7, <2>1, <3>1, <3>2 DEF Filter!parseLevelToken
  <2>. QED BY <2>2, <2>3
<1>. QED BY <1>8, <1>9, <1>10 DEF parsed, printed, q

LEMMA ResubmitKeeps == UrlInv => Filter!ResubmitKeepsTheQuery
<1>. DEFINE q == Filter!query
            parsed == Filter!parseQueryText(Filter!queryToText(q))
            next == Filter!Submitted(Filter!queryToText(q), url)
<1>. SUFFICES ASSUME UrlInv, q.q # Filter!QUOTED,
                     q.logKey = Filter!Unset \/ Filter!isValidLogKey(q.logKey)
              PROVE  Filter!useLogQuery(next) = q
  BY DEF Filter!ResubmitKeepsTheQuery
<1>1. /\ Filter!parseLevelToken(parsed.level) = q.level
      /\ parsed.logKey = q.logKey /\ parsed.service = q.service
      /\ parsed.tenantId = q.tenantId /\ parsed.traceId = q.traceId
      /\ parsed.q = q.q
  BY TextIsReadBack DEF Filter!query
<1>2. /\ next.level = parsed.level /\ next.logKey = parsed.logKey
      /\ next.service = parsed.service /\ next.tenantId = parsed.tenantId
      /\ next.traceId = parsed.traceId /\ next.q = parsed.q
      /\ next.requestId = url.requestId /\ next.source = url.source /\ next.role = url.role
      /\ next.range = url.range /\ next.from = url.from /\ next.to = url.to
  BY DEF Filter!Submitted, UrlInv, Filter!Home
<1>3. /\ q.level = Filter!parseLevelToken(url.level)
      /\ q.logKey = url.logKey /\ q.service = url.service /\ q.tenantId = url.tenantId
      /\ q.traceId = url.traceId /\ q.q = url.q
  BY QueryFields DEF Filter!query
<1>. HIDE DEF next, parsed, q
<1>4. /\ Filter!parseLevelToken(next.level) = Filter!parseLevelToken(url.level)
      /\ next.logKey = url.logKey /\ next.service = url.service
      /\ next.tenantId = url.tenantId /\ next.traceId = url.traceId /\ next.q = url.q
  BY <1>1, <1>2, <1>3
<1>5. Filter!useLogQuery(next) = Filter!useLogQuery(url)
  BY <1>2, <1>4 DEF Filter!useLogQuery
<1>. QED BY <1>5 DEF q, Filter!query
==============================================================================
