------------------- MODULE ExecutionMaterialization_proofs -------------------
(***************************************************************************)
(* Proofs about ExecutionMaterialization, for any candidates, facts, claims *)
(* and strategies: what materialization must get right holds in every      *)
(* reachable state.                                                        *)
(***************************************************************************)
EXTENDS ExecutionMaterialization, SequenceTheorems, FunctionTheorems, FiniteSetTheorems,
        WellFoundedInduction, TLAPS

-----------------------------------------------------------------------------
(* Numbers and filtered sequences *)

\* Every set of naturals has a smallest member, which Min returns.
LEMMA MinIsLeast ==
    ASSUME NEW S \in SUBSET Nat, S # {}
    PROVE  Min(S) \in S /\ \A y \in S : Min(S) <= y
<1>1. PICK x \in S : \A y \in S : ~(<<y, x>> \in OpToRel(<, Nat))
  BY NatLessThanWellFounded, WFMin, Zenon
<1>2. \A y \in S : x <= y
  <2>1. SUFFICES ASSUME NEW y \in S PROVE x <= y
    OBVIOUS
  <2>2. ~(y < x)
    BY <1>1, <2>1 DEF OpToRel
  <2>3. QED
    BY <2>2
<1>3. QED
  BY <1>1, <1>2, Zenon DEF Min

\* A set that has zero, and with a number below n the next one, has the numbers up to n.
LEMMA StepByStep ==
    ASSUME NEW n \in Nat, NEW T, 0 \in T, \A k \in 0 .. n : k \in T /\ k < n => k + 1 \in T
    PROVE  \A k \in 0 .. n : k \in T
<1> SUFFICES ASSUME NEW j \in 0 .. n, j \notin T PROVE FALSE
  OBVIOUS
<1> DEFINE M == {k \in 0 .. n : k \notin T}
<1>1. M \in SUBSET Nat /\ M # {}
  OBVIOUS
<1>2. PICK m \in M : \A y \in M : m <= y
  <2> HIDE DEF M
  <2>1. QED
    BY <1>1, MinIsLeast
<1>3. m # 0 /\ m - 1 \in 0 .. n /\ m - 1 < n /\ m - 1 + 1 = m
  BY <1>2
<1>4. m - 1 \notin M
  BY <1>2, <1>3
<1>5. QED
  BY <1>2, <1>3, <1>4

\* The prefixes that Where takes, one for each length.
Taken(s, those, taken) ==
    taken = [i \in 0 .. Len(s) |->
                IF i = 0 THEN <<>>
                ELSE IF s[i] \in those THEN Append(taken[i - 1], s[i]) ELSE taken[i - 1]]

\* The recursion in Where defines a function.
LEMMA WhereUnfolds ==
    ASSUME NEW S, NEW s \in Seq(S), NEW those
    PROVE  \E taken : Taken(s, those, taken) /\ Where(s, those) = taken[Len(s)]
<1> DEFINE Upto(n, g) == g = [i \in 0 .. n |->
                IF i = 0 THEN <<>>
                ELSE IF s[i] \in those THEN Append(g[i - 1], s[i]) ELSE g[i - 1]]
           T == {n \in 0 .. Len(s) : \E g : Upto(n, g)}
<1>1. Len(s) \in Nat
  OBVIOUS
<1>2. 0 \in T
  <2>1. Upto(0, [i \in 0 .. 0 |-> <<>>])
    OBVIOUS
  <2>2. \E g : Upto(0, g)
    BY <2>1
  <2> HIDE DEF Upto
  <2>3. QED
    BY <1>1, <2>2
<1>3. ASSUME NEW k \in 0 .. Len(s), k \in T, k < Len(s)
      PROVE  k + 1 \in T
  <2>1. PICK g : Upto(k, g)
    BY <1>3
  <2> DEFINE next == IF s[k + 1] \in those THEN Append(g[k], s[k + 1]) ELSE g[k]
             h == [i \in 0 .. k + 1 |-> IF i = k + 1 THEN next ELSE g[i]]
  <2>2. \A i \in 0 .. k : h[i] = g[i]
    BY <1>1
  <2>3. h[k + 1] = next
    BY <1>1
  <2>4. ASSUME NEW i \in 0 .. k + 1
        PROVE  h[i] = IF i = 0 THEN <<>>
                      ELSE IF s[i] \in those THEN Append(h[i - 1], s[i]) ELSE h[i - 1]
    <3>1. CASE i = k + 1
      <4>1. i # 0 /\ i - 1 = k /\ h[i - 1] = g[k]
        BY <1>1, <2>2, <3>1
      <4> HIDE DEF h
      <4>2. QED
        BY <2>3, <3>1, <4>1
    <3>2. CASE i # k + 1 /\ i # 0
      <4>1. i \in 0 .. k /\ i - 1 \in 0 .. k
        BY <1>1, <3>2
      <4>2. g[i] = IF s[i] \in those THEN Append(g[i - 1], s[i]) ELSE g[i - 1]
        BY <2>1, <3>2, <4>1
      <4>3. h[i] = g[i] /\ h[i - 1] = g[i - 1]
        BY <2>2, <4>1
      <4> HIDE DEF h
      <4>4. QED
        BY <3>2, <4>2, <4>3
    <3>3. CASE i # k + 1 /\ i = 0
      <4>1. g[0] = <<>>
        BY <2>1, <1>1
      <4>2. QED
        BY <3>3, <4>1, <2>2, <1>1
    <3>4. QED
      BY <3>1, <3>2, <3>3
  <2>5. h = [i \in 0 .. k + 1 |-> h[i]]
    OBVIOUS
  <2>6. Upto(k + 1, h)
    <3> HIDE DEF h
    <3>1. QED
      BY <2>4, <2>5
  <2>7. k + 1 \in 0 .. Len(s)
    BY <1>1, <1>3
  <2>8. QED
    BY <2>6, <2>7
<1>4. Len(s) \in T
  <2> HIDE DEF T
  <2>1. \A k \in 0 .. Len(s) : k \in T /\ k < Len(s) => k + 1 \in T
    BY <1>3
  <2>2. \A k \in 0 .. Len(s) : k \in T
    BY <1>1, <1>2, <2>1, StepByStep, Zenon
  <2>3. QED
    BY <1>1, <2>2
<1>5. PICK g : Taken(s, those, g)
  BY <1>4 DEF Taken
<1> DEFINE w == CHOOSE taken : taken = [i \in 0 .. Len(s) |->
                IF i = 0 THEN <<>>
                ELSE IF s[i] \in those THEN Append(taken[i - 1], s[i]) ELSE taken[i - 1]]
<1>6. Taken(s, those, w)
  BY <1>5, Zenon DEF Taken
<1>7. Where(s, those) = w[Len(s)]
  BY DEF Where
<1>8. QED
  BY <1>6, <1>7

\* t is what s has among those up to place n, and f says from where each member came.
Embeds(t, s, those, n, f) ==
    /\ f \in [1 .. Len(t) -> 1 .. n]
    /\ \A i \in 1 .. Len(t) : t[i] = s[f[i]] /\ s[f[i]] \in those
    /\ \A i, j \in 1 .. Len(t) : i < j => f[i] < f[j]
    /\ \A k \in 1 .. n : s[k] \in those => \E i \in 1 .. Len(t) : f[i] = k

\* A member that is not among those changes nothing.
LEMMA EmbedsSkip ==
    ASSUME NEW S, NEW t \in Seq(S), NEW s, NEW those, NEW n \in Nat, NEW f,
           Embeds(t, s, those, n, f), s[n + 1] \notin those
    PROVE  Embeds(t, s, those, n + 1, f)
<1>1. f \in [1 .. Len(t) -> 1 .. n + 1]
  BY DEF Embeds
<1>2. ASSUME NEW k \in 1 .. n + 1, s[k] \in those
      PROVE  \E i \in 1 .. Len(t) : f[i] = k
  <2>1. k \in 1 .. n
    BY <1>2
  <2>2. QED
    BY <1>2, <2>1 DEF Embeds
<1>3. QED
  BY <1>1, <1>2 DEF Embeds

\* A member that is among those comes at the end.
LEMMA EmbedsTake ==
    ASSUME NEW S, NEW t \in Seq(S), NEW s, NEW those, NEW n \in Nat, NEW f,
           Embeds(t, s, those, n, f), s[n + 1] \in those, s[n + 1] \in S
    PROVE  \E g : Embeds(Append(t, s[n + 1]), s, those, n + 1, g)
<1> DEFINE u == Append(t, s[n + 1])
           g == [i \in 1 .. Len(u) |-> IF i = Len(u) THEN n + 1 ELSE f[i]]
<1>1. Len(u) = Len(t) + 1 /\ u[Len(u)] = s[n + 1] /\ \A i \in 1 .. Len(t) : u[i] = t[i]
  OBVIOUS
<1>2. Len(t) \in Nat
  OBVIOUS
<1>3. g[Len(u)] = n + 1 /\ \A i \in 1 .. Len(t) : g[i] = f[i]
  BY <1>1, <1>2
<1>4. \A i \in 1 .. Len(t) : f[i] \in 1 .. n
  BY DEF Embeds
<1>5. \A i \in 1 .. Len(u) : g[i] \in 1 .. n + 1
  BY <1>1, <1>2, <1>4
<1>6. g = [i \in 1 .. Len(u) |-> g[i]]
  OBVIOUS
<1> HIDE DEF g, u
<1>7. \A i \in 1 .. Len(u) : i = Len(u) \/ i \in 1 .. Len(t)
  BY <1>1, <1>2
<1>8. g \in [1 .. Len(u) -> 1 .. n + 1]
  BY <1>5, <1>6
<1>9. ASSUME NEW i \in 1 .. Len(u)
      PROVE  u[i] = s[g[i]] /\ s[g[i]] \in those
  <2>1. CASE i = Len(u)
    BY <2>1, <1>1, <1>3
  <2>2. CASE i \in 1 .. Len(t)
    BY <2>2, <1>1, <1>3 DEF Embeds
  <2>3. QED
    BY <1>7, <2>1, <2>2
<1>10. ASSUME NEW i \in 1 .. Len(u), NEW j \in 1 .. Len(u), i < j
       PROVE  g[i] < g[j]
  <2>1. i \in 1 .. Len(t)
    BY <1>1, <1>2, <1>10
  <2>2. CASE j = Len(u)
    BY <2>1, <2>2, <1>3, <1>4
  <2>3. CASE j \in 1 .. Len(t)
    BY <2>1, <2>3, <1>3, <1>10 DEF Embeds
  <2>4. QED
    BY <1>7, <2>2, <2>3
<1>11. ASSUME NEW k \in 1 .. n + 1, s[k] \in those
       PROVE  \E i \in 1 .. Len(u) : g[i] = k
  <2>1. CASE k = n + 1
    <3>1. Len(u) \in 1 .. Len(u)
      BY <1>1, <1>2
    <3>2. QED
      BY <2>1, <3>1, <1>3
  <2>2. CASE k # n + 1
    <3>1. k \in 1 .. n
      BY <2>2
    <3>2. PICK i \in 1 .. Len(t) : f[i] = k
      BY <1>11, <3>1 DEF Embeds
    <3>3. i \in 1 .. Len(u) /\ g[i] = k
      BY <3>2, <1>1, <1>2, <1>3
    <3>4. QED
      BY <3>3
  <2>3. QED
    BY <2>1, <2>2
<1>12. Embeds(u, s, those, n + 1, g)
  BY <1>8, <1>9, <1>10, <1>11 DEF Embeds
<1>13. QED
  BY <1>12 DEF u

\* Where returns the members of s that are among those, in their order.
LEMMA WhereEmbeds ==
    ASSUME NEW S, NEW s \in Seq(S), NEW those
    PROVE  /\ Where(s, those) \in Seq(S)
           /\ \E f : Embeds(Where(s, those), s, those, Len(s), f)
<1>1. PICK taken : Taken(s, those, taken) /\ Where(s, those) = taken[Len(s)]
  BY WhereUnfolds
<1> DEFINE Good(n) == taken[n] \in Seq(S) /\ \E f : Embeds(taken[n], s, those, n, f)
           T == {n \in 0 .. Len(s) : Good(n)}
<1>2. Len(s) \in Nat
  OBVIOUS
<1>3. taken[0] = <<>>
  BY <1>1, <1>2 DEF Taken
<1>4. \A k \in 0 .. Len(s) : k < Len(s) =>
        taken[k + 1] = IF s[k + 1] \in those THEN Append(taken[k], s[k + 1]) ELSE taken[k]
  <2>1. SUFFICES ASSUME NEW k \in 0 .. Len(s), k < Len(s)
        PROVE taken[k + 1] = IF s[k + 1] \in those THEN Append(taken[k], s[k + 1]) ELSE taken[k]
    OBVIOUS
  <2>2. k + 1 \in 0 .. Len(s) /\ k + 1 # 0 /\ k + 1 - 1 = k
    BY <1>2, <2>1
  <2>3. \A i \in 0 .. Len(s) : taken[i] =
           IF i = 0 THEN <<>> ELSE IF s[i] \in those THEN Append(taken[i - 1], s[i]) ELSE taken[i - 1]
    BY <1>1, Zenon DEF Taken
  <2>4. QED
    BY <2>2, <2>3
<1>5. Good(0)
  <2>1. Embeds(<<>>, s, those, 0, <<>>)
    <3>1. Len(<<>>) = 0 /\ 1 .. 0 = {} /\ <<>> \in [{} -> {}]
      OBVIOUS
    <3>2. QED
      BY <3>1 DEF Embeds
  <2>2. QED
    BY <1>3, <2>1
<1>6. \A k \in 0 .. Len(s) : k \in T /\ k < Len(s) => k + 1 \in T
  <2>1. SUFFICES ASSUME NEW k \in 0 .. Len(s), Good(k), k < Len(s) PROVE Good(k + 1)
    BY <1>2
  <2>2. PICK f : Embeds(taken[k], s, those, k, f)
    BY <2>1
  <2>3. k \in Nat /\ s[k + 1] \in S
    BY <1>2, <2>1
  <2>4. CASE s[k + 1] \in those
    <3>1. taken[k + 1] = Append(taken[k], s[k + 1])
      BY <1>4, <2>1, <2>4
    <3>2. \E g : Embeds(Append(taken[k], s[k + 1]), s, those, k + 1, g)
      BY <2>1, <2>2, <2>3, <2>4, EmbedsTake
    <3>3. QED
      BY <3>1, <3>2, <2>1, <2>3
  <2>5. CASE s[k + 1] \notin those
    <3>1. taken[k + 1] = taken[k]
      BY <1>4, <2>1, <2>5
    <3>2. Embeds(taken[k], s, those, k + 1, f)
      BY <2>1, <2>2, <2>3, <2>5, EmbedsSkip
    <3>3. QED
      BY <3>1, <3>2, <2>1
  <2>6. QED
    BY <2>4, <2>5
<1>7. Good(Len(s))
  <2>1. 0 \in T
    BY <1>2, <1>5
  <2> HIDE DEF T
  <2>2. Len(s) \in T
    <3>1. \A k \in 0 .. Len(s) : k \in T
      BY <1>2, <1>6, <2>1, StepByStep
    <3>2. QED
      BY <1>2, <3>1
  <2>3. QED
    BY <2>2 DEF T
<1>8. QED
  BY <1>1, <1>7

\* What does not depend on the order: the members.
LEMMA WhereHas ==
    ASSUME NEW S, NEW s \in Seq(S), NEW those
    PROVE  /\ Where(s, those) \in Seq(S)
           /\ Range(Where(s, those)) = {x \in Range(s) : x \in those}
<1> DEFINE t == Where(s, those)
<1>1. t \in Seq(S)
  BY WhereEmbeds
<1>2. PICK f : Embeds(t, s, those, Len(s), f)
  BY WhereEmbeds
<1>3. DOMAIN t = 1 .. Len(t) /\ DOMAIN s = 1 .. Len(s)
  <2> HIDE DEF t
  <2>1. QED
    BY <1>1
<1> HIDE DEF t
<1>4. ASSUME NEW x \in Range(t) PROVE x \in Range(s) /\ x \in those
  <2>1. PICK i \in 1 .. Len(t) : x = t[i]
    BY <1>3, <1>4 DEF Range
  <2>2. f[i] \in 1 .. Len(s) /\ t[i] = s[f[i]] /\ s[f[i]] \in those
    BY <1>2 DEF Embeds
  <2>3. QED
    BY <1>3, <2>1, <2>2 DEF Range
<1>5. ASSUME NEW x \in Range(s), x \in those PROVE x \in Range(t)
  <2>1. PICK k \in 1 .. Len(s) : x = s[k]
    BY <1>3, <1>5 DEF Range
  <2>2. PICK i \in 1 .. Len(t) : f[i] = k
    BY <1>2, <1>5, <2>1 DEF Embeds
  <2>3. t[i] = x
    BY <1>2, <2>1, <2>2 DEF Embeds
  <2>4. QED
    BY <1>3, <2>3 DEF Range
<1>6. QED
  BY <1>1, <1>4, <1>5 DEF t

-----------------------------------------------------------------------------
(* The inputs, and what is looked up in them *)

Inputs ==
    /\ strategy \in Strategies /\ discovery \in Discoveries
    /\ \A b \in Range(strategy.bindings) : b.candidate \in Range(discovery.found)
    /\ wiring \in {"planned", "loose", "cyclic"}

\* The candidates that the strategy binds.
BoundCandidates == {b.candidate : b \in Range(strategy.bindings)}

\* What the assumption says of the inputs.
LEMMA InputTypes ==
    ASSUME Inputs
    PROVE  /\ strategy.posture \in Postures /\ strategy.generates \in BOOLEAN
           /\ strategy.bindings \in Seq([role : Roles, candidate : Candidates])
           /\ strategy.posture = "GREENFIELD" => strategy.bindings = <<>> /\ strategy.generates
           /\ discovery.found \in Seq(Candidates)
           /\ DOMAIN discovery.facts = Range(discovery.found)
           /\ \A c \in Range(discovery.found) : discovery.facts[c] \in FactsOf(c)
           /\ discovery.claims \in Seq(Claims)
BY MaterializationAssumption DEF Inputs

\* A function that is a sequence has its members in its set.
LEMMA MembersOfSeq ==
    ASSUME NEW S, NEW s \in Seq(S)
    PROVE  /\ Range(s) \subseteq S
           /\ DOMAIN s = 1 .. Len(s) /\ Len(s) \in Nat
           /\ \A i \in 1 .. Len(s) : s[i] \in Range(s) /\ s[i] \in S
<1>1. DOMAIN s = 1 .. Len(s) /\ Len(s) \in Nat
  OBVIOUS
<1>2. \A i \in 1 .. Len(s) : s[i] \in S
  OBVIOUS
<1>3. \A i \in 1 .. Len(s) : s[i] \in Range(s)
  BY <1>1 DEF Range
<1>4. Range(s) \subseteq S
  BY <1>1, <1>2 DEF Range
<1>5. QED
  BY <1>1, <1>2, <1>3, <1>4

\* Bound candidates were found.
LEMMA BoundAreFound ==
    ASSUME Inputs
    PROVE  BoundCandidates \subseteq Range(discovery.found) /\ Range(discovery.found) \subseteq Candidates
<1>1. Range(discovery.found) \subseteq Candidates
  BY InputTypes, MembersOfSeq
<1>2. QED
  BY <1>1 DEF Inputs, BoundCandidates

\* The candidates of a kind are those found that are of the kind.
LEMMA FoundOfKind ==
    ASSUME Inputs, NEW kind
    PROVE  /\ Found(kind) \in Seq(Candidates)
           /\ Range(Found(kind)) = {c \in Range(discovery.found) : c \in kind}
BY InputTypes, WhereHas DEF Found

\* A role is bound to nobody, or to a candidate the strategy binds.
LEMMA BoundToIsBound ==
    ASSUME Inputs, NEW role
    PROVE  BoundTo(role) = NoOne \/ (BoundTo(role) \in BoundCandidates /\ BoundTo(role) \in Candidates)
<1> DEFINE I == {i \in 1 .. Len(strategy.bindings) : strategy.bindings[i].role = role}
           n == SelectInSeq(strategy.bindings, LAMBDA b : b.role = role)
<1>1. n = IF I # {} THEN Min(I) ELSE 0
  BY DEF SelectInSeq
<1>2. BoundTo(role) = IF n = 0 THEN NoOne ELSE strategy.bindings[n].candidate
  BY DEF BoundTo
<1>3. I \in SUBSET Nat /\ 0 \notin I
  OBVIOUS
<1>4. CASE I = {}
  BY <1>1, <1>2, <1>4
<1>5. CASE I # {}
  <2>1. Min(I) \in I
    <3> HIDE DEF I
    <3>1. QED
      BY <1>3, <1>5, MinIsLeast
  <2>2. n \in 1 .. Len(strategy.bindings) /\ n # 0
    BY <1>1, <1>3, <1>5, <2>1
  <2> HIDE DEF n, I
  <2>3. strategy.bindings[n] \in Range(strategy.bindings)
    <3>1. strategy.bindings \in Seq([role : Roles, candidate : Candidates])
      BY InputTypes
    <3>2. \A i \in 1 .. Len(strategy.bindings) : strategy.bindings[i] \in Range(strategy.bindings)
      BY <3>1, MembersOfSeq, Zenon
    <3>3. QED
      BY <2>2, <3>2
  <2>4. BoundTo(role) \in BoundCandidates
    BY <1>2, <2>2, <2>3 DEF BoundCandidates
  <2>5. QED
    BY <2>4, BoundAreFound
<1>6. QED
  BY <1>4, <1>5

\* A descriptor is found for a candidate when there is one.
LEMMA DescriptorOfCandidate ==
    ASSUME NEW D, NEW descriptors \in Seq(D), NEW c
    PROVE  \/ /\ DescriptorOf(descriptors, c) \in Range(descriptors)
              /\ DescriptorOf(descriptors, c).candidate = c
           \/ /\ DescriptorOf(descriptors, c) = NoDescriptor
              /\ \A d \in Range(descriptors) : d.candidate # c
<1> DEFINE I == {i \in 1 .. Len(descriptors) : descriptors[i].candidate = c}
           n == SelectInSeq(descriptors, LAMBDA d : d.candidate = c)
<1>1. n = IF I # {} THEN Min(I) ELSE 0
  BY DEF SelectInSeq
<1>2. DescriptorOf(descriptors, c) = IF n = 0 THEN NoDescriptor ELSE descriptors[n]
  BY DEF DescriptorOf
<1>3. I \in SUBSET Nat /\ 0 \notin I
  OBVIOUS
<1>4. CASE I = {}
  <2>1. \A d \in Range(descriptors) : d.candidate # c
    BY <1>4 DEF Range
  <2>2. QED
    BY <1>1, <1>2, <1>4, <2>1
<1>5. CASE I # {}
  <2>1. Min(I) \in I
    <3> HIDE DEF I
    <3>1. QED
      BY <1>3, <1>5, MinIsLeast
  <2>2. n \in 1 .. Len(descriptors) /\ n # 0 /\ descriptors[n].candidate = c
    BY <1>1, <1>3, <1>5, <2>1
  <2> HIDE DEF n, I
  <2>3. descriptors[n] \in Range(descriptors)
    <3>1. \A i \in 1 .. Len(descriptors) : descriptors[i] \in Range(descriptors)
      BY MembersOfSeq, Zenon
    <3>2. QED
      BY <2>2, <3>1
  <2>4. QED
    BY <1>2, <2>2, <2>3
<1>6. QED
  BY <1>4, <1>5

-----------------------------------------------------------------------------
(* The planned graph *)

\* What the later steps use of a node: its stage, and whom it is about.
Fits(n) ==
    /\ n.stage \in Stages
    /\ n.bindings \in Seq(Candidates) /\ Range(n.bindings) \subseteq BoundCandidates
    /\ n.assets \subseteq Candidates
    /\ n.stage = "clone_repository" =>
          /\ BoundTo("primary_repository") # NoOne
          /\ Range(n.bindings) \cup n.assets = {BoundTo("primary_repository")}
    /\ n.stage = "download_dataset" =>
          Range(n.bindings) \cup n.assets \in {{BoundTo("dataset")} \cap BoundCandidates, Range(Found(Datasets))}
    /\ n.stage = "download_checkpoints" =>
          Range(n.bindings) \cup n.assets \in {{BoundTo("checkpoint")} \cap BoundCandidates, Range(Found(Checkpoints))}
    /\ n.stage = "generate_config" =>
          Range(n.bindings) \cup n.assets = Range(Found(Configurations))

\* The stages in the order of their nodes.
StageOrder == <<"clone_repository", "prepare_environment", "download_dataset", "download_checkpoints",
                "generate_config", "training", "evaluation", "comparison">>

\* A candidate or nobody gives a sequence of at most one.
LEMMA JustOne ==
    ASSUME NEW c, c = NoOne \/ (c \in BoundCandidates /\ c \in Candidates)
    PROVE  /\ Just(c) \in Seq(Candidates) /\ Range(Just(c)) = {c} \cap BoundCandidates \cap Candidates
           /\ Range(Just(c)) = IF c = NoOne THEN {} ELSE {c}
<1>1. CASE c = NoOne
  <2>1. NoOne \notin Candidates
    BY MaterializationAssumption
  <2>2. Just(c) = <<>> /\ Range(<<>>) = {}
    BY <1>1 DEF Just, Range
  <2>3. <<>> \in Seq(Candidates)
    OBVIOUS
  <2>4. {c} \cap BoundCandidates \cap Candidates = {}
    BY <1>1, <2>1
  <2>5. QED
    BY <1>1, <2>2, <2>3, <2>4
<1>2. CASE c # NoOne
  <2>1. Just(c) = <<c>> /\ c \in Candidates /\ c \in BoundCandidates
    BY <1>2 DEF Just
  <2>2. DOMAIN <<c>> = {1} /\ <<c>>[1] = c
    OBVIOUS
  <2>3. Range(<<c>>) = {c}
    BY <2>2, Zenon DEF Range
  <2>4. <<c>> \in Seq(Candidates)
    BY <2>1
  <2>5. QED
    BY <1>2, <2>1, <2>3, <2>4
<1>3. QED
  BY <1>1, <1>2

\* A download is about the bound asset, or about all of its kind.
LEMMA DownloadFits ==
    ASSUME Inputs, NEW role, NEW kind, NEW name \in Stages \ {"clone_repository", "generate_config"},
           NEW when, NEW n, n = Node(name, when, Just(BoundTo(role)), BoundOr(role, kind))
    PROVE  /\ n.stage = name
           /\ n.bindings \in Seq(Candidates) /\ Range(n.bindings) \subseteq BoundCandidates
           /\ n.assets \subseteq Candidates
           /\ Range(n.bindings) \cup n.assets \in {{BoundTo(role)} \cap BoundCandidates, Range(Found(kind))}
<1>1. n.stage = name /\ n.bindings = Just(BoundTo(role)) /\ n.assets = BoundOr(role, kind)
  BY DEF Node
<1>2. BoundTo(role) = NoOne \/ (BoundTo(role) \in BoundCandidates /\ BoundTo(role) \in Candidates)
  BY BoundToIsBound
<1>3. /\ n.bindings \in Seq(Candidates)
      /\ Range(n.bindings) = IF BoundTo(role) = NoOne THEN {} ELSE {BoundTo(role)}
  BY <1>1, <1>2, JustOne
<1>4. n.assets = IF BoundTo(role) = NoOne THEN Range(Found(kind)) ELSE {BoundTo(role)}
  BY <1>1 DEF BoundOr
<1>5. Range(Found(kind)) \subseteq Candidates
  BY FoundOfKind, BoundAreFound
<1>6. QED
  BY <1>1, <1>2, <1>3, <1>4, <1>5

\* The nodes of the stages, those that apply as the later steps use them.
LEMMA StageNodesFit ==
    ASSUME Inputs
    PROVE  /\ StageNodes \in Seq({StageNodes[i] : i \in 1 .. 8}) /\ Len(StageNodes) = 8
           /\ \A i \in 1 .. 8 : StageNodes[i].stage = StageOrder[i]
           /\ \A i \in 1 .. 8 : StageNodes[i].when => Fits(StageNodes[i])
           /\ StageNodes[2].when = TRUE
<1> DEFINE bound == [i \in DOMAIN strategy.bindings |-> strategy.bindings[i].candidate]
           reuses == strategy.posture # "GREENFIELD"
           repository == BoundTo("primary_repository")
<1>1. Len(StageNodes) = 8 /\ \E a1, a2, a3, a4, a5, a6, a7, a8 : StageNodes = <<a1, a2, a3, a4, a5, a6, a7, a8>>
  <2>1. \E a1, a2, a3, a4, a5, a6, a7, a8 : StageNodes = <<a1, a2, a3, a4, a5, a6, a7, a8>>
    BY Zenon DEF StageNodes
  <2>2. QED
    BY <2>1
<1>2. StageNodes \in Seq({StageNodes[i] : i \in 1 .. 8})
  <2>1. DOMAIN StageNodes = 1 .. 8 /\ StageNodes = [i \in 1 .. 8 |-> StageNodes[i]]
    BY <1>1
  <2>2. QED
    BY <2>1, SeqDef
<1>3. /\ StageNodes[1] = Node("clone_repository", reuses /\ repository # NoOne, Just(repository), {repository})
      /\ StageNodes[2] = Node("prepare_environment", TRUE, <<>>, {})
      /\ StageNodes[3] = Node("download_dataset", BoundTo("dataset") # NoOne \/ discovery.needsDataset,
                              Just(BoundTo("dataset")), BoundOr("dataset", Datasets))
      /\ StageNodes[4] = Node("download_checkpoints",
                              BoundTo("checkpoint") # NoOne \/ strategy.posture = "HYBRID",
                              Just(BoundTo("checkpoint")), BoundOr("checkpoint", Checkpoints))
      /\ StageNodes[5] = Node("generate_config", strategy.generates, <<>>, Range(Found(Configurations)))
      /\ StageNodes[6] = Node("training", reuses \/ ~strategy.generates, bound, Range(bound))
      /\ StageNodes[7] = Node("evaluation", TRUE, <<>>, {})
      /\ StageNodes[8] = Node("comparison", TRUE, <<>>, {})
  BY DEF StageNodes
<1>4. \A i \in 1 .. 8 : StageNodes[i].stage = StageOrder[i]
  BY <1>3 DEF Node, StageOrder
<1>5. \A i \in 1 .. 8 : StageOrder[i] \in Stages
  BY DEF StageOrder, Stages
<1>6. <<>> \in Seq(Candidates) /\ Range(<<>>) = {}
  BY DEF Range
<1>7. ASSUME StageNodes[1].when PROVE Fits(StageNodes[1])
  <2>1. repository # NoOne
    <3>1. \A when : Node("clone_repository", when, Just(repository), {repository}).when = when
      BY Zenon DEF Node
    <3>2. StageNodes[1].when = (reuses /\ repository # NoOne)
      BY <1>3, <3>1, Zenon
    <3>3. QED
      BY <1>7, <3>2, Zenon
  <2>2. repository \in BoundCandidates /\ repository \in Candidates
    BY <2>1, BoundToIsBound
  <2>3. /\ StageNodes[1].stage = "clone_repository" /\ StageNodes[1].bindings = Just(repository)
        /\ StageNodes[1].assets = {repository}
    BY <1>3 DEF Node
  <2>4. Just(repository) \in Seq(Candidates) /\ Range(Just(repository)) = {repository}
    BY <2>1, <2>2, JustOne
  <2>5. "clone_repository" \in Stages
    BY DEF Stages
  <2>6. QED
    BY <2>1, <2>2, <2>3, <2>4, <2>5 DEF Fits
<1>8. Fits(StageNodes[2]) /\ Fits(StageNodes[7]) /\ Fits(StageNodes[8])
  <2>1. \A i \in {2, 7, 8} : /\ StageNodes[i].stage \in Stages /\ StageNodes[i].bindings = <<>>
                             /\ StageNodes[i].assets = {} /\ StageNodes[i].stage \notin PreparationStages
    BY <1>3 DEF Node, Stages, PreparationStages
  <2>2. QED
    BY <1>6, <2>1 DEF Fits, PreparationStages
<1>9. Fits(StageNodes[3])
  <2> DEFINE n == StageNodes[3]
  <2>1. "download_dataset" \in Stages \ {"clone_repository", "generate_config"}
    BY DEF Stages
  <2>2. n = Node("download_dataset", BoundTo("dataset") # NoOne \/ discovery.needsDataset,
                 Just(BoundTo("dataset")), BoundOr("dataset", Datasets))
    BY <1>3
  <2> HIDE DEF n
  <2>3. /\ n.stage = "download_dataset" /\ n.bindings \in Seq(Candidates)
        /\ Range(n.bindings) \subseteq BoundCandidates /\ n.assets \subseteq Candidates
        /\ Range(n.bindings) \cup n.assets \in {{BoundTo("dataset")} \cap BoundCandidates, Range(Found(Datasets))}
    BY <2>1, <2>2, DownloadFits
  <2>4. Fits(n)
    BY <2>1, <2>3 DEF Fits
  <2>5. QED
    BY <2>4 DEF n
<1>10. Fits(StageNodes[4])
  <2> DEFINE n == StageNodes[4]
  <2>1. "download_checkpoints" \in Stages \ {"clone_repository", "generate_config"}
    BY DEF Stages
  <2>2. n = Node("download_checkpoints", BoundTo("checkpoint") # NoOne \/ strategy.posture = "HYBRID",
                 Just(BoundTo("checkpoint")), BoundOr("checkpoint", Checkpoints))
    BY <1>3
  <2> HIDE DEF n
  <2>3. /\ n.stage = "download_checkpoints" /\ n.bindings \in Seq(Candidates)
        /\ Range(n.bindings) \subseteq BoundCandidates /\ n.assets \subseteq Candidates
        /\ Range(n.bindings) \cup n.assets \in {{BoundTo("checkpoint")} \cap BoundCandidates, Range(Found(Checkpoints))}
    BY <2>1, <2>2, DownloadFits
  <2>4. Fits(n)
    BY <2>1, <2>3 DEF Fits
  <2>5. QED
    BY <2>4 DEF n
<1>11. Fits(StageNodes[5])
  <2>1. /\ StageNodes[5].stage = "generate_config" /\ StageNodes[5].bindings = <<>>
        /\ StageNodes[5].assets = Range(Found(Configurations)) /\ "generate_config" \in Stages
    BY <1>3 DEF Node, Stages
  <2>2. Range(Found(Configurations)) \subseteq Candidates
    BY FoundOfKind, BoundAreFound
  <2>3. QED
    BY <1>6, <2>1, <2>2 DEF Fits
<1>12. Fits(StageNodes[6])
  <2>1. strategy.bindings \in Seq([role : Roles, candidate : Candidates])
    BY InputTypes
  <2>2. /\ DOMAIN strategy.bindings = 1 .. Len(strategy.bindings) /\ Len(strategy.bindings) \in Nat
        /\ \A i \in 1 .. Len(strategy.bindings) : strategy.bindings[i] \in [role : Roles, candidate : Candidates]
    BY <2>1, MembersOfSeq, Zenon
  <2>3. bound \in Seq(Candidates)
    <3>1. \A i \in 1 .. Len(strategy.bindings) : strategy.bindings[i].candidate \in Candidates
      BY <2>2
    <3>2. QED
      BY <2>2, <3>1
  <2>4. Range(bound) \subseteq BoundCandidates /\ BoundCandidates \subseteq Candidates
    <3>1. Range(bound) \subseteq BoundCandidates
      BY DEF Range, BoundCandidates
    <3>2. QED
      BY <3>1, BoundAreFound
  <2>5. /\ StageNodes[6].stage = "training" /\ StageNodes[6].bindings = bound
        /\ StageNodes[6].assets = Range(bound) /\ "training" \in Stages
    BY <1>3 DEF Node, Stages
  <2> HIDE DEF bound
  <2>6. QED
    BY <2>3, <2>4, <2>5 DEF Fits
<1>13. \A i \in 1 .. 8 : StageNodes[i].when => Fits(StageNodes[i])
  <2>1. \A i \in 1 .. 8 : i \in {1, 2, 3, 4, 5, 6, 7, 8}
    OBVIOUS
  <2>2. QED
    BY <1>7, <1>8, <1>9, <1>10, <1>11, <1>12, <2>1
<1>14. StageNodes[2].when = TRUE
  BY <1>3 DEF Node
<1>15. QED
  BY <1>1, <1>2, <1>4, <1>13, <1>14

\* What planning makes of the inputs: nodes that fit, of different stages, the clone
\* first; dependencies on nodes of the graph, and in a planned graph on the one before.
Planned(g) ==
    /\ DOMAIN g = 1 .. Len(g) /\ Len(g) \in Nat \ {0}
    /\ \A i \in 1 .. Len(g) : Fits(g[i])
    /\ \A i, j \in 1 .. Len(g) : g[i].stage = g[j].stage => i = j
    /\ \A i \in 1 .. Len(g) : g[i].stage = "clone_repository" => i = 1
    /\ \A i \in 1 .. Len(g) : g[i].depends \subseteq {g[j].stage : j \in 1 .. Len(g)}
    /\ wiring = "planned" =>
          \A i \in 1 .. Len(g) : g[i].depends = IF i = 1 THEN {} ELSE {g[i - 1].stage}

\* A function on the numbers up to n is a sequence of that length.
LEMMA FunctionIsSeq ==
    ASSUME NEW n \in Nat, NEW f, DOMAIN f = 1 .. n, f = [i \in 1 .. n |-> f[i]]
    PROVE  f \in Seq({f[i] : i \in 1 .. n}) /\ Len(f) = n
<1>1. f \in [1 .. n -> {f[i] : i \in 1 .. n}]
  OBVIOUS
<1>2. f \in Seq({f[i] : i \in 1 .. n})
  BY <1>1, SeqDef
<1>3. Len(f) \in Nat /\ DOMAIN f = 1 .. Len(f)
  BY <1>2
<1>4. QED
  BY <1>2, <1>3

\* The nodes that apply fit, and keep the order of the stages.
LEMMA PlannedNodesFit ==
    ASSUME Inputs
    PROVE  /\ DOMAIN PlannedNodes = 1 .. Len(PlannedNodes) /\ Len(PlannedNodes) \in Nat \ {0}
           /\ \A i \in 1 .. Len(PlannedNodes) : Fits(PlannedNodes[i])
           /\ \A i, j \in 1 .. Len(PlannedNodes) : PlannedNodes[i].stage = PlannedNodes[j].stage => i = j
           /\ \A i \in 1 .. Len(PlannedNodes) : PlannedNodes[i].stage = "clone_repository" => i = 1
<1> DEFINE those == {n \in Range(StageNodes) : n.when}
           S == {StageNodes[i] : i \in 1 .. 8}
           t == Where(StageNodes, those)
<1>1. t = PlannedNodes
  BY DEF PlannedNodes
<1>2. /\ StageNodes \in Seq(S) /\ Len(StageNodes) = 8
      /\ \A i \in 1 .. 8 : StageNodes[i].stage = StageOrder[i]
      /\ \A i \in 1 .. 8 : StageNodes[i].when => Fits(StageNodes[i])
      /\ StageNodes[2].when = TRUE
  BY StageNodesFit
<1>3. DOMAIN StageNodes = 1 .. 8 /\ \A i \in 1 .. 8 : StageNodes[i] \in Range(StageNodes)
  <2> HIDE DEF S
  <2>1. DOMAIN StageNodes = 1 .. Len(StageNodes)
        /\ \A i \in 1 .. Len(StageNodes) : StageNodes[i] \in Range(StageNodes)
    BY <1>2, MembersOfSeq, Zenon
  <2>2. QED
    BY <1>2, <2>1
<1>4. StageNodes[2] \in those
  BY <1>2, <1>3
<1> HIDE DEF S
<1>5. PICK f : t \in Seq(S) /\ Embeds(t, StageNodes, those, Len(StageNodes), f)
  BY <1>2, WhereEmbeds
<1>6. DOMAIN t = 1 .. Len(t) /\ Len(t) \in Nat
  <2> HIDE DEF t
  <2>1. QED
    BY <1>5
<1> HIDE DEF t
<1>7. \A i \in 1 .. Len(t) : f[i] \in 1 .. 8 /\ t[i] = StageNodes[f[i]] /\ StageNodes[f[i]] \in those
  BY <1>2, <1>5 DEF Embeds
<1>8. \A i, j \in 1 .. Len(t) : i < j => f[i] < f[j]
  BY <1>5 DEF Embeds
<1>9. \A i \in 1 .. Len(t) : t[i].stage = StageOrder[f[i]] /\ t[i].when
  <2>1. ASSUME NEW i \in 1 .. Len(t) PROVE t[i].stage = StageOrder[f[i]] /\ t[i].when
    <3>1. f[i] \in 1 .. 8 /\ t[i] = StageNodes[f[i]] /\ StageNodes[f[i]] \in those
      BY <1>7, <2>1
    <3>2. QED
      BY <1>2, <3>1, Zenon
  <2>2. QED
    BY <2>1
<1>10. \A k, m \in 1 .. 8 : StageOrder[k] = StageOrder[m] => k = m
  BY DEF StageOrder
<1>11. \A k \in 1 .. 8 : StageOrder[k] = "clone_repository" => k = 1
  BY DEF StageOrder
<1>12. Len(t) # 0
  <2>1. 2 \in 1 .. Len(StageNodes)
    BY <1>2
  <2>2. \E i \in 1 .. Len(t) : f[i] = 2
    BY <1>4, <1>5, <2>1 DEF Embeds
  <2>3. QED
    BY <1>6, <2>2
<1>13. \A i \in 1 .. Len(t) : Fits(t[i])
  BY <1>2, <1>7, <1>9
<1>14. ASSUME NEW i \in 1 .. Len(t), NEW j \in 1 .. Len(t), t[i].stage = t[j].stage
       PROVE  i = j
  <2>1. f[i] = f[j]
    <3>1. StageOrder[f[i]] = StageOrder[f[j]]
      BY <1>9, <1>14, Zenon
    <3>2. f[i] \in 1 .. 8 /\ f[j] \in 1 .. 8
      BY <1>7
    <3>3. QED
      BY <1>10, <3>1, <3>2, Zenon
  <2>2. f[i] \in Nat
    BY <1>7
  <2>3. QED
    BY <1>6, <1>8, <2>1, <2>2
<1>15. ASSUME NEW i \in 1 .. Len(t), t[i].stage = "clone_repository"
       PROVE  i = 1
  <2>1. f[i] = 1
    <3>1. f[i] \in 1 .. 8 /\ StageOrder[f[i]] = "clone_repository"
      BY <1>7, <1>9, <1>15
    <3>2. QED
      BY <1>11, <3>1, Zenon
  <2>2. CASE i # 1
    <3>1. 1 \in 1 .. Len(t) /\ 1 < i
      BY <1>6, <2>2
    <3>2. f[1] \in 1 .. 8 /\ f[1] < f[i]
      BY <1>7, <1>8, <3>1
    <3>3. QED
      BY <2>1, <3>2
  <2>3. QED
    BY <2>2
<1>16. QED
  BY <1>1, <1>6, <1>12, <1>13, <1>14, <1>15

\* build_execution_graph makes such a graph.
LEMMA GraphIsPlanned ==
    ASSUME Inputs
    PROVE  Planned(GraphOf(PlannedNodes))
<1> DEFINE nodes == PlannedNodes
           g == GraphOf(nodes)
<1>1. /\ DOMAIN nodes = 1 .. Len(nodes) /\ Len(nodes) \in Nat \ {0}
      /\ \A i \in 1 .. Len(nodes) : Fits(nodes[i])
      /\ \A i, j \in 1 .. Len(nodes) : nodes[i].stage = nodes[j].stage => i = j
      /\ \A i \in 1 .. Len(nodes) : nodes[i].stage = "clone_repository" => i = 1
  BY PlannedNodesFit
<1> HIDE DEF nodes
<1>2. DOMAIN g = 1 .. Len(nodes) /\ g = [i \in 1 .. Len(nodes) |-> g[i]]
  BY <1>1 DEF GraphOf
<1>3. \A i \in 1 .. Len(nodes) :
         /\ g[i].stage = nodes[i].stage /\ g[i].bindings = nodes[i].bindings
         /\ g[i].assets = nodes[i].assets /\ g[i].depends = Dependencies(nodes, i)
  BY <1>1 DEF GraphOf
<1> HIDE DEF g
<1>4. Len(g) = Len(nodes)
  BY <1>1, <1>2, FunctionIsSeq
<1>5. \A i \in 1 .. Len(g) : Fits(g[i])
  <2>1. ASSUME NEW i \in 1 .. Len(nodes) PROVE Fits(g[i])
    <3>1. Fits(nodes[i])
      BY <1>1, <2>1, Zenon
    <3>2. /\ g[i].stage = nodes[i].stage /\ g[i].bindings = nodes[i].bindings
          /\ g[i].assets = nodes[i].assets
      BY <1>3, <2>1, Zenon
    <3>3. QED
      BY <3>1, <3>2, Zenon DEF Fits
  <2>2. QED
    BY <1>4, <2>1
<1>6. \A i \in 1 .. Len(g) : Dependencies(nodes, i) \subseteq {nodes[j].stage : j \in 1 .. Len(nodes)}
  <2>1. Last(nodes) = nodes[Len(nodes)] /\ Len(nodes) \in 1 .. Len(nodes)
    BY <1>1 DEF Last
  <2>2. \A i \in 1 .. Len(nodes) : i # 1 => i - 1 \in 1 .. Len(nodes)
    BY <1>1
  <2>3. QED
    BY <1>4, <2>1, <2>2 DEF Dependencies, ChainedTo, Inputs
<1>7. \A i \in 1 .. Len(g) : g[i].depends \subseteq {g[j].stage : j \in 1 .. Len(g)}
  BY <1>3, <1>4, <1>6
<1>8. wiring = "planned" =>
        \A i \in 1 .. Len(g) : g[i].depends = IF i = 1 THEN {} ELSE {g[i - 1].stage}
  <2>1. \A i \in 1 .. Len(nodes) : i # 1 => i - 1 \in 1 .. Len(nodes)
    BY <1>1
  <2>2. QED
    BY <1>3, <1>4, <2>1 DEF Dependencies, ChainedTo
<1>9. QED
  BY <1>1, <1>2, <1>3, <1>4, <1>5, <1>7, <1>8 DEF Planned, g, nodes

-----------------------------------------------------------------------------
(* Ancestors and order *)

\* What n turns of w make of x.
Iterates(w, x, n, f) == f = [k \in 0 .. n |-> IF k = 0 THEN x ELSE w[f[k - 1]]]

\* An iteration is a function.
LEMMA IterationExists ==
    ASSUME NEW D, NEW w \in [D -> D], NEW x \in D, NEW n \in Nat
    PROVE  \E f : Iterates(w, x, n, f) /\ \A k \in 0 .. n : f[k] \in D
<1> DEFINE Upto(m, f) == Iterates(w, x, m, f) /\ \A k \in 0 .. m : f[k] \in D
           T == {m \in 0 .. n : \E f : Upto(m, f)}
<1>1. 0 \in T
  <2> DEFINE f == [k \in 0 .. 0 |-> x]
  <2>1. f[0] = x
    OBVIOUS
  <2>2. Upto(0, f)
    BY <2>1 DEF Iterates
  <2>3. \E h : Upto(0, h)
    BY <2>2
  <2> HIDE DEF Upto
  <2>4. QED
    BY <2>3
<1>2. ASSUME NEW k \in 0 .. n, k \in T, k < n
      PROVE  k + 1 \in T
  <2>1. PICK f : Upto(k, f)
    BY <1>2
  <2> DEFINE h == [j \in 0 .. k + 1 |-> IF j = k + 1 THEN w[f[k]] ELSE f[j]]
  <2>2. h[k + 1] = w[f[k]] /\ \A j \in 0 .. k : h[j] = f[j]
    OBVIOUS
  <2>3. f[0] = x /\ \A j \in 1 .. k : f[j] = w[f[j - 1]]
    <3>1. \A j \in 0 .. k : f[j] = IF j = 0 THEN x ELSE w[f[j - 1]]
      BY <2>1, Zenon DEF Iterates
    <3>2. QED
      BY <3>1
  <2>4. h = [j \in 0 .. k + 1 |-> h[j]]
    OBVIOUS
  <2> HIDE DEF h
  <2>5. \A j \in 0 .. k + 1 : h[j] = IF j = 0 THEN x ELSE w[h[j - 1]]
    <3>1. SUFFICES ASSUME NEW j \in 0 .. k + 1 PROVE h[j] = IF j = 0 THEN x ELSE w[h[j - 1]]
      OBVIOUS
    <3>2. CASE j = 0
      BY <2>2, <2>3, <3>2
    <3>3. CASE j = k + 1
      <4>1. j # 0 /\ j - 1 = k /\ k \in 0 .. k
        BY <3>3
      <4>2. QED
        BY <2>2, <3>3, <4>1
    <3>4. CASE j # 0 /\ j # k + 1
      <4>1. j \in 1 .. k /\ j - 1 \in 0 .. k /\ j \in 0 .. k
        BY <3>4
      <4>2. QED
        BY <2>2, <2>3, <3>4, <4>1
    <3>5. QED
      BY <3>2, <3>3, <3>4
  <2>6. Iterates(w, x, k + 1, h)
    BY <2>4, <2>5 DEF Iterates
  <2>7. \A j \in 0 .. k + 1 : h[j] \in D
    <3>1. \A j \in 0 .. k : f[j] \in D
      BY <2>1
    <3>2. w[f[k]] \in D
      BY <3>1
    <3>3. \A j \in 0 .. k + 1 : j = k + 1 \/ j \in 0 .. k
      OBVIOUS
    <3>4. QED
      BY <2>2, <3>1, <3>2, <3>3
  <2>8. \E u : Upto(k + 1, u)
    BY <2>6, <2>7
  <2>9. k + 1 \in 0 .. n
    BY <1>2
  <2> HIDE DEF Upto
  <2>10. QED
    BY <2>8, <2>9
<1>3. n \in T
  <2> HIDE DEF T
  <2>1. \A k \in 0 .. n : k \in T /\ k < n => k + 1 \in T
    BY <1>2
  <2>2. \A k \in 0 .. n : k \in T
    BY <1>1, <2>1, StepByStep
  <2>3. QED
    BY <2>2
<1>4. QED
  BY <1>3

\* In a planned graph a name stands for its node.
LEMMA NamedNode ==
    ASSUME Planned(graph)
    PROVE  /\ Names = {graph[i].stage : i \in 1 .. Len(graph)}
           /\ \A i \in 1 .. Len(graph) : Named(graph[i].stage) = i
<1>1. Names = {graph[i].stage : i \in 1 .. Len(graph)}
  BY DEF Planned, Names
<1>2. ASSUME NEW i \in 1 .. Len(graph) PROVE Named(graph[i].stage) = i
  <2>1. DOMAIN graph = 1 .. Len(graph) /\ \A j \in 1 .. Len(graph) : graph[j].stage = graph[i].stage => i = j
    BY DEF Planned
  <2>2. QED
    BY <2>1 DEF Named
<1>3. QED
  BY <1>1, <1>2

Parents(names) == UNION {graph[Named(n)].depends : n \in names}

\* Parents of nodes of the graph are nodes of it.
LEMMA ParentsAreNodes ==
    ASSUME Planned(graph), NEW names \in SUBSET Names
    PROVE  Parents(names) \in SUBSET Names
<1>1. SUFFICES ASSUME NEW n \in names PROVE graph[Named(n)].depends \subseteq Names
  BY DEF Parents
<1>2. PICK i \in 1 .. Len(graph) : n = graph[i].stage
  BY NamedNode
<1>3. QED
  BY <1>2, NamedNode DEF Planned

\* Ancestors goes up the graph, as many times as it has nodes.
LEMMA AncestorsUnfold ==
    ASSUME Planned(graph), NEW name \in Names
    PROVE  \E f : /\ f[0] = Parents({name})
                  /\ \A k \in 1 .. Len(graph) : f[k] = f[k - 1] \cup Parents(f[k - 1])
                  /\ Ancestors(name) = f[Len(graph)]
<1> DEFINE D == SUBSET Names
           w == [names \in D |-> names \cup Parents(names)]
           x == Parents({name})
           n == Len(graph)
<1>1. n \in Nat
  BY DEF Planned
<1>2. w \in [D -> D]
  BY ParentsAreNodes
<1>3. x \in D
  BY ParentsAreNodes
<1> HIDE DEF w, x, D
<1>4. PICK f : Iterates(w, x, n, f) /\ \A k \in 0 .. n : f[k] \in D
  BY <1>1, <1>2, <1>3, IterationExists
<1>5. \A k \in 0 .. n : f[k] = IF k = 0 THEN x ELSE w[f[k - 1]]
  BY <1>4, Zenon DEF Iterates
<1>6. f = [k \in 0 .. n |-> f[k]]
  BY <1>4, Zenon DEF Iterates
<1>7. ASSUME NEW k \in 0 .. n
      PROVE  f[k] = IF k = 0 THEN Parents({name}) ELSE f[k - 1] \cup Parents(f[k - 1])
  <2>1. CASE k = 0
    BY <1>5, <2>1 DEF x
  <2>2. CASE k # 0
    <3>1. k - 1 \in 0 .. n
      BY <1>1, <2>2
    <3>2. f[k - 1] \in D
      BY <1>4, <3>1
    <3>3. w[f[k - 1]] = f[k - 1] \cup Parents(f[k - 1])
      BY <3>2 DEF w
    <3>4. QED
      BY <1>5, <2>2, <3>3
  <2>3. QED
    BY <2>1, <2>2
<1>8. f = [k \in 0 .. n |-> IF k = 0 THEN Parents({name}) ELSE f[k - 1] \cup Parents(f[k - 1])]
  BY <1>6, <1>7
<1> DEFINE g == CHOOSE within : within =
                  [k \in 0 .. n |-> IF k = 0 THEN Parents({name}) ELSE within[k - 1] \cup Parents(within[k - 1])]
<1>9. g = [k \in 0 .. n |-> IF k = 0 THEN Parents({name}) ELSE g[k - 1] \cup Parents(g[k - 1])]
  BY <1>8
<1>10. Ancestors(name) = g[n]
  BY DEF Ancestors, Parents
<1> HIDE DEF g
<1>11. \A k \in 0 .. n : g[k] = IF k = 0 THEN Parents({name}) ELSE g[k - 1] \cup Parents(g[k - 1])
  BY <1>9, Zenon
<1>12. g[0] = Parents({name}) /\ \A k \in 1 .. n : g[k] = g[k - 1] \cup Parents(g[k - 1])
  <2>1. 0 \in 0 .. n /\ \A k \in 1 .. n : k # 0 /\ k \in 0 .. n
    BY <1>1
  <2>2. QED
    BY <1>11, <2>1
<1>13. QED
  BY <1>10, <1>12

\* Acyclic releases nodes, as many times as there are.
LEMMA AcyclicUnfold ==
    ASSUME Planned(graph)
    PROVE  \E f : /\ f[0] = {}
                  /\ \A k \in 1 .. Len(graph) : f[k] = Released(f[k - 1])
                  /\ Acyclic <=> f[Len(graph)] = Names
<1> DEFINE D == SUBSET Names
           w == [names \in D |-> Released(names)]
           n == Len(graph)
<1>1. n \in Nat
  BY DEF Planned
<1>2. w \in [D -> D] /\ {} \in D
  BY DEF Released
<1> HIDE DEF w, D
<1>3. PICK f : Iterates(w, {}, n, f) /\ \A k \in 0 .. n : f[k] \in D
  BY <1>1, <1>2, IterationExists
<1>4. \A k \in 0 .. n : f[k] = IF k = 0 THEN {} ELSE w[f[k - 1]]
  BY <1>3, Zenon DEF Iterates
<1>5. f = [k \in 0 .. n |-> f[k]]
  BY <1>3, Zenon DEF Iterates
<1>6. ASSUME NEW k \in 0 .. n
      PROVE  f[k] = IF k = 0 THEN {} ELSE Released(f[k - 1])
  <2>1. CASE k = 0
    BY <1>4, <2>1
  <2>2. CASE k # 0
    <3>1. k - 1 \in 0 .. n
      BY <1>1, <2>2
    <3>2. f[k - 1] \in D
      BY <1>3, <3>1
    <3>3. w[f[k - 1]] = Released(f[k - 1])
      BY <3>2 DEF w
    <3>4. QED
      BY <1>4, <2>2, <3>3
  <2>3. QED
    BY <2>1, <2>2
<1>7. f = [k \in 0 .. n |-> IF k = 0 THEN {} ELSE Released(f[k - 1])]
  BY <1>5, <1>6
<1> DEFINE g == CHOOSE visited : visited = [k \in 0 .. n |-> IF k = 0 THEN {} ELSE Released(visited[k - 1])]
<1>8. g = [k \in 0 .. n |-> IF k = 0 THEN {} ELSE Released(g[k - 1])]
  BY <1>7
<1>9. Acyclic <=> g[n] = Names
  BY DEF Acyclic
<1> HIDE DEF g
<1>10. \A k \in 0 .. n : g[k] = IF k = 0 THEN {} ELSE Released(g[k - 1])
  BY <1>8, Zenon
<1>11. g[0] = {} /\ \A k \in 1 .. n : g[k] = Released(g[k - 1])
  <2>1. 0 \in 0 .. n /\ \A k \in 1 .. n : k # 0 /\ k \in 0 .. n
    BY <1>1
  <2>2. QED
    BY <1>10, <2>1
<1>12. QED
  BY <1>9, <1>11

\* In a graph as planned every node comes after all that are before it.
LEMMA AncestorsOfChain ==
    ASSUME Planned(graph), wiring = "planned", NEW i \in 1 .. Len(graph), NEW j \in 1 .. Len(graph), j < i
    PROVE  graph[j].stage \in Ancestors(graph[i].stage)
<1> DEFINE n == Len(graph)
<1>1. n \in Nat /\ i \in Nat /\ j \in Nat
  BY DEF Planned
<1>2. graph[i].stage \in Names
  BY NamedNode
<1>3. PICK f : /\ f[0] = Parents({graph[i].stage})
               /\ \A k \in 1 .. n : f[k] = f[k - 1] \cup Parents(f[k - 1])
               /\ Ancestors(graph[i].stage) = f[n]
  BY <1>2, AncestorsUnfold
<1>4. \A m \in 1 .. n : m # 1 => m - 1 \in 1 .. n /\ graph[m].depends = {graph[m - 1].stage}
  <2>1. \A m \in 1 .. n : graph[m].depends = IF m = 1 THEN {} ELSE {graph[m - 1].stage}
    BY DEF Planned
  <2>2. \A m \in 1 .. n : m # 1 => m - 1 \in 1 .. n
    BY <1>1
  <2>3. QED
    BY <2>1, <2>2
<1>5. \A m \in 1 .. n : Named(graph[m].stage) = m
  BY NamedNode
<1>6. ASSUME NEW names, NEW m \in 1 .. n, m # 1, graph[m].stage \in names
      PROVE  graph[m - 1].stage \in Parents(names)
  <2>1. graph[m - 1].stage \in graph[Named(graph[m].stage)].depends
    BY <1>4, <1>5, <1>6
  <2>2. QED
    BY <1>6, <2>1 DEF Parents
<1> DEFINE T == {k \in 0 .. n : \A m \in 1 .. i - 1 : i - 1 - k <= m => graph[m].stage \in f[k]}
<1>7. 0 \in T
  <2>1. graph[i - 1].stage \in f[0]
    <3>1. i # 1
      BY <1>1
    <3>2. QED
      BY <1>3, <1>6, <3>1
  <2>2. \A m \in 1 .. i - 1 : i - 1 - 0 <= m => m = i - 1
    BY <1>1
  <2>3. QED
    BY <1>1, <2>1, <2>2
<1>8. \A k \in 0 .. n : k \in T /\ k < n => k + 1 \in T
  <2>1. SUFFICES ASSUME NEW k \in 0 .. n, k \in T, k < n,
                        NEW m \in 1 .. i - 1, i - 1 - (k + 1) <= m
                 PROVE  graph[m].stage \in f[k + 1]
    BY <1>1
  <2>2. k + 1 \in 1 .. n /\ k + 1 - 1 = k
    BY <1>1, <2>1
  <2>3. f[k + 1] = f[k] \cup Parents(f[k])
    BY <1>3, <2>2
  <2>4. CASE i - 1 - k <= m
    BY <2>1, <2>3, <2>4
  <2>5. CASE ~(i - 1 - k <= m)
    <3>1. m + 1 \in 1 .. i - 1 /\ i - 1 - k <= m + 1 /\ m + 1 \in 1 .. n /\ m + 1 # 1 /\ m + 1 - 1 = m
      BY <1>1, <2>1, <2>5
    <3>2. graph[m + 1].stage \in f[k]
      BY <2>1, <3>1
    <3>3. graph[m + 1 - 1].stage \in Parents(f[k])
      BY <1>6, <3>1, <3>2
    <3>4. QED
      BY <2>3, <3>1, <3>3
  <2>6. QED
    BY <2>4, <2>5
<1>9. n \in T
  <2> HIDE DEF T
  <2>1. \A k \in 0 .. n : k \in T
    BY <1>1, <1>7, <1>8, StepByStep
  <2>2. QED
    BY <1>1, <2>1
<1>10. j \in 1 .. i - 1 /\ i - 1 - n <= j
  BY <1>1
<1>11. QED
  BY <1>3, <1>9, <1>10

\* A graph as planned is acyclic.
LEMMA ChainIsAcyclic ==
    ASSUME Planned(graph), wiring = "planned"
    PROVE  Acyclic
<1> DEFINE n == Len(graph)
           Upto(k) == {graph[m].stage : m \in 1 .. k}
<1>1. n \in Nat
  BY DEF Planned
<1>2. PICK f : /\ f[0] = {}
               /\ \A k \in 1 .. n : f[k] = Released(f[k - 1])
               /\ Acyclic <=> f[n] = Names
  BY AcyclicUnfold
<1>3. \A m \in 1 .. n : graph[m].depends = IF m = 1 THEN {} ELSE {graph[m - 1].stage}
  BY DEF Planned
<1>4. \A m \in 1 .. n : Named(graph[m].stage) = m
  BY NamedNode
<1>5. \A m, l \in 1 .. n : graph[m].stage = graph[l].stage => m = l
  BY DEF Planned
<1> DEFINE T == {k \in 0 .. n : \A m \in 1 .. n : m <= k => graph[m].stage \in f[k]}
<1>6. 0 \in T
  BY <1>1
<1>7. \A k \in 0 .. n : k \in T /\ k < n => k + 1 \in T
  <2>1. SUFFICES ASSUME NEW k \in 0 .. n, k \in T, k < n, NEW m \in 1 .. n, m <= k + 1
                 PROVE  graph[m].stage \in f[k + 1]
    BY <1>1
  <2>2. f[k + 1] = Released(f[k])
    <3>1. k + 1 \in 1 .. n /\ k + 1 - 1 = k
      BY <1>1, <2>1
    <3>2. QED
      BY <1>2, <3>1
  <2>3. graph[m].depends \subseteq f[k]
    <3>1. CASE m = 1
      BY <1>3, <3>1
    <3>2. CASE m # 1
      <4>1. m - 1 \in 1 .. n /\ m - 1 <= k
        BY <1>1, <2>1, <3>2
      <4>2. graph[m - 1].stage \in f[k]
        BY <2>1, <4>1
      <4>3. QED
        BY <1>3, <3>2, <4>2
    <3>3. QED
      BY <3>1, <3>2
  <2>4. graph[m].stage \in Names /\ graph[Named(graph[m].stage)].depends \subseteq f[k]
    BY <1>4, <2>3, NamedNode
  <2>5. QED
    BY <2>2, <2>4 DEF Released
<1>8. n \in T
  <2> HIDE DEF T
  <2>1. \A k \in 0 .. n : k \in T
    BY <1>1, <1>6, <1>7, StepByStep
  <2>2. QED
    BY <1>1, <2>1
<1>9. Names \subseteq f[n]
  BY <1>8, NamedNode
<1>10. f[n] \subseteq Names
  <2>1. n \in 1 .. n
    BY DEF Planned
  <2>2. QED
    BY <1>2, <2>1 DEF Released
<1>11. QED
  BY <1>2, <1>9, <1>10

\* In an acyclic graph, any number of nodes have one that depends on none of them.
LEMMA OneComesFirst ==
    ASSUME Planned(graph), Acyclic, NEW left \in SUBSET (1 .. Len(graph)), left # {}
    PROVE  \E i \in left : graph[i].depends \cap {graph[j].stage : j \in left} = {}
<1> DEFINE n == Len(graph)
<1>1. n \in Nat /\ n \in 1 .. n
  BY DEF Planned
<1>2. PICK f : /\ f[0] = {}
               /\ \A k \in 1 .. n : f[k] = Released(f[k - 1])
               /\ Acyclic <=> f[n] = Names
  BY AcyclicUnfold
<1> DEFINE K == {k \in 0 .. n : \E i \in left : graph[i].stage \in f[k]}
<1>3. K \in SUBSET Nat
  OBVIOUS
<1>4. n \in K
  <2>1. PICK i \in left : TRUE
    OBVIOUS
  <2>2. graph[i].stage \in f[n]
    BY <1>2, NamedNode
  <2>3. QED
    BY <1>1, <2>2
<1>5. PICK k \in K : \A m \in K : k <= m
  <2> HIDE DEF K
  <2>1. QED
    BY <1>3, <1>4, MinIsLeast
<1>6. k # 0
  BY <1>2, <1>5
<1>7. k \in 1 .. n /\ k - 1 \in 0 .. n /\ k - 1 < k
  BY <1>5, <1>6
<1>8. k - 1 \notin K
  BY <1>5, <1>7
<1>9. PICK i \in left : graph[i].stage \in f[k]
  BY <1>5
<1>10. graph[Named(graph[i].stage)].depends \subseteq f[k - 1]
  BY <1>2, <1>7, <1>9 DEF Released
<1>11. graph[i].depends \subseteq f[k - 1]
  BY <1>10, NamedNode
<1>12. \A j \in left : graph[j].stage \notin f[k - 1]
  BY <1>7, <1>8
<1>13. QED
  BY <1>11, <1>12

-----------------------------------------------------------------------------
(* What a step leaves alone *)

\* Lookups and acyclicity depend on what they read only.
LEMMA SameLookups ==
    ASSUME UNCHANGED strategy, UNCHANGED discovery
    PROVE  /\ \A role : BoundTo(role)' = BoundTo(role)
           /\ \A kind : Found(kind)' = Found(kind)
           /\ BoundCandidates' = BoundCandidates
<1>1. \A role : BoundTo(role)' = BoundTo(role)
  BY DEF BoundTo, SelectInSeq
<1>2. \A kind : Found(kind)' = Found(kind)
  BY DEF Found
<1>3. BoundCandidates' = BoundCandidates
  BY DEF BoundCandidates
<1>4. QED
  BY <1>1, <1>2, <1>3

\* Whether a node fits, and a graph is planned, depends on the inputs only.
LEMMA SameFits ==
    ASSUME UNCHANGED strategy, UNCHANGED discovery
    PROVE  \A n : Fits(n)' <=> Fits(n)
BY SameLookups DEF Fits

\* A graph that is planned stays so, while it and the inputs stay.
LEMMA SamePlanned ==
    ASSUME UNCHANGED strategy, UNCHANGED discovery, UNCHANGED wiring, UNCHANGED graph, Planned(graph)
    PROVE  Planned(graph)'
<1>1. \A i \in 1 .. Len(graph) : Fits(graph[i])'
  <2>1. \A i \in 1 .. Len(graph) : Fits(graph[i])
    BY DEF Planned
  <2>2. \A n : Fits(n) => Fits(n)'
    BY SameFits
  <2>3. QED
    BY <2>1, <2>2
<1>2. /\ DOMAIN graph' = 1 .. Len(graph') /\ Len(graph') \in Nat \ {0}
      /\ \A i, j \in 1 .. Len(graph') : graph'[i].stage = graph'[j].stage => i = j
      /\ \A i \in 1 .. Len(graph') : graph'[i].stage = "clone_repository" => i = 1
      /\ \A i \in 1 .. Len(graph') : graph'[i].depends \subseteq {graph'[j].stage : j \in 1 .. Len(graph')}
  BY DEF Planned
<1>3. wiring' = "planned" =>
            \A i \in 1 .. Len(graph') : graph'[i].depends = IF i = 1 THEN {} ELSE {graph'[i - 1].stage}
  BY DEF Planned
<1>4. \A i \in 1 .. Len(graph)' : Fits(graph[i])'
  BY <1>1
<1>5. QED
  BY <1>2, <1>3, <1>4, Zenon DEF Planned

\* The ancestors of a node depend on the graph only.
LEMMA SameAncestors ==
    ASSUME UNCHANGED graph
    PROVE  \A n : Ancestors(n)' = Ancestors(n)
BY DEF Ancestors, Named

\* So does whether the nodes can be ordered.
LEMMA SameAcyclic ==
    ASSUME UNCHANGED graph
    PROVE  Acyclic' <=> Acyclic
BY DEF Acyclic, Released, Names, Named

-----------------------------------------------------------------------------
(* Evidence *)

\* The descriptors of a kind say what is known of its candidates that are described.
Described(kind, descriptors) ==
    /\ descriptors \in Seq(Range(descriptors))
    /\ \A d \in Range(descriptors) :
          /\ d.candidate \in Range(Found(kind))
          /\ discovery.facts[d.candidate].source # "none"
          /\ d.source = discovery.facts[d.candidate].source
          /\ d.summed = discovery.facts[d.candidate].summed
          /\ d.auth = discovery.facts[d.candidate].auth
    /\ \A c \in Range(Found(kind)) :
          discovery.facts[c].source # "none" => \E d \in Range(descriptors) : d.candidate = c

\* What the evidence is, when there is any.
Evidenced(b) ==
    b.known => /\ b.repositories \in Seq(Range(b.repositories))
               /\ Range(b.repositories) = {RepositoryEvidence(c) : c \in Range(Found(Repositories))}
               /\ Described(Datasets, b.datasets)
               /\ Described(Checkpoints, b.checkpoints)
               /\ Described(Configurations, b.configurations)

\* AssetEvidence describes what is known of a kind.
LEMMA AssetsDescribed ==
    ASSUME Inputs, NEW kind
    PROVE  Described(kind, AssetEvidence(kind))
<1> DEFINE those == {c \in Range(Found(kind)) : discovery.facts[c].source # "none"}
           s == Where(Found(kind), those)
           Word(c) == [candidate |-> c, source |-> discovery.facts[c].source,
                       summed |-> discovery.facts[c].summed, auth |-> discovery.facts[c].auth]
           e == AssetEvidence(kind)
<1>1. Found(kind) \in Seq(Candidates)
  BY FoundOfKind
<1>2. s \in Seq(Candidates) /\ Range(s) = {c \in Range(Found(kind)) : c \in those}
  BY <1>1, WhereHas
<1>3. Range(s) = those
  BY <1>2
<1>4. e = [i \in DOMAIN s |-> Word(s[i])]
  BY DEF AssetEvidence
<1> HIDE DEF s
<1>5. DOMAIN s = 1 .. Len(s) /\ Len(s) \in Nat
  BY <1>2
<1> HIDE DEF e, Word
<1>6. e \in Seq({e[i] : i \in 1 .. Len(s)}) /\ DOMAIN e = 1 .. Len(s) /\ \A i \in 1 .. Len(s) : e[i] = Word(s[i])
  <2>1. DOMAIN e = 1 .. Len(s) /\ e = [i \in 1 .. Len(s) |-> e[i]]
    BY <1>4, <1>5
  <2>2. QED
    BY <1>4, <1>5, <2>1, FunctionIsSeq
<1>7. e \in Seq(Range(e))
  BY <1>6, SeqOfRange
<1>8. ASSUME NEW d \in Range(e) PROVE \E c \in those : d = Word(c)
  <2>1. PICK i \in 1 .. Len(s) : d = Word(s[i])
    BY <1>6, <1>8 DEF Range
  <2>2. s[i] \in Range(s)
    BY <1>5 DEF Range
  <2>3. QED
    BY <1>3, <2>1, <2>2
<1>9. ASSUME NEW c \in those PROVE Word(c) \in Range(e)
  <2>1. PICK i \in 1 .. Len(s) : c = s[i]
    BY <1>3, <1>5, <1>9 DEF Range
  <2>2. QED
    BY <1>6, <2>1 DEF Range
<1>10. \A c : /\ Word(c).candidate = c /\ Word(c).source = discovery.facts[c].source
              /\ Word(c).summed = discovery.facts[c].summed /\ Word(c).auth = discovery.facts[c].auth
  BY DEF Word
<1>11. QED
  BY <1>7, <1>8, <1>9, <1>10 DEF Described, e

\* The projection is such evidence; without a bundle there is none.
LEMMA ProjectionIsEvidence ==
    ASSUME Inputs
    PROVE  Evidenced(Projection) /\ Evidenced(NoBundle)
<1> DEFINE s == Found(Repositories)
           r == Projection.repositories
<1>1. r = [i \in DOMAIN s |-> RepositoryEvidence(s[i])]
  BY DEF Projection
<1>2. /\ Projection.datasets = AssetEvidence(Datasets) /\ Projection.checkpoints = AssetEvidence(Checkpoints)
      /\ Projection.configurations = AssetEvidence(Configurations)
  BY DEF Projection
<1>3. s \in Seq(Candidates)
  BY FoundOfKind
<1> HIDE DEF s, r
<1>4. DOMAIN s = 1 .. Len(s) /\ Len(s) \in Nat
  BY <1>3
<1>5. DOMAIN r = 1 .. Len(s) /\ r = [i \in 1 .. Len(s) |-> r[i]] /\ \A i \in 1 .. Len(s) : r[i] = RepositoryEvidence(s[i])
  BY <1>1, <1>4
<1>6. r \in Seq({r[i] : i \in 1 .. Len(s)})
  BY <1>4, <1>5, FunctionIsSeq
<1>7. r \in Seq(Range(r))
  BY <1>6, SeqOfRange
<1>8. Range(r) = {RepositoryEvidence(c) : c \in Range(s)}
  BY <1>4, <1>5 DEF Range
<1>9. Evidenced(Projection)
  BY <1>2, <1>7, <1>8, AssetsDescribed DEF Evidenced, r, s
<1>10. Evidenced(NoBundle)
  BY DEF Evidenced, NoBundle
<1>11. QED
  BY <1>9, <1>10

\* The kind of a candidate, when every candidate is of one kind.
LEMMA KindIsKnown ==
    ASSUME NEW kind \in {Repositories, Datasets, Checkpoints, Configurations}, NEW c \in kind
    PROVE  KindOf(c) = kind
<1>1. \A k \in {Repositories, Datasets, Checkpoints, Configurations} : c \in k => k = kind
  BY MaterializationAssumption
<1>2. QED
  BY <1>1 DEF KindOf

\* A record names a directory, or none is named.
LEMMA ProjectedDirType ==
    ASSUME Inputs, NEW c \in Range(Found(Repositories))
    PROVE  ProjectedDir(c) \in Prepared \cup {NoDir}
<1> DEFINE dirs == {k.dir : k \in {claim \in Range(discovery.claims) :
                    claim.candidate = c /\ claim.supports /\ claim.key = "prepared_repo_path"}}
<1>1. ProjectedDir(c) = IF Cardinality(dirs) = 1 THEN CHOOSE d \in dirs : TRUE ELSE discovery.facts[c].dir
  BY DEF ProjectedDir
<1>2. dirs \subseteq Prepared \cup {NoDir}
  <2>1. Range(discovery.claims) \subseteq Claims
    BY InputTypes, MembersOfSeq
  <2>2. QED
    BY <2>1 DEF Claims
<1>3. discovery.facts[c].dir \in Prepared \cup {NoDir}
  <2>1. discovery.facts[c] \in Facts
    BY FoundOfKind, InputTypes DEF FactsOf
  <2>2. QED
    BY <2>1 DEF Facts
<1> HIDE DEF dirs
<1>4. Cardinality(dirs) = 1 => dirs # {}
  BY FS_EmptySet
<1>5. QED
  BY <1>1, <1>2, <1>3, <1>4

\* A repository's place is known, prepared when its source is the workspace.
LEMMA RepositoryPlace ==
    ASSUME Inputs, NEW c \in Range(Found(Repositories))
    PROVE  /\ RepositoryEvidence(c).candidate = c
           /\ RepositoryEvidence(c).target = IF ProjectedDir(c) = NoDir THEN Checkout[c] ELSE ProjectedDir(c)
           /\ RepositoryEvidence(c).target # NoDir
           /\ RepositoryEvidence(c).source # "git" => RepositoryEvidence(c).target \in Prepared
           /\ RepositoryEvidence(c).pinned = discovery.facts[c].pinned
           /\ RepositoryEvidence(c).auth = discovery.facts[c].auth
<1>1. ProjectedDir(c) \in Prepared \cup {NoDir}
  BY ProjectedDirType
<1>2. c \in Repositories
  BY FoundOfKind
<1>3. Checkout[c] # NoDir
  BY <1>2, MaterializationAssumption
<1>4. QED
  BY <1>1, <1>3 DEF RepositoryEvidence

-----------------------------------------------------------------------------
(* Materializing a node *)

\* A spec fetches what is fixed: no credentials, a pinned or prepared repository,
\* a checksum; and what was bound, or is alone of its kind.
Fixed(spec) ==
    LET c == spec.candidate
        facts == discovery.facts[c]
    IN /\ ~facts.auth
       /\ c \in Repositories => facts.pinned \/ spec.dir \in Prepared
       /\ facts.source = "https" => facts.summed
       /\ \/ c \in BoundCandidates
          \/ {other \in Range(Found(KindOf(c))) : discovery.facts[other].source # "none"} = {c}

\* Where the repository is, when the records agree on it.
ClonedTo(dir) ==
    Coherent /\ bundle.known /\ BoundTo("primary_repository") \in Range(Found(Repositories)) =>
        dir = RepositoryEvidence(BoundTo("primary_repository")).target

\* What materializing a node gives.
Given(node, r) ==
    /\ r.status \in {"ready", "blocked", "unsupported"} /\ r.spec.made \in BOOLEAN
    /\ r.spec.made <=> r.status = "ready"
    /\ r.spec.made /\ node.stage \in PreparationStages => bundle.known /\ Fixed(r.spec)
    /\ r.spec.made /\ node.stage \in PreparationStages \ {"clone_repository"} => r.spec.dir = NoDir
    /\ r.spec.made /\ node.stage = "clone_repository" =>
          /\ BoundTo("primary_repository") \in Range(Found(Repositories))
          /\ r.spec.dir = RepositoryEvidence(BoundTo("primary_repository")).target
          /\ r.spec.dir # NoDir
    /\ r.spec.made /\ node.stage \notin PreparationStages => ClonedTo(r.spec.dir)

Wanted(node) == Range(node.bindings) \cup node.assets

\* A selected descriptor is the only one wanted.
LEMMA SelectedIsOnly ==
    ASSUME NEW descriptors, descriptors \in Seq(Range(descriptors)), NEW node,
           Selected(descriptors, node) # NoDescriptor
    PROVE  /\ Selected(descriptors, node) \in Range(descriptors)
           /\ Selected(descriptors, node).candidate \in Wanted(node)
           /\ \A e \in Range(descriptors) : e.candidate \in Wanted(node) => e = Selected(descriptors, node)
<1> DEFINE those == {d \in Range(descriptors) : d.candidate \in Range(node.bindings) \cup node.assets}
           t == Where(descriptors, those)
<1>1. t = Among(descriptors, node)
  BY DEF Among
<1>2. Len(t) = 1 /\ Selected(descriptors, node) = t[1]
  BY <1>1 DEF Selected
<1>3. t \in Seq(Range(descriptors)) /\ Range(t) = {x \in Range(descriptors) : x \in those}
  BY WhereHas
<1>4. Range(t) = those
  BY <1>3
<1> HIDE DEF t
<1>5. DOMAIN t = {1}
  BY <1>2, <1>3
<1>6. Range(t) = {t[1]}
  BY <1>5, Zenon DEF Range
<1>7. QED
  BY <1>2, <1>4, <1>6 DEF Wanted

\* Nobody chose: the only described candidate of a kind.
LEMMA AloneInKind ==
    ASSUME Inputs, NEW kind \in {Datasets, Checkpoints, Configurations}, NEW descriptors,
           Described(kind, descriptors), NEW d \in Range(descriptors),
           \A e \in Range(descriptors) : e = d
    PROVE  {other \in Range(Found(KindOf(d.candidate))) : discovery.facts[other].source # "none"}
               = {d.candidate}
<1>1. d.candidate \in Range(Found(kind)) /\ discovery.facts[d.candidate].source # "none"
  BY DEF Described
<1>2. d.candidate \in kind
  BY <1>1, FoundOfKind
<1>3. KindOf(d.candidate) = kind
  BY <1>2, KindIsKnown
<1>4. ASSUME NEW c \in Range(Found(kind)), discovery.facts[c].source # "none"
      PROVE  c = d.candidate
  BY <1>4 DEF Described
<1>5. QED
  BY <1>1, <1>3, <1>4

\* A failed node has no spec.
LEMMA FailedGives ==
    ASSUME NEW node, NEW status \in {"blocked", "unsupported"}
    PROVE  Given(node, Failed(status))
BY DEF Given, Failed, NoSpec

\* A prepared repository is the bound one, pinned or prepared.
LEMMA RepositoryGiven ==
    ASSUME Inputs, Evidenced(bundle), bundle.known, NEW node, Fits(node), node.stage = "clone_repository"
    PROVE  Given(node, PrepareRepository(node))
<1> DEFINE d == Selected(bundle.repositories, node)
           p == BoundTo("primary_repository")
<1>1. /\ PrepareRepository(node) \in {Failed("blocked"), Failed("unsupported"), Ready(d.target, d.candidate)}
      /\ PrepareRepository(node) = Ready(d.target, d.candidate)
            \/ PrepareRepository(node) \in {Failed("blocked"), Failed("unsupported")}
  BY DEF PrepareRepository
<1>2. CASE PrepareRepository(node) \in {Failed("blocked"), Failed("unsupported")}
  BY <1>2, FailedGives
<1>3. CASE PrepareRepository(node) \notin {Failed("blocked"), Failed("unsupported")}
  <2>1. d # NoDescriptor /\ ~d.auth /\ ~(d.source = "git" /\ ~d.pinned)
    BY <1>3 DEF PrepareRepository
  <2>2. bundle.repositories \in Seq(Range(bundle.repositories))
        /\ Range(bundle.repositories) = {RepositoryEvidence(c) : c \in Range(Found(Repositories))}
    BY DEF Evidenced
  <2>3. d \in Range(bundle.repositories) /\ d.candidate \in Wanted(node)
    BY <2>1, <2>2, SelectedIsOnly
  <2> HIDE DEF d
  <2>4. Wanted(node) = {p} /\ p # NoOne
    BY DEF Fits, Wanted
  <2>5. PICK c \in Range(Found(Repositories)) : d = RepositoryEvidence(c)
    BY <2>2, <2>3
  <2>6. c = p /\ d.candidate = p
    BY <2>3, <2>4, <2>5, RepositoryPlace
  <2>7. /\ d.target # NoDir /\ (d.source # "git" => d.target \in Prepared)
        /\ d.pinned = discovery.facts[p].pinned /\ d.auth = discovery.facts[p].auth
    BY <2>5, <2>6, RepositoryPlace
  <2>8. p \in Repositories /\ discovery.facts[p].source = "git"
    BY <2>5, <2>6, FoundOfKind, InputTypes DEF FactsOf
  <2>9. p \in BoundCandidates
    BY <2>4, BoundToIsBound
  <2>10. discovery.facts[p].pinned \in BOOLEAN /\ discovery.facts[p].auth \in BOOLEAN
    BY <2>5, <2>6, FoundOfKind, InputTypes DEF FactsOf, Facts
  <2> DEFINE spec == [made |-> TRUE, dir |-> d.target, candidate |-> d.candidate]
             r == PrepareRepository(node)
  <2>11. r = [status |-> "ready", spec |-> spec]
    BY <1>1, <1>3 DEF Ready
  <2>12. spec.candidate = p /\ spec.dir = d.target /\ spec.made = TRUE
    BY <2>6
  <2> HIDE DEF spec
  <2>13. Fixed(spec)
    BY <2>1, <2>7, <2>8, <2>9, <2>10, <2>12 DEF Fixed
  <2>14. r.status = "ready" /\ r.spec = spec
    BY <2>11
  <2> HIDE DEF r
  <2>15. "clone_repository" \in PreparationStages
    BY DEF PreparationStages
  <2>16. Given(node, r)
    BY <2>5, <2>6, <2>7, <2>12, <2>13, <2>14, <2>15 DEF Given
  <2>17. QED
    BY <2>16 DEF r
<1>4. QED
  BY <1>2, <1>3

\* What a preparation without a directory gives.
LEMMA AssetSpecGiven ==
    ASSUME NEW node, node.stage \in PreparationStages \ {"clone_repository"}, bundle.known, NEW c,
           Fixed([made |-> TRUE, dir |-> NoDir, candidate |-> c])
    PROVE  Given(node, Ready(NoDir, c))
<1> DEFINE spec == [made |-> TRUE, dir |-> NoDir, candidate |-> c]
           r == Ready(NoDir, c)
<1>1. r.status = "ready" /\ r.spec = spec
  BY DEF Ready
<1>2. spec.made = TRUE /\ spec.dir = NoDir
  OBVIOUS
<1> HIDE DEF spec, r
<1>3. Fixed(spec)
  BY DEF spec
<1>4. node.stage \in PreparationStages /\ node.stage # "clone_repository"
  OBVIOUS
<1>5. Given(node, r)
  BY <1>1, <1>2, <1>3, <1>4 DEF Given
<1>6. QED
  BY <1>5 DEF r

\* A downloaded asset has a checksum, and is bound or alone.
LEMMA AssetGiven ==
    ASSUME Inputs, NEW kind \in {Datasets, Checkpoints}, NEW descriptors, Described(kind, descriptors),
           bundle.known, NEW node, node.stage \in PreparationStages \ {"clone_repository"}, NEW role,
           Wanted(node) \in {{BoundTo(role)} \cap BoundCandidates, Range(Found(kind))}
    PROVE  Given(node, PrepareAsset(descriptors, node))
<1> DEFINE d == Selected(descriptors, node)
           r == PrepareAsset(descriptors, node)
<1>1. CASE r \in {Failed("blocked"), Failed("unsupported")}
  BY <1>1, FailedGives
<1>2. CASE r \notin {Failed("blocked"), Failed("unsupported")}
  <2>1. d # NoDescriptor /\ ~d.auth /\ ~(d.source = "https" /\ ~d.summed) /\ r = Ready(NoDir, d.candidate)
    BY <1>2 DEF PrepareAsset
  <2>2. descriptors \in Seq(Range(descriptors))
    BY DEF Described
  <2>3. /\ d \in Range(descriptors) /\ d.candidate \in Wanted(node)
        /\ \A e \in Range(descriptors) : e.candidate \in Wanted(node) => e = d
    BY <2>1, <2>2, SelectedIsOnly
  <2> HIDE DEF d
  <2>4. /\ d.candidate \in Range(Found(kind)) /\ d.source = discovery.facts[d.candidate].source
        /\ d.summed = discovery.facts[d.candidate].summed /\ d.auth = discovery.facts[d.candidate].auth
    BY <2>3 DEF Described
  <2>5. d.candidate \notin Repositories
    <3>1. d.candidate \in kind
      BY <2>4, FoundOfKind
    <3>2. QED
      BY <3>1, MaterializationAssumption
  <2>6. discovery.facts[d.candidate].summed \in BOOLEAN /\ discovery.facts[d.candidate].auth \in BOOLEAN
    BY <2>4, FoundOfKind, InputTypes DEF FactsOf, Facts
  <2>7. \/ d.candidate \in BoundCandidates
        \/ {other \in Range(Found(KindOf(d.candidate))) : discovery.facts[other].source # "none"} = {d.candidate}
    <3>1. CASE Wanted(node) = {BoundTo(role)} \cap BoundCandidates
      BY <2>3, <3>1
    <3>2. CASE Wanted(node) = Range(Found(kind))
      <4>1. \A e \in Range(descriptors) : e = d
        BY <2>3, <3>2 DEF Described
      <4>2. QED
        BY <2>3, <4>1, AloneInKind
    <3>3. QED
      BY <3>1, <3>2
  <2> DEFINE spec == [made |-> TRUE, dir |-> NoDir, candidate |-> d.candidate]
  <2>8. spec.candidate = d.candidate
    OBVIOUS
  <2> HIDE DEF spec
  <2>9. Fixed(spec)
    BY <2>1, <2>4, <2>5, <2>6, <2>7, <2>8 DEF Fixed
  <2>10. Fixed([made |-> TRUE, dir |-> NoDir, candidate |-> d.candidate])
    BY <2>9 DEF spec
  <2> HIDE DEF r
  <2>11. Given(node, Ready(NoDir, d.candidate))
    BY <2>10, AssetSpecGiven
  <2>12. QED
    BY <2>1, <2>11 DEF r
<1>3. QED
  BY <1>1, <1>2

\* A configuration is alone.
LEMMA ConfigurationGiven ==
    ASSUME Inputs, Evidenced(bundle), bundle.known, NEW node, Fits(node), node.stage = "generate_config"
    PROVE  Given(node, PrepareConfiguration(node))
<1> DEFINE descriptors == bundle.configurations
           d == Selected(descriptors, node)
           chosen == IF d = NoDescriptor /\ Len(descriptors) = 1 THEN descriptors[1] ELSE d
           r == PrepareConfiguration(node)
<1>1. r = IF chosen = NoDescriptor THEN Failed("blocked") ELSE Ready(NoDir, chosen.candidate)
  BY DEF PrepareConfiguration
<1>2. CASE chosen = NoDescriptor
  BY <1>1, <1>2, FailedGives
<1>3. CASE chosen # NoDescriptor
  <2>1. Described(Configurations, descriptors) /\ descriptors \in Seq(Range(descriptors))
    BY DEF Evidenced, Described
  <2>2. Wanted(node) = Range(Found(Configurations))
    BY DEF Fits, Wanted
  <2>3. chosen \in Range(descriptors) /\ \A e \in Range(descriptors) : e = chosen
    <3>1. CASE d # NoDescriptor
      <4>1. chosen = d
        BY <3>1
      <4>2. d \in Range(descriptors) /\ \A e \in Range(descriptors) : e.candidate \in Wanted(node) => e = d
        BY <2>1, <3>1, SelectedIsOnly
      <4>3. \A e \in Range(descriptors) : e.candidate \in Wanted(node)
        BY <2>1, <2>2 DEF Described
      <4>4. QED
        BY <4>1, <4>2, <4>3
    <3>2. CASE d = NoDescriptor
      <4>1. Len(descriptors) = 1 /\ chosen = descriptors[1]
        BY <1>3, <3>2
      <4> HIDE DEF descriptors, chosen
      <4>2. DOMAIN descriptors = {1}
        BY <2>1, <4>1
      <4>3. Range(descriptors) = {descriptors[1]}
        BY <4>2, Zenon DEF Range
      <4>4. QED
        BY <4>1, <4>3
    <3>3. QED
      BY <3>1, <3>2
  <2> HIDE DEF chosen, descriptors
  <2>4. {other \in Range(Found(KindOf(chosen.candidate))) : discovery.facts[other].source # "none"}
            = {chosen.candidate}
    BY <2>1, <2>3, AloneInKind
  <2>5. chosen.candidate \in Range(Found(Configurations))
    BY <2>1, <2>3 DEF Described
  <2>6. chosen.candidate \in Configurations /\ chosen.candidate \notin Repositories
    BY <2>5, FoundOfKind, MaterializationAssumption
  <2>7. discovery.facts[chosen.candidate].source # "https" /\ ~discovery.facts[chosen.candidate].auth
    BY <2>5, <2>6, FoundOfKind, InputTypes DEF FactsOf
  <2> DEFINE spec == [made |-> TRUE, dir |-> NoDir, candidate |-> chosen.candidate]
  <2>8. spec.candidate = chosen.candidate
    OBVIOUS
  <2> HIDE DEF spec
  <2>9. Fixed(spec)
    BY <2>4, <2>6, <2>7, <2>8 DEF Fixed
  <2>10. Fixed([made |-> TRUE, dir |-> NoDir, candidate |-> chosen.candidate])
    BY <2>9 DEF spec
  <2>11. node.stage \in PreparationStages \ {"clone_repository"}
    BY DEF PreparationStages
  <2>12. Given(node, Ready(NoDir, chosen.candidate))
    BY <2>10, <2>11, AssetSpecGiven
  <2> HIDE DEF r
  <2>13. QED
    BY <1>1, <1>3, <2>12 DEF r
<1>4. QED
  BY <1>2, <1>3

\* The descriptor of the primary repository, when it was found.
LEMMA PrimaryIsProjected ==
    ASSUME Inputs, Evidenced(bundle), bundle.known,
           BoundTo("primary_repository") \in Range(Found(Repositories))
    PROVE  /\ PrimaryDescriptor = RepositoryEvidence(BoundTo("primary_repository"))
           /\ PrimaryDescriptor # NoDescriptor
<1> DEFINE p == BoundTo("primary_repository")
           d == DescriptorOf(bundle.repositories, p)
<1>1. /\ bundle.repositories \in Seq(Range(bundle.repositories))
      /\ Range(bundle.repositories) = {RepositoryEvidence(c) : c \in Range(Found(Repositories))}
  BY DEF Evidenced
<1>2. RepositoryEvidence(p) \in Range(bundle.repositories) /\ RepositoryEvidence(p).candidate = p
  BY <1>1, RepositoryPlace
<1>3. d \in Range(bundle.repositories) /\ d.candidate = p
  BY <1>1, <1>2, DescriptorOfCandidate
<1>4. PICK c \in Range(Found(Repositories)) : d = RepositoryEvidence(c)
  BY <1>1, <1>3
<1>5. d = RepositoryEvidence(p)
  BY <1>3, <1>4, RepositoryPlace
<1>6. d # NoDescriptor
  <2>1. NoDescriptor.candidate = NoOne
    BY DEF NoDescriptor
  <2>2. p # NoOne
    BY FoundOfKind, BoundAreFound, MaterializationAssumption
  <2>3. QED
    BY <1>3, <2>1, <2>2
<1>7. PrimaryDescriptor = d
  BY <1>6 DEF PrimaryDescriptor
<1>8. QED
  BY <1>5, <1>6, <1>7

\* The records that name a directory of c, as the index has them.
LEMMA IndexedDirsAre ==
    ASSUME Inputs, NEW c
    PROVE  /\ IndexedDirs(c) \in Seq(Claims)
           /\ Range(IndexedDirs(c)) =
                {k \in Range(discovery.claims) : k.candidate = c /\ k.key = "prepared_repo_path"}
<1>1. discovery.claims \in Seq(Claims)
  BY InputTypes
<1>2. QED
  BY <1>1, WhereHas DEF IndexedDirs

\* A sequence is empty when it has no members; its last member is one of them.
LEMMA LastIsMember ==
    ASSUME NEW S, NEW s \in Seq(S)
    PROVE  /\ s = <<>> <=> Range(s) = {}
           /\ s # <<>> => Last(s) \in Range(s)
<1>1. DOMAIN s = 1 .. Len(s) /\ Len(s) \in Nat
  BY MembersOfSeq, Zenon
<1>2. CASE s = <<>>
  <2>1. Range(s) = {}
    BY <1>2 DEF Range
  <2>2. QED
    BY <1>2, <2>1
<1>3. CASE s # <<>>
  <2>1. Len(s) # 0
    BY <1>3
  <2>2. Len(s) \in DOMAIN s
    BY <1>1, <2>1
  <2>3. Last(s) \in Range(s)
    BY <2>2 DEF Last, Range
  <2>4. QED
    BY <1>3, <2>3
<1>4. QED
  BY <1>2, <1>3

\* When the records agree, projection and index give the same directory.
LEMMA RecordsAgree ==
    ASSUME Inputs, Coherent, NEW p, p = BoundTo("primary_repository"), IndexedDirs(p) # <<>>
    PROVE  ProjectedDir(p) = Last(IndexedDirs(p)).dir
<1> DEFINE K == {claim \in Range(discovery.claims) : claim.key = "prepared_repo_path"}
           dirs == {k.dir : k \in {claim \in Range(discovery.claims) :
                       claim.candidate = p /\ claim.supports /\ claim.key = "prepared_repo_path"}}
           l == Last(IndexedDirs(p))
<1>1. l \in Range(IndexedDirs(p))
  BY IndexedDirsAre, LastIsMember
<1>2. l \in K /\ l.candidate = p
  BY <1>1, IndexedDirsAre
<1>3. \A k \in K : k.supports /\ k.candidate = p /\ k.dir = l.dir
  BY <1>2 DEF Coherent
<1> HIDE DEF l
<1>4. dirs = {l.dir}
  BY <1>2, <1>3
<1>5. ProjectedDir(p) = IF Cardinality(dirs) = 1 THEN CHOOSE d \in dirs : TRUE ELSE discovery.facts[p].dir
  BY DEF ProjectedDir
<1> HIDE DEF dirs
<1>6. Cardinality(dirs) = 1
  BY <1>4, FS_Singleton
<1>7. QED
  BY <1>4, <1>5, <1>6 DEF l

\* Then a workload works where the primary repository is.
LEMMA WorkplaceIsTarget ==
    ASSUME Inputs, Evidenced(bundle), NEW node, Fits(node), RepositoryDir(node) # NoDir
    PROVE  ClonedTo(RepositoryDir(node))
<1> SUFFICES ASSUME Coherent, bundle.known, BoundTo("primary_repository") \in Range(Found(Repositories))
             PROVE  RepositoryDir(node) = RepositoryEvidence(BoundTo("primary_repository")).target
  BY DEF ClonedTo
<1> DEFINE p == BoundTo("primary_repository")
           those == {c \in Candidates : IndexedDirs(c) # <<>>}
           indexed == Where(ResolvedWith(node), those)
<1>1. RepositoryDir(node) = IF indexed # <<>> THEN Last(IndexedDirs(Last(indexed))).dir
                            ELSE IF PrimaryDescriptor # NoDescriptor THEN PrimaryDescriptor.target ELSE NoDir
  BY DEF RepositoryDir
<1>2. PrimaryDescriptor = RepositoryEvidence(p) /\ PrimaryDescriptor # NoDescriptor
  BY PrimaryIsProjected
<1>3. \A c : IndexedDirs(c) # <<>> => c = p
  <2>1. SUFFICES ASSUME NEW c, IndexedDirs(c) # <<>> PROVE c = p
    OBVIOUS
  <2>2. Last(IndexedDirs(c)) \in Range(IndexedDirs(c))
    BY <2>1, IndexedDirsAre, LastIsMember
  <2>3. /\ Last(IndexedDirs(c)) \in Range(discovery.claims) /\ Last(IndexedDirs(c)).candidate = c
        /\ Last(IndexedDirs(c)).key = "prepared_repo_path"
    BY <2>2, IndexedDirsAre
  <2>4. QED
    BY <2>3 DEF Coherent
<1>4. p # NoOne /\ p \in BoundCandidates /\ p \in Candidates
  <2>1. p # NoOne
    BY FoundOfKind, BoundAreFound, MaterializationAssumption
  <2>2. QED
    BY <2>1, BoundToIsBound
<1>5. ResolvedWith(node) \in Seq(Candidates) /\ p \in Range(ResolvedWith(node))
  <2>1. node.bindings \in Seq(Candidates)
    BY DEF Fits
  <2>2. CASE p \in Range(node.bindings)
    <3>1. ResolvedWith(node) = node.bindings \o <<>>
      BY <2>2 DEF ResolvedWith
    <3>2. ResolvedWith(node) = node.bindings
      BY <2>1, <3>1
    <3>3. QED
      BY <2>1, <2>2, <3>2
  <2>3. CASE p \notin Range(node.bindings)
    <3>1. ResolvedWith(node) = node.bindings \o <<p>>
      BY <1>4, <2>3 DEF ResolvedWith, Just
    <3>2. ResolvedWith(node) = Append(node.bindings, p)
      BY <1>4, <2>1, <3>1
    <3> DEFINE u == Append(node.bindings, p)
    <3>3. u \in Seq(Candidates) /\ u[Len(u)] = p /\ Len(u) \in DOMAIN u
      BY <1>4, <2>1
    <3> HIDE DEF u
    <3>4. p \in Range(u)
      BY <3>3 DEF Range
    <3>5. QED
      BY <3>2, <3>3, <3>4 DEF u
  <2>4. QED
    BY <2>2, <2>3
<1>6. indexed \in Seq(Candidates) /\ Range(indexed) = {x \in Range(ResolvedWith(node)) : x \in those}
  BY <1>5, WhereHas
<1> HIDE DEF indexed
<1>7. (indexed = <<>> <=> Range(indexed) = {}) /\ (indexed # <<>> => Last(indexed) \in Range(indexed))
  BY <1>6, LastIsMember
<1>8. CASE IndexedDirs(p) # <<>>
  <2>1. p \in Range(indexed)
    BY <1>4, <1>5, <1>6, <1>8
  <2>2. indexed # <<>> /\ Last(indexed) = p
    BY <1>3, <1>6, <1>7, <2>1
  <2>3. RepositoryDir(node) = Last(IndexedDirs(p)).dir
    BY <1>1, <2>2
  <2>4. ProjectedDir(p) = RepositoryDir(node)
    BY <1>8, <2>3, RecordsAgree
  <2>5. QED
    BY <2>4, RepositoryPlace
<1>9. CASE IndexedDirs(p) = <<>>
  <2>1. Range(indexed) = {}
    BY <1>3, <1>6, <1>9
  <2>2. QED
    BY <1>1, <1>2, <1>7, <2>1
<1>10. QED
  BY <1>8, <1>9

\* Every node of the graph is given what the later steps use.
LEMMA NodeGiven ==
    ASSUME Inputs, Evidenced(bundle), bundle.known \in BOOLEAN, NEW node, Fits(node)
    PROVE  Given(node, Materialized(node))
<1>1. CASE node.stage \notin PreparationStages
  <2> DEFINE r == Work(node)
             dir == RepositoryDir(node)
             spec == [made |-> TRUE, dir |-> dir, candidate |-> NoOne]
  <2>1. Materialized(node) = r
    BY <1>1 DEF Materialized
  <2>2. CASE r = Failed("blocked")
    BY <2>1, <2>2, FailedGives
  <2>3. CASE r # Failed("blocked")
    <3>1. dir # NoDir /\ r = Ready(dir, NoOne)
      BY <2>3 DEF Work
    <3>2. ClonedTo(dir)
      BY <3>1, WorkplaceIsTarget
    <3> HIDE DEF dir
    <3>3. r.status = "ready" /\ r.spec.made = TRUE /\ r.spec.dir = dir
      BY <3>1 DEF Ready
    <3> HIDE DEF r
    <3>4. node.stage # "clone_repository"
      BY <1>1 DEF PreparationStages
    <3>5. QED
      BY <1>1, <2>1, <3>2, <3>3, <3>4 DEF Given
  <2>4. QED
    BY <2>2, <2>3
<1>2. CASE node.stage \in PreparationStages
  <2>1. Materialized(node) = Prepare(node)
    BY <1>2 DEF Materialized
  <2>2. CASE ~bundle.known
    <3>1. Prepare(node) = Failed("unsupported")
      BY <2>2 DEF Prepare
    <3>2. QED
      BY <2>1, <3>1, FailedGives
  <2>3. CASE bundle.known /\ node.stage = "clone_repository"
    <3>1. Prepare(node) = PrepareRepository(node)
      BY <2>3 DEF Prepare
    <3>2. QED
      BY <2>1, <2>3, <3>1, RepositoryGiven
  <2>4. CASE bundle.known /\ node.stage = "download_dataset"
    <3>1. Prepare(node) = PrepareAsset(bundle.datasets, node)
      BY <2>4 DEF Prepare
    <3>2. /\ Wanted(node) \in {{BoundTo("dataset")} \cap BoundCandidates, Range(Found(Datasets))}
          /\ node.stage \in PreparationStages \ {"clone_repository"}
          /\ Described(Datasets, bundle.datasets)
      BY <1>2, <2>4 DEF Fits, Wanted, Evidenced
    <3>3. QED
      BY <2>1, <2>4, <3>1, <3>2, AssetGiven
  <2>5. CASE bundle.known /\ node.stage = "download_checkpoints"
    <3>1. Prepare(node) = PrepareAsset(bundle.checkpoints, node)
      BY <2>5 DEF Prepare
    <3>2. /\ Wanted(node) \in {{BoundTo("checkpoint")} \cap BoundCandidates, Range(Found(Checkpoints))}
          /\ node.stage \in PreparationStages \ {"clone_repository"}
          /\ Described(Checkpoints, bundle.checkpoints)
      BY <1>2, <2>5 DEF Fits, Wanted, Evidenced
    <3>3. QED
      BY <2>1, <2>5, <3>1, <3>2, AssetGiven
  <2>6. CASE bundle.known /\ node.stage = "generate_config"
    <3>1. Prepare(node) = PrepareConfiguration(node)
      BY <2>6 DEF Prepare
    <3>2. QED
      BY <2>1, <2>6, <3>1, ConfigurationGiven
  <2>7. QED
    BY <1>2, <2>2, <2>3, <2>4, <2>5, <2>6 DEF PreparationStages
<1>3. QED
  BY <1>1, <1>2

-----------------------------------------------------------------------------
(* The inductive invariant *)

Early == stage \in {"plan", "project", "materialize"}

\* The graph is what planning makes, the evidence what projection makes.
Prepares ==
    /\ stage \in {"plan", "project", "materialize", "gate", "run", "rejected", "blocked"}
    /\ IF stage = "plan" THEN graph = <<>> ELSE Planned(graph)
    /\ bundle.known \in BOOLEAN /\ Evidenced(bundle)

\* The nodes from the first on have been given their results.
Materializes ==
    /\ results \in Seq(Range(results)) /\ Len(results) <= Len(graph)
    /\ stage \in {"plan", "project"} => results = <<>>
    /\ ~Early => Len(results) = Len(graph)
    /\ \A i \in 1 .. Len(results) : Given(graph[i], results[i])

Sound == \A i \in DOMAIN graph :
            results[i].spec.made /\ graph[i].stage \notin PreparationStages => ProducedBefore(i)

\* The report says whether the graph is sound and its nodes are ready.
Judges ==
    IF Early THEN report = "none"
    ELSE /\ report \in {"ready", "blocked", "unsupported"}
         /\ report = "ready" <=> Sound /\ \A i \in 1 .. Len(results) : results[i].status = "ready"

\* Tasks are those of a ready graph in which they can be ordered.
Starts ==
    /\ stage = "run" => report = "ready" /\ Acyclic /\ tasks = [i \in DOMAIN graph |-> Task(i)]
    /\ stage = "rejected" => ~Acyclic
    /\ stage # "run" => tasks = <<>>

IInv == Inputs /\ Prepares /\ Materializes /\ Judges /\ Starts

\* What is given depends on the inputs and the evidence only.
LEMMA SameEvidence ==
    ASSUME UNCHANGED strategy, UNCHANGED discovery
    PROVE  /\ \A c : RepositoryEvidence(c)' = RepositoryEvidence(c)
           /\ \A b : Evidenced(b)' <=> Evidenced(b)
<1>1. \A c : RepositoryEvidence(c)' = RepositoryEvidence(c)
  BY DEF RepositoryEvidence, ProjectedDir, ProjectedFiles
<1>2. \A kind, s : Described(kind, s)' <=> Described(kind, s)
  BY SameLookups DEF Described
<1>3. \A b : Evidenced(b)' <=> Evidenced(b)
  BY <1>1, <1>2, SameLookups DEF Evidenced
<1>4. QED
  BY <1>1, <1>3

\* So does what a node may be given.
LEMMA SameGiven ==
    ASSUME UNCHANGED strategy, UNCHANGED discovery, UNCHANGED bundle
    PROVE  \A n, r : Given(n, r)' <=> Given(n, r)
<1>1. Coherent' <=> Coherent
  BY SameLookups DEF Coherent
<1>2. \A dir : ClonedTo(dir)' <=> ClonedTo(dir)
  BY <1>1, SameLookups, SameEvidence DEF ClonedTo
<1>3. \A spec : Fixed(spec)' <=> Fixed(spec)
  BY SameLookups DEF Fixed
<1>4. QED
  BY <1>2, <1>3, SameLookups, SameEvidence DEF Given

\* Whether the graph is sound depends on the graph and the results only.
LEMMA SameSound ==
    ASSUME UNCHANGED graph, UNCHANGED results
    PROVE  Sound' <=> Sound
BY SameAncestors DEF Sound, ProducedBefore

\* The inputs stay what they are.
LEMMA SameInputs ==
    ASSUME Inputs, UNCHANGED input
    PROVE  Inputs'
BY DEF Inputs, input

-----------------------------------------------------------------------------
(* The invariant holds initially and is preserved *)

\* Nothing has been made at first.
LEMMA InitIsSound ==
    ASSUME Init
    PROVE  IInv
<1>1. Inputs
  BY Zenon DEF Init, Inputs
<1>2. Prepares
  <2>1. stage = "plan" /\ graph = <<>> /\ bundle = NoBundle
    BY DEF Init
  <2>2. bundle.known = FALSE
    BY <2>1 DEF NoBundle
  <2>3. QED
    BY <2>1, <2>2 DEF Prepares, Evidenced
<1>3. Materializes
  BY DEF Init, Materializes, Early, Range
<1>4. Judges
  BY DEF Init, Judges, Early
<1>5. Starts
  BY DEF Init, Starts
<1>6. QED
  BY <1>1, <1>2, <1>3, <1>4, <1>5 DEF IInv

\* Planning makes a planned graph.
LEMMA PlanKeeps ==
    ASSUME IInv, PlanGraph
    PROVE  IInv'
<1>1. /\ stage = "plan" /\ stage' = "project" /\ graph' = GraphOf(PlannedNodes)
      /\ UNCHANGED input /\ UNCHANGED <<bundle, results, report, tasks>>
  BY Zenon DEF PlanGraph
<1>2. UNCHANGED strategy /\ UNCHANGED discovery /\ UNCHANGED wiring
  BY <1>1 DEF input
<1>3. Inputs /\ Inputs'
  BY <1>1, SameInputs DEF IInv
<1>4. Planned(graph)'
  <2>1. Planned(GraphOf(PlannedNodes))
    BY <1>3, GraphIsPlanned
  <2> DEFINE g == GraphOf(PlannedNodes)
  <2>2. graph' = g
    BY <1>1
  <2>3. \A i \in 1 .. Len(g) : Fits(g[i])
    BY <2>1 DEF Planned
  <2>4. \A n : Fits(n) => Fits(n)'
    BY <1>2, SameFits
  <2>5. \A i \in 1 .. Len(graph)' : Fits(graph[i])'
    <3> HIDE DEF g
    <3> QED
      BY <2>2, <2>3, <2>4
  <2>6. /\ DOMAIN graph' = 1 .. Len(graph') /\ Len(graph') \in Nat \ {0}
        /\ \A i, j \in 1 .. Len(graph') : graph'[i].stage = graph'[j].stage => i = j
        /\ \A i \in 1 .. Len(graph') : graph'[i].stage = "clone_repository" => i = 1
        /\ \A i \in 1 .. Len(graph') : graph'[i].depends \subseteq {graph'[j].stage : j \in 1 .. Len(graph')}
    <3>1. /\ DOMAIN g = 1 .. Len(g) /\ Len(g) \in Nat \ {0}
          /\ \A i, j \in 1 .. Len(g) : g[i].stage = g[j].stage => i = j
          /\ \A i \in 1 .. Len(g) : g[i].stage = "clone_repository" => i = 1
          /\ \A i \in 1 .. Len(g) : g[i].depends \subseteq {g[j].stage : j \in 1 .. Len(g)}
      BY <2>1, Zenon DEF Planned
    <3> HIDE DEF g
    <3> QED
      BY <2>2, <3>1
  <2>7. wiring' = "planned" =>
              \A i \in 1 .. Len(graph') : graph'[i].depends = IF i = 1 THEN {} ELSE {graph'[i - 1].stage}
    <3>1. wiring = "planned" => \A i \in 1 .. Len(g) : g[i].depends = IF i = 1 THEN {} ELSE {g[i - 1].stage}
      BY <2>1, Zenon DEF Planned
    <3> HIDE DEF g
    <3> QED
      BY <1>2, <2>2, <3>1
  <2>8. QED
    BY <2>5, <2>6, <2>7, Zenon DEF Planned
<1>5. Prepares'
  <2>1. bundle.known \in BOOLEAN /\ Evidenced(bundle)
    BY DEF IInv, Prepares
  <2>2. Evidenced(bundle)'
    BY <1>1, <1>2, <2>1, SameEvidence
  <2>3. QED
    BY <1>1, <1>4, <2>1, <2>2 DEF Prepares
<1>6. results = <<>>
  BY <1>1 DEF IInv, Materializes
<1>7. Materializes'
  BY <1>1, <1>4, <1>6 DEF Materializes, Early, Range, Planned
<1>8. Judges' /\ Starts'
  BY <1>1 DEF IInv, Judges, Starts, Early
<1>9. QED
  BY <1>3, <1>5, <1>7, <1>8 DEF IInv

\* Projection makes evidence, or none.
LEMMA ProjectKeeps ==
    ASSUME IInv, ProjectEvidence
    PROVE  IInv'
<1>1. /\ stage = "project" /\ stage' = "materialize" /\ bundle' \in {Projection, NoBundle}
      /\ UNCHANGED input /\ UNCHANGED <<graph, results, report, tasks>>
  BY Zenon DEF ProjectEvidence
<1>2. UNCHANGED strategy /\ UNCHANGED discovery /\ UNCHANGED wiring /\ UNCHANGED graph
  BY <1>1 DEF input
<1>3. Inputs /\ Inputs'
  BY <1>1, SameInputs DEF IInv
<1>4. Planned(graph) /\ Planned(graph)'
  BY <1>1, <1>2, SamePlanned DEF IInv, Prepares
<1>5. Prepares'
  <2>1. Projection.known = TRUE /\ NoBundle.known = FALSE
    BY DEF Projection, NoBundle
  <2>2. bundle'.known \in BOOLEAN
    BY <1>1, <2>1
  <2>3. Evidenced(bundle')
    BY <1>1, <1>3, ProjectionIsEvidence
  <2>4. Evidenced(bundle)'
    BY <1>2, <2>3, SameEvidence
  <2>5. QED
    BY <1>1, <1>4, <2>2, <2>4 DEF Prepares
<1>6. results = <<>>
  BY <1>1 DEF IInv, Materializes
<1>7. Materializes'
  BY <1>1, <1>4, <1>6 DEF Materializes, Early, Range, Planned
<1>8. Judges' /\ Starts'
  BY <1>1 DEF IInv, Judges, Starts, Early
<1>9. QED
  BY <1>3, <1>5, <1>7, <1>8 DEF IInv

\* When the evidence and the graph stay, they stay what they are.
LEMMA SamePreparation ==
    ASSUME IInv, UNCHANGED input, UNCHANGED graph, UNCHANGED bundle, stage # "plan", stage' # "plan",
           stage' \in {"plan", "project", "materialize", "gate", "run", "rejected", "blocked"}
    PROVE  Inputs' /\ Prepares' /\ Planned(graph)
<1>1. UNCHANGED strategy /\ UNCHANGED discovery /\ UNCHANGED wiring
  BY DEF input
<1>2. Inputs'
  BY SameInputs DEF IInv
<1>3. Planned(graph) /\ Planned(graph)'
  BY <1>1, SamePlanned DEF IInv, Prepares
<1>4. Evidenced(bundle)'
  BY <1>1, SameEvidence DEF IInv, Prepares
<1>5. bundle'.known \in BOOLEAN
  BY DEF IInv, Prepares
<1>6. QED
  BY <1>2, <1>3, <1>4, <1>5 DEF Prepares

\* One more result in a sequence.
LEMMA AppendMembers ==
    ASSUME NEW s, s \in Seq(Range(s)), NEW x
    PROVE  /\ Append(s, x) \in Seq(Range(Append(s, x)))
           /\ Len(Append(s, x)) = Len(s) + 1 /\ Len(s) \in Nat
           /\ \A i \in 1 .. Len(s) : Append(s, x)[i] = s[i]
           /\ Append(s, x)[Len(s) + 1] = x
<1> DEFINE S == Range(s) \cup {x}
           t == Append(s, x)
<1>1. s \in Seq(S) /\ x \in S
  OBVIOUS
<1>2. /\ t \in Seq(S) /\ Len(t) = Len(s) + 1 /\ Len(s) \in Nat
      /\ \A i \in 1 .. Len(s) : t[i] = s[i]
      /\ t[Len(s) + 1] = x
  <2> HIDE DEF S
  <2> QED
    BY <1>1
<1>3. t \in Seq(Range(t))
  <2> HIDE DEF S, t
  <2>1. \A i \in 1 .. Len(t) : t[i] \in Range(t)
    BY <1>2, MembersOfSeq, Zenon
  <2>2. Len(t) \in Nat /\ DOMAIN t = 1 .. Len(t) /\ t = [i \in 1 .. Len(t) |-> t[i]]
    BY <1>2
  <2>3. QED
    BY <2>1, <2>2
<1>4. QED
  BY <1>2, <1>3

\* Materializing adds what the next node is given.
LEMMA MaterializeKeeps ==
    ASSUME IInv, MaterializeNode
    PROVE  IInv'
<1> DEFINE n == Len(results)
           m == Materialized(graph[n + 1])
<1>1. /\ stage = "materialize" /\ n < Len(graph) /\ results' = Append(results, m)
      /\ UNCHANGED stage /\ UNCHANGED input /\ UNCHANGED <<graph, bundle, report, tasks>>
  BY Zenon DEF MaterializeNode
<1>2. UNCHANGED strategy /\ UNCHANGED discovery /\ UNCHANGED wiring /\ UNCHANGED bundle /\ UNCHANGED graph
  BY <1>1 DEF input
<1>3. Inputs' /\ Prepares' /\ Planned(graph)
  BY <1>1, SamePreparation
<1>4. /\ results \in Seq(Range(results)) /\ n <= Len(graph)
      /\ \A i \in 1 .. n : Given(graph[i], results[i])
  BY DEF IInv, Materializes
<1>5. /\ results' \in Seq(Range(results')) /\ Len(results') = n + 1 /\ n \in Nat
      /\ \A i \in 1 .. n : results'[i] = results[i]
      /\ results'[n + 1] = m
  <2> HIDE DEF m
  <2> QED
    BY <1>1, <1>4, AppendMembers
<1>6. Len(graph) \in Nat /\ Fits(graph[n + 1])
  BY <1>1, <1>3, <1>5 DEF Planned
<1>7. Given(graph[n + 1], m)
  BY <1>6, NodeGiven DEF IInv, Prepares
<1>8. \A i \in 1 .. n + 1 : Given(graph[i], results'[i])
  <2> HIDE DEF m
  <2> QED
    BY <1>4, <1>5, <1>7
<1>9. \A i \in 1 .. Len(results)' : Given(graph[i], results[i])'
  <2> HIDE DEF m, n
  <2>1. \A o, r : Given(o, r) => Given(o, r)'
    BY <1>2, SameGiven
  <2>2. \A i \in 1 .. n + 1 : Given(graph[i], results[i])'
    BY <1>2, <1>8, <2>1
  <2>3. QED
    BY <1>5, <2>2
<1>10. Materializes'
  <2>1. Len(results') <= Len(graph')
    BY <1>1, <1>5, <1>6
  <2>2. stage' = "materialize"
    BY <1>1
  <2>3. QED
    BY <1>5, <1>9, <2>1, <2>2 DEF Materializes, Early
<1>11. Judges' /\ Starts'
  BY <1>1 DEF IInv, Judges, Starts, Early
<1>12. QED
  BY <1>3, <1>10, <1>11 DEF IInv

\* What a step keeps that leaves the inputs, the graph, the evidence and the results alone.
LEMMA SameResults ==
    ASSUME IInv, UNCHANGED input, UNCHANGED graph, UNCHANGED bundle, UNCHANGED results,
           stage \notin {"plan", "project"}, stage' \notin {"plan", "project"},
           stage' \in {"plan", "project", "materialize", "gate", "run", "rejected", "blocked"},
           stage' # "materialize" => Len(results) = Len(graph)
    PROVE  Inputs' /\ Prepares' /\ Materializes' /\ Planned(graph)
<1>1. UNCHANGED strategy /\ UNCHANGED discovery /\ UNCHANGED wiring
  BY DEF input
<1>2. Inputs' /\ Prepares' /\ Planned(graph)
  BY SamePreparation
<1>3. \A i \in 1 .. Len(results)' : Given(graph[i], results[i])'
  <2>1. \A o, r : Given(o, r) => Given(o, r)'
    BY <1>1, SameGiven
  <2>2. \A i \in 1 .. Len(results) : Given(graph[i], results[i])
    BY DEF IInv, Materializes
  <2>3. QED
    BY <2>1, <2>2
<1>4. results' \in Seq(Range(results')) /\ Len(results') <= Len(graph')
  BY DEF IInv, Materializes
<1>5. QED
  BY <1>2, <1>3, <1>4 DEF Materializes, Early

\* The validator says ready of a sound graph whose nodes are ready, and only of it.
LEMMA ValidatedIsJudged ==
    ASSUME IInv, Planned(graph), Len(results) = Len(graph)
    PROVE  /\ Validated \in {"ready", "blocked", "unsupported"}
           /\ Validated = "ready" <=> Sound /\ \A i \in 1 .. Len(results) : results[i].status = "ready"
<1> DEFINE statuses == {results[i].status : i \in DOMAIN results}
           n == Len(results)
<1>1. n \in Nat \ {0} /\ DOMAIN results = 1 .. n
  BY MembersOfSeq DEF IInv, Materializes, Planned
<1>2. statuses = {"ready"} <=> \A i \in 1 .. n : results[i].status = "ready"
  <2>1. statuses = {results[i].status : i \in 1 .. n}
    BY <1>1
  <2>2. results[1].status \in statuses /\ 1 \in 1 .. n
    BY <1>1
  <2>3. QED
    BY <2>1, <2>2, Zenon
<1>3. Validated = CASE Sound /\ statuses = {"ready"} -> "ready"
                    [] ~(Sound /\ statuses = {"ready"}) /\ "unsupported" \in statuses -> "unsupported"
                    [] OTHER -> "blocked"
  BY Zenon DEF Validated, Sound
<1>4. QED
  <2> HIDE DEF statuses
  <2>1. CASE Sound /\ statuses = {"ready"}
    BY <1>2, <1>3, <2>1
  <2>2. CASE ~(Sound /\ statuses = {"ready"})
    <3>1. Validated = IF "unsupported" \in statuses THEN "unsupported" ELSE "blocked"
      BY <1>3, <2>2
    <3>2. QED
      BY <1>2, <2>2, <3>1
  <2>3. QED
    BY <2>1, <2>2

\* The validator reports on the results.
LEMMA ValidateKeeps ==
    ASSUME IInv, ValidateReadiness
    PROVE  IInv'
<1>1. /\ stage = "materialize" /\ stage' = "gate" /\ report' = Validated /\ Len(results) = Len(graph)
      /\ UNCHANGED input /\ UNCHANGED <<graph, bundle, results, tasks>>
  BY Zenon DEF ValidateReadiness
<1>2. Inputs' /\ Prepares' /\ Materializes' /\ Planned(graph)
  BY <1>1, SameResults
<1>3. Judges'
  <2>1. /\ report' \in {"ready", "blocked", "unsupported"}
        /\ report' = "ready" <=> Sound /\ \A i \in 1 .. Len(results) : results[i].status = "ready"
    BY <1>1, <1>2, ValidatedIsJudged
  <2>2. Sound' <=> Sound
    BY <1>1, SameSound
  <2>3. ~Early'
    BY <1>1 DEF Early
  <2>4. QED
    BY <1>1, <2>1, <2>2, <2>3 DEF Judges
<1>4. Starts'
  BY <1>1 DEF IInv, Starts
<1>5. QED
  BY <1>2, <1>3, <1>4 DEF IInv

\* What the report says stays, while its subject stays.
LEMMA SameReport ==
    ASSUME Judges, UNCHANGED graph, UNCHANGED results, UNCHANGED report, Early <=> Early'
    PROVE  Judges'
BY SameSound DEF Judges

\* Execution starts on a ready graph, if its nodes can be ordered.
LEMMA StartKeeps ==
    ASSUME IInv, StartExecution
    PROVE  IInv'
<1>1. /\ stage = "gate" /\ report = "ready"
      /\ IF Acyclic THEN stage' = "run" /\ tasks' = [i \in DOMAIN graph |-> Task(i)]
                    ELSE stage' = "rejected" /\ UNCHANGED tasks
      /\ UNCHANGED input /\ UNCHANGED <<graph, bundle, results, report>>
  BY Zenon DEF StartExecution, Admitted
<1>2. stage' \in {"run", "rejected"}
  BY <1>1
<1>3. Len(results) = Len(graph)
  BY <1>1 DEF IInv, Materializes, Early
<1>4. Inputs' /\ Prepares' /\ Materializes'
  BY <1>1, <1>2, <1>3, SameResults
<1>5. Judges'
  BY <1>1, <1>2, SameReport DEF IInv, Early
<1>6. Acyclic' <=> Acyclic
  BY <1>1, SameAcyclic
<1>7. Starts'
  <2>1. CASE Acyclic
    <3>1. stage' = "run" /\ tasks' = [i \in DOMAIN graph |-> Task(i)]
      BY <1>1, <2>1
    <3>2. tasks' = [i \in DOMAIN graph' |-> Task(i)']
      BY <1>1, <3>1 DEF Task
    <3>3. QED
      BY <1>1, <1>6, <2>1, <3>1, <3>2 DEF Starts
  <2>2. CASE ~Acyclic
    BY <1>1, <1>6, <2>2 DEF IInv, Starts
  <2>3. QED
    BY <2>1, <2>2
<1>8. QED
  BY <1>4, <1>5, <1>7 DEF IInv

\* What blocks is reported instead.
LEMMA BlockKeeps ==
    ASSUME IInv, BlockExecution
    PROVE  IInv'
<1>1. /\ stage = "gate" /\ stage' = "blocked"
      /\ UNCHANGED input /\ UNCHANGED <<graph, bundle, results, report, tasks>>
  BY Zenon DEF BlockExecution
<1>2. Len(results) = Len(graph)
  BY <1>1 DEF IInv, Materializes, Early
<1>3. Inputs' /\ Prepares' /\ Materializes'
  BY <1>1, <1>2, SameResults
<1>4. Judges'
  BY <1>1, SameReport DEF IInv, Early
<1>5. Starts'
  BY <1>1 DEF IInv, Starts
<1>6. QED
  BY <1>3, <1>4, <1>5 DEF IInv

\* Nothing changes when nothing changes.
LEMMA StutterKeeps ==
    ASSUME IInv, UNCHANGED vars
    PROVE  IInv'
<1>1. /\ UNCHANGED input /\ UNCHANGED <<stage, graph, bundle, results, report, tasks>>
      /\ UNCHANGED strategy /\ UNCHANGED discovery /\ UNCHANGED wiring
  BY DEF vars, input
<1>2. Inputs'
  BY <1>1, SameInputs DEF IInv
<1>3. Prepares'
  <2>1. stage = "plan" \/ Planned(graph)'
    BY <1>1, SamePlanned DEF IInv, Prepares
  <2>2. Evidenced(bundle)'
    BY <1>1, SameEvidence DEF IInv, Prepares
  <2>3. QED
    BY <1>1, <2>1, <2>2 DEF IInv, Prepares
<1>4. Materializes'
  <2>1. \A o, r : Given(o, r) => Given(o, r)'
    BY <1>1, SameGiven
  <2>2. \A i \in 1 .. Len(results)' : Given(graph[i], results[i])'
    BY <1>1, <2>1 DEF IInv, Materializes
  <2>3. QED
    BY <1>1, <2>2 DEF IInv, Materializes, Early
<1>5. Judges'
  BY <1>1, SameReport DEF IInv, Early
<1>6. Starts'
  <2>1. Acyclic' <=> Acyclic
    BY <1>1, SameAcyclic
  <2>2. [i \in DOMAIN graph |-> Task(i)]' = [i \in DOMAIN graph |-> Task(i)]
    BY <1>1 DEF Task
  <2>3. QED
    BY <1>1, <2>1, <2>2 DEF IInv, Starts
<1>7. QED
  BY <1>2, <1>3, <1>4, <1>5, <1>6 DEF IInv

\* The invariant: graph, evidence, results, report and tasks are what the steps before
\* made of the inputs, whatever the inputs are.
THEOREM MaterializationInvariant == Spec => []IInv
<1>1. Init => IInv
  BY InitIsSound
<1>2. IInv /\ [Next]_vars => IInv'
  <2> SUFFICES ASSUME IInv, [Next]_vars PROVE IInv'
    OBVIOUS
  <2>1. CASE PlanGraph
    BY <2>1, PlanKeeps
  <2>2. CASE ProjectEvidence
    BY <2>2, ProjectKeeps
  <2>3. CASE MaterializeNode
    BY <2>3, MaterializeKeeps
  <2>4. CASE ValidateReadiness
    BY <2>4, ValidateKeeps
  <2>5. CASE StartExecution
    BY <2>5, StartKeeps
  <2>6. CASE BlockExecution
    BY <2>6, BlockKeeps
  <2>7. CASE Finished \/ UNCHANGED vars
    BY <2>7, StutterKeeps DEF Finished
  <2>8. QED
    BY <2>1, <2>2, <2>3, <2>4, <2>5, <2>6, <2>7 DEF Next
<1>3. QED
  BY <1>1, <1>2, PTL DEF Spec

-----------------------------------------------------------------------------
(* What follows *)

\* What the invariant says of a graph that has been judged.
LEMMA JudgedFacts ==
    ASSUME IInv, ~Early
    PROVE  /\ Planned(graph) /\ Len(results) = Len(graph) /\ DOMAIN graph = 1 .. Len(graph)
           /\ Len(graph) \in Nat
           /\ \A i \in 1 .. Len(graph) : Fits(graph[i]) /\ Given(graph[i], results[i])
           /\ report = "ready" => \A i \in 1 .. Len(graph) : results[i].spec.made
<1>1. Planned(graph)
  BY DEF IInv, Prepares, Early
<1>2. Len(results) = Len(graph) /\ \A i \in 1 .. Len(graph) : Given(graph[i], results[i])
  BY DEF IInv, Materializes
<1>3. /\ DOMAIN graph = 1 .. Len(graph) /\ Len(graph) \in Nat
      /\ \A i \in 1 .. Len(graph) : Fits(graph[i])
  BY <1>1 DEF Planned
<1>4. ASSUME report = "ready", NEW i \in 1 .. Len(graph) PROVE results[i].spec.made
  <2>1. results[i].status = "ready"
    BY <1>2, <1>4 DEF IInv, Judges
  <2>2. results[i].spec.made <=> results[i].status = "ready"
    BY <1>2, Zenon DEF Given
  <2>3. QED
    BY <2>1, <2>2
<1>5. QED
  BY <1>1, <1>2, <1>3, <1>4

\* There is no report early on.
LEMMA ReportedIsLate ==
    ASSUME IInv, report # "none" \/ stage \in {"gate", "run", "rejected", "blocked"}
    PROVE  ~Early /\ report \in {"ready", "blocked", "unsupported"}
BY DEF IInv, Judges, Early

\* The types follow.
LEMMA TypesFollow ==
    ASSUME IInv
    PROVE  TypeOK
<1>1. stage \in {"plan", "project", "materialize", "gate", "run", "rejected", "blocked"}
  BY DEF IInv, Prepares
<1>2. ASSUME NEW o \in Range(graph)
      PROVE  /\ o.stage \in Stages /\ o.depends \subseteq Stages
             /\ Range(o.bindings) \cup o.assets \subseteq Candidates
  <2>1. stage # "plan"
    BY <1>2 DEF IInv, Prepares, Range
  <2>2. Planned(graph)
    BY <2>1 DEF IInv, Prepares
  <2>3. PICK i \in 1 .. Len(graph) : o = graph[i]
    BY <2>2 DEF Planned, Range
  <2>4. \A j \in 1 .. Len(graph) : graph[j].stage \in Stages
    BY <2>2 DEF Planned, Fits
  <2>5. o.depends \subseteq {graph[j].stage : j \in 1 .. Len(graph)}
    BY <2>2, <2>3 DEF Planned
  <2>6. Fits(o)
    BY <2>2, <2>3 DEF Planned
  <2>7. o.bindings \in Seq(Candidates) /\ o.assets \subseteq Candidates
    BY <2>6, Zenon DEF Fits
  <2>8. Range(o.bindings) \subseteq Candidates
    BY <2>7, MembersOfSeq
  <2>9. QED
    BY <2>3, <2>4, <2>5, <2>7, <2>8
<1>3. Len(results) <= Len(graph)
  BY DEF IInv, Materializes
<1>4. ASSUME NEW r \in Range(results)
      PROVE  r.status \in {"ready", "blocked", "unsupported"} /\ (r.spec.made <=> r.status = "ready")
  <2>1. PICK i \in 1 .. Len(results) : r = results[i]
    BY MembersOfSeq DEF IInv, Materializes, Range
  <2>2. Given(graph[i], r)
    BY <2>1 DEF IInv, Materializes
  <2>3. QED
    BY <2>2, Zenon DEF Given
<1>5. report \in {"none", "ready", "blocked", "unsupported"}
  BY DEF IInv, Judges
<1>6. ASSUME tasks # <<>> PROVE stage = "run" /\ Len(tasks) = Len(graph)
  <2>1. stage = "run" /\ tasks = [i \in DOMAIN graph |-> Task(i)]
    BY <1>6 DEF IInv, Starts
  <2>2. DOMAIN graph = 1 .. Len(graph) /\ Len(graph) \in Nat
    BY <2>1, ReportedIsLate, JudgedFacts
  <2>3. QED
    BY <2>1, <2>2
<1>7. QED
  BY <1>1, <1>2, <1>3, <1>4, <1>5, <1>6, Zenon DEF TypeOK

\* What a ready graph fetches is fixed.
LEMMA FetchesFollow ==
    ASSUME IInv
    PROVE  ReadyFetchesAreFixed
<1>1. ASSUME report = "ready", NEW i \in Preparations PROVE Fixed(results[i].spec)
  <2>1. ~Early
    BY <1>1, ReportedIsLate
  <2>2. i \in 1 .. Len(graph) /\ graph[i].stage \in PreparationStages
    BY <2>1, JudgedFacts DEF Preparations
  <2>3. Given(graph[i], results[i]) /\ results[i].spec.made
    BY <1>1, <2>1, <2>2, JudgedFacts
  <2>4. QED
    BY <2>2, <2>3, Zenon DEF Given
<1>2. QED
  BY <1>1, Zenon DEF ReadyFetchesAreFixed, Fixed, BoundCandidates

\* In a planned graph every node works after the clone.
LEMMA PlannedIsSound ==
    ASSUME IInv, ~Early, wiring = "planned"
    PROVE  Sound
<1>1. Planned(graph) /\ DOMAIN graph = 1 .. Len(graph) /\ Len(graph) \in Nat
  BY JudgedFacts
<1>2. ASSUME NEW i \in 1 .. Len(graph), graph[i].stage \notin PreparationStages
      PROVE  ProducedBefore(i)
  <2>1. ASSUME NEW j \in 1 .. Len(graph), graph[j].stage = "clone_repository"
        PROVE  "clone_repository" \in Ancestors(graph[i].stage)
    <3>1. j = 1
      BY <1>1, <2>1 DEF Planned
    <3>2. i # j
      BY <1>2, <2>1 DEF PreparationStages
    <3>3. j < i
      BY <1>1, <3>1, <3>2
    <3>4. QED
      BY <1>1, <2>1, <3>3, AncestorsOfChain
  <2>2. QED
    BY <1>1, <2>1, Zenon DEF ProducedBefore
<1>3. QED
  BY <1>1, <1>2, Zenon DEF Sound

\* A planned graph is ready when it is complete.
LEMMA PlannedFollows ==
    ASSUME IInv
    PROVE  PlannedReadyIsComplete
<1>1. ASSUME wiring = "planned", report # "none"
      PROVE  report = "ready" <=> Len(results) = Len(graph) /\ \A r \in Range(results) : r.spec.made
  <2>1. ~Early
    BY <1>1, ReportedIsLate
  <2>2. Sound
    BY <1>1, <2>1, PlannedIsSound
  <2>3. /\ Len(results) = Len(graph)
        /\ \A i \in 1 .. Len(results) : results[i].spec.made <=> results[i].status = "ready"
    <3>1. Len(results) = Len(graph) /\ \A i \in 1 .. Len(results) : Given(graph[i], results[i])
      BY <2>1, JudgedFacts
    <3>2. QED
      BY <3>1, Zenon DEF Given
  <2>4. report = "ready" <=> \A i \in 1 .. Len(results) : results[i].status = "ready"
    BY <2>1, <2>2 DEF IInv, Judges
  <2>5. DOMAIN results = 1 .. Len(results)
    BY MembersOfSeq DEF IInv, Materializes
  <2>6. (\A r \in Range(results) : r.spec.made) <=> \A i \in 1 .. Len(results) : results[i].spec.made
    BY <2>5, Zenon DEF Range
  <2>7. QED
    BY <2>3, <2>4, <2>6
<1>2. ASSUME wiring = "planned", stage = "rejected" PROVE FALSE
  <2>1. Planned(graph)
    BY <1>2, ReportedIsLate, JudgedFacts
  <2>2. Acyclic
    BY <1>2, <2>1, ChainIsAcyclic
  <2>3. QED
    BY <1>2, <2>2 DEF IInv, Starts
<1>3. QED
  BY <1>1, <1>2, Zenon DEF PlannedReadyIsComplete

\* When the records agree, a workload is where the clone puts the repository.
LEMMA WorkIsInTheClone ==
    ASSUME IInv, report = "ready", Coherent, NEW i \in Workloads, NEW j \in Preparations,
           graph[j].stage = "clone_repository"
    PROVE  results[i].spec.dir = results[j].spec.dir
<1> DEFINE p == BoundTo("primary_repository")
<1>1. ~Early
  BY ReportedIsLate
<1>2. /\ i \in 1 .. Len(graph) /\ graph[i].stage \notin PreparationStages
      /\ j \in 1 .. Len(graph)
  BY <1>1, JudgedFacts DEF Workloads, Preparations
<1>3. /\ Given(graph[i], results[i]) /\ results[i].spec.made
      /\ Given(graph[j], results[j]) /\ results[j].spec.made
  BY <1>1, <1>2, JudgedFacts
<1>4. p \in Range(Found(Repositories)) /\ results[j].spec.dir = RepositoryEvidence(p).target
  BY <1>3, Zenon DEF Given
<1>5. bundle.known
  <2>1. graph[j].stage \in PreparationStages
    BY DEF PreparationStages
  <2>2. QED
    BY <1>3, <2>1, Zenon DEF Given
<1>6. ClonedTo(results[i].spec.dir)
  BY <1>2, <1>3, Zenon DEF Given
<1>7. results[i].spec.dir = RepositoryEvidence(p).target
  BY <1>4, <1>5, <1>6, Zenon DEF ClonedTo
<1>8. QED
  BY <1>4, <1>7

\* A task that works where the clone's task puts the repository waits for it.
LEMMA TaskWaitsForClone ==
    ASSUME IInv, stage = "run", NEW t \in Range(tasks), NEW u \in Range(tasks),
           t # u, u.node = "clone_repository", t.dir = u.dir
    PROVE  u.node \in Ancestors(t.node)
<1>1. ~Early /\ report = "ready" /\ tasks = [i \in DOMAIN graph |-> Task(i)] /\ Sound
  BY ReportedIsLate DEF IInv, Starts, Judges
<1>2. Planned(graph) /\ DOMAIN graph = 1 .. Len(graph)
  BY <1>1, JudgedFacts
<1>3. PICK i \in 1 .. Len(graph) : t = Task(i)
  BY <1>1, <1>2, Zenon DEF Range
<1>4. PICK j \in 1 .. Len(graph) : u = Task(j)
  BY <1>1, <1>2, Zenon DEF Range
<1>5. /\ t.node = graph[i].stage /\ t.dir = results[i].spec.dir
      /\ u.node = graph[j].stage /\ u.dir = results[j].spec.dir
  BY <1>3, <1>4 DEF Task
<1>6. i # j
  BY <1>3, <1>4
<1>7. graph[i].stage # "clone_repository"
  BY <1>2, <1>5, <1>6, Zenon DEF Planned
<1>8. /\ Given(graph[i], results[i]) /\ results[i].spec.made
      /\ Given(graph[j], results[j]) /\ results[j].spec.made
  BY <1>1, JudgedFacts
<1>9. results[j].spec.dir # NoDir
  BY <1>5, <1>8, Zenon DEF Given
<1>10. graph[i].stage \notin PreparationStages
  <2>1. ASSUME graph[i].stage \in PreparationStages PROVE FALSE
    <3>1. graph[i].stage \in PreparationStages \ {"clone_repository"}
      BY <1>7, <2>1
    <3>2. results[i].spec.dir = NoDir
      BY <1>8, <3>1, Zenon DEF Given
    <3>3. QED
      BY <1>5, <1>9, <3>2
  <2>2. QED
    BY <2>1
<1>11. ProducedBefore(i)
  BY <1>1, <1>2, <1>8, <1>10, Zenon DEF Sound
<1>12. results[i].spec.dir = results[j].spec.dir /\ graph[j].stage = "clone_repository" /\ j \in DOMAIN graph
  BY <1>2, <1>5
<1>13. "clone_repository" \in Ancestors(graph[i].stage)
  BY <1>8, <1>11, <1>12, Zenon DEF ProducedBefore
<1>14. QED
  BY <1>5, <1>13

\* Of the tasks that are left, one waits for none of the others.
LEMMA OneTaskIsFree ==
    ASSUME IInv, NEW left \in (SUBSET Range(tasks)) \ {{}}
    PROVE  \E t \in left : t.dependencies \cap {u.node : u \in left} = {}
<1>1. stage = "run"
  <2>1. ASSUME stage # "run" PROVE FALSE
    <3>1. tasks = <<>>
      BY <2>1 DEF IInv, Starts
    <3>2. Range(tasks) = {}
      BY <3>1 DEF Range
    <3>3. QED
      BY <3>2
  <2>2. QED
    BY <2>1
<1>2. ~Early /\ Acyclic /\ tasks = [i \in DOMAIN graph |-> Task(i)]
  BY <1>1, ReportedIsLate DEF IInv, Starts
<1>3. Planned(graph) /\ DOMAIN graph = 1 .. Len(graph)
  BY <1>2, JudgedFacts
<1> DEFINE at == {i \in 1 .. Len(graph) : Task(i) \in left}
<1>4. \A t \in left : \E i \in at : t = Task(i)
  <2>1. \A t \in Range(tasks) : \E i \in 1 .. Len(graph) : t = Task(i)
    BY <1>2, <1>3, Zenon DEF Range
  <2>2. QED
    BY <2>1
<1>5. at \in SUBSET (1 .. Len(graph)) /\ at # {}
  BY <1>4
<1>6. PICK i \in at : graph[i].depends \cap {graph[j].stage : j \in at} = {}
  <2> HIDE DEF at
  <2> QED
    BY <1>2, <1>3, <1>5, OneComesFirst
<1>7. \A j : Task(j).node = graph[j].stage /\ Task(j).dependencies = graph[j].depends
  BY DEF Task
<1>8. {u.node : u \in left} \subseteq {graph[j].stage : j \in at}
  <2> HIDE DEF at
  <2> QED
    BY <1>4, <1>7
<1>9. Task(i) \in left
  OBVIOUS
<1>10. Task(i).dependencies \cap {u.node : u \in left} = {}
  <2> HIDE DEF at
  <2> QED
    BY <1>6, <1>7, <1>8
<1>11. QED
  BY <1>9, <1>10

\* The graph, the evidence and the tasks keep their types.
THEOREM TypeCorrect == Spec => []TypeOK
<1>1. IInv => TypeOK
  BY TypesFollow
<1>2. QED
  BY <1>1, MaterializationInvariant, PTL

\* Whatever was found and bound, what a ready graph fetches does not change under it,
\* needs no credentials, and was bound or is the only candidate of its kind.
THEOREM FetchesAreFixed == Spec => []ReadyFetchesAreFixed
<1>1. IInv => ReadyFetchesAreFixed
  BY FetchesFollow
<1>2. QED
  BY <1>1, MaterializationInvariant, PTL

\* A graph that planning made is ready exactly when it is complete, and never rejected.
THEOREM PlannedIsComplete == Spec => []PlannedReadyIsComplete
<1>1. IInv => PlannedReadyIsComplete
  BY PlannedFollows
<1>2. QED
  BY <1>1, MaterializationInvariant, PTL

\* Work is done in the clone when the records agree; no task works where another will
\* put a repository without waiting for it; and the tasks of a run can be ordered.
THEOREM WorkAfterClone == Spec => []WorkFollowsItsClone
<1>1. IInv => WorkFollowsItsClone
  <2> SUFFICES ASSUME IInv PROVE WorkFollowsItsClone
    OBVIOUS
  <2>1. report = "ready" /\ Coherent =>
          \A i \in Workloads, j \in Preparations :
              graph[j].stage = "clone_repository" => results[i].spec.dir = results[j].spec.dir
    BY WorkIsInTheClone
  <2>2. stage = "run" => \A t, u \in Range(tasks) :
          t # u /\ u.node = "clone_repository" /\ t.dir = u.dir => u.node \in Ancestors(t.node)
    BY TaskWaitsForClone
  <2>3. \A left \in (SUBSET Range(tasks)) \ {{}} :
          \E t \in left : t.dependencies \cap {u.node : u \in left} = {}
    BY OneTaskIsFree
  <2>4. QED
    BY <2>1, <2>2, <2>3, Zenon DEF WorkFollowsItsClone
<1>2. QED
  BY <1>1, MaterializationInvariant, PTL
=============================================================================
