------------------------------ MODULE PlicProofs -----------------------------
(***************************************************************************)
(* What the operators of Plic do, for any number of sources: the recursive *)
(* search of best_pending_source() has a solution, and what it returns is  *)
(* what its loop looks for.                                                *)
(***************************************************************************)
EXTENDS Plic, Sequences, WellFoundedInduction, TLAPS

(* Induction over the natural numbers, by the least number outside S.      *)
LEMMA LeastNatural ==
  ASSUME NEW S \in SUBSET Nat, S # {}
  PROVE  \E m \in S : \A k \in S : m <= k
<1> DEFINE Below == OpToRel(<, Nat)
<1>1. IsWellFoundedOn(Below, Nat)
  BY NatLessThanWellFounded
<1> HIDE DEF Below
<1>2. PICK m \in S : \A k \in S : <<k, m>> \notin Below
  BY <1>1, WFMin
<1>3. ASSUME NEW k \in S PROVE m <= k
  <2>1. k \in Nat /\ m \in Nat
    OBVIOUS
  <2>2. <<k, m>> \in Below <=> k < m
    BY <2>1 DEF Below, OpToRel
  <2> QED  BY <1>2, <2>1, <2>2
<1> QED  BY <1>3

LEMMA SetInduction ==
  ASSUME NEW S \in SUBSET Nat, 0 \in S, \A n \in S : n + 1 \in S
  PROVE  S = Nat
<1>1. SUFFICES ASSUME Nat \ S # {} PROVE FALSE
  OBVIOUS
<1>2. PICK m \in Nat \ S : \A k \in Nat \ S : m <= k
  BY <1>1, LeastNatural
<1>3. m - 1 \in S
  BY <1>2
<1> QED  BY <1>2, <1>3

(* A finite set of natural numbers is bounded.                             *)
LEMMA SequenceBounded ==
  ASSUME NEW T \in SUBSET Nat, NEW q \in Seq(T)
  PROVE  \E b \in Nat : \A i \in 1 .. Len(q) : q[i] <= b
<1> DEFINE S == {n \in Nat : n <= Len(q) => \E b \in Nat : \A i \in 1 .. n : q[i] <= b}
<1>1. 0 \in S
  <2>1. \A i \in 1 .. 0 : q[i] <= 0  OBVIOUS
  <2> QED  BY <2>1
<1>2. ASSUME NEW n \in S  PROVE n + 1 \in S
  <2>1. SUFFICES ASSUME n + 1 <= Len(q)
                 PROVE  \E b \in Nat : \A i \in 1 .. n + 1 : q[i] <= b
    OBVIOUS
  <2>2. PICK b \in Nat : \A i \in 1 .. n : q[i] <= b
    BY <2>1
  <2>3. n \in Nat /\ \A i \in 1 .. n + 1 : q[i] \in Nat
    <3>1. n \in Nat /\ \A i \in 1 .. n + 1 : i \in 1 .. Len(q)  BY <2>1
    <3>2. \A i \in 1 .. Len(q) : q[i] \in T  OBVIOUS
    <3> QED  BY <3>1, <3>2
  <2> HIDE DEF S
  <2>4. b + q[n + 1] \in Nat  BY <2>2, <2>3
  <2>5. ASSUME NEW i \in 1 .. n + 1  PROVE q[i] <= b + q[n + 1]
    <3>1. q[i] \in Nat /\ q[n + 1] \in Nat  BY <2>3
    <3>2. CASE i = n + 1  BY <2>2, <3>1, <3>2
    <3>3. CASE i # n + 1
      <4>1. i \in 1 .. n  BY <2>3, <3>3
      <4> QED  BY <2>2, <3>1, <4>1
    <3> QED  BY <3>2, <3>3
  <2> QED  BY <2>4, <2>5
<1> HIDE DEF S
<1>3. S = Nat  BY <1>1, <1>2, SetInduction DEF S
<1>4. Len(q) \in S  BY <1>3
<1> QED  BY <1>4 DEF S

LEMMA LastSourceIsLast == LastSource \in Sources /\ \A s \in Sources : s <= LastSource
<1>1. Sources \subseteq Nat \ {0} /\ VirtioSource \in Sources
  BY PlicAssumption
<1>2. PICK q \in Seq(Sources) : \A s \in Sources : \E n \in 1 .. Len(q) : q[n] = s
  BY PlicAssumption DEF IsFiniteSet
<1>3. Sources \in SUBSET Nat  BY <1>1
<1>4. PICK b \in Nat : \A i \in 1 .. Len(q) : q[i] <= b
  BY <1>3, SequenceBounded
<1> DEFINE B == {n \in Nat : \A s \in Sources : s <= n}
<1>5. b \in B  BY <1>1, <1>2, <1>4
<1>6. PICK m \in B : \A k \in B : m <= k
  BY <1>5, LeastNatural
<1>7. m \in Sources
  <2>1. m >= VirtioSource /\ m \in Nat  BY <1>1, <1>6
  <2>2. m - 1 \in Nat /\ m - 1 \notin B  BY <1>6, <2>1 DEF VirtioSource
  <2>3. PICK s \in Sources : ~(s <= m - 1)  BY <2>2
  <2>4. s <= m /\ s \in Nat  BY <1>1, <1>6
  <2> QED  BY <2>1, <2>3, <2>4
<1>8. m \in Sources /\ \A s \in Sources : s <= m  BY <1>6, <1>7
<1> QED  BY <1>8 DEF LastSource

(* What the search has found when it has visited the sources up to n.      *)
Candidates(p, x, n) == {s \in Sources : s <= n /\ CanInterrupt(p, x, s)}
IsBest(p, best, among) ==
  IF among = {} THEN best = NoSource
  ELSE /\ best \in among
       /\ \A s \in among : \/ p.priority[s] < p.priority[best]
                           \/ p.priority[s] = p.priority[best] /\ s >= best

Visited(p, x, s, best) ==
  IF s \in Sources /\ CanInterrupt(p, x, s) /\ Beats(p, s, best) THEN s ELSE best
IsSearch(p, x, f, n) ==
  f = [s \in 0 .. n |-> IF s = 0 THEN NoSource ELSE Visited(p, x, s, f[s - 1])]

LEMMA VisitFindsBest ==
  ASSUME NEW p \in PlicState, NEW x \in Contexts, NEW n \in Nat,
         NEW best, IsBest(p, best, Candidates(p, x, n))
  PROVE  IsBest(p, Visited(p, x, n + 1, best), Candidates(p, x, n + 1))
<1> DEFINE C == Candidates(p, x, n)
           D == Candidates(p, x, n + 1)
           new == n + 1 \in Sources /\ CanInterrupt(p, x, n + 1)
           now == Visited(p, x, n + 1, best)
<1>1. /\ Sources \subseteq Nat \ {0} /\ Priorities \subseteq Nat
      /\ p.priority \in [Sources -> Priorities]
  BY PlicAssumption DEF PlicState
<1>2. D = IF new THEN C \cup {n + 1} ELSE C
  <2>1. \A s \in Sources : s <= n + 1 <=> s <= n \/ s = n + 1  BY <1>1
  <2> QED  BY <2>1 DEF Candidates
<1>3. C \subseteq Sources /\ \A s \in C : s <= n  BY DEF Candidates
<1>4. IsBest(p, best, C)  OBVIOUS
<1> SUFFICES IsBest(p, now, D)  OBVIOUS
<1> HIDE DEF C, D, now
<1>5. CASE ~new
  BY <1>2, <1>4, <1>5 DEF Visited, now
<1>6. CASE new /\ C = {}
  <2>1. now = n + 1 /\ D = {n + 1}  BY <1>2, <1>4, <1>6 DEF IsBest, Visited, Beats, now
  <2> QED  BY <2>1, <1>6 DEF IsBest
<1>7. CASE new /\ C # {}
  <2>1. /\ best \in C /\ D = C \cup {n + 1}
        /\ \A s \in C : \/ p.priority[s] < p.priority[best]
                        \/ p.priority[s] = p.priority[best] /\ s >= best
    BY <1>2, <1>4, <1>7 DEF IsBest
  <2>2. best # NoSource /\ best <= n /\ best \in Sources  BY <1>1, <1>3, <2>1 DEF NoSource
  <2>3. \A s \in D : s \in Sources /\ p.priority[s] \in Nat /\ s \in Nat
    BY <1>1, <1>3, <1>7, <2>1
  <2>4. CASE p.priority[n + 1] > p.priority[best]
    <3>1. now = n + 1  BY <1>7, <2>4 DEF Visited, Beats, now
    <3>2. \A s \in D : \/ p.priority[s] < p.priority[n + 1]
                       \/ p.priority[s] = p.priority[n + 1] /\ s >= n + 1
      BY <2>1, <2>3, <2>4
    <3> QED  BY <2>1, <3>1, <3>2 DEF IsBest
  <2>5. CASE ~(p.priority[n + 1] > p.priority[best])
    <3>1. now = best  BY <2>2, <2>5 DEF Visited, Beats, now
    <3>2. \A s \in D : \/ p.priority[s] < p.priority[best]
                       \/ p.priority[s] = p.priority[best] /\ s >= best
      BY <2>1, <2>2, <2>3, <2>5
    <3> QED  BY <2>1, <3>1, <3>2 DEF IsBest
  <2> QED  BY <2>4, <2>5
<1> QED  BY <1>5, <1>6, <1>7

(* The recursion has a solution, longer by one source at a time.           *)
LEMMA SearchExists ==
  ASSUME NEW p, NEW x, NEW n \in Nat
  PROVE  \E f : IsSearch(p, x, f, n)
<1> DEFINE S == {k \in Nat : \E f : IsSearch(p, x, f, k)}
<1>1. 0 \in S
  <2> DEFINE f == [s \in 0 .. 0 |-> NoSource]
  <2>1. f = [s \in 0 .. 0 |-> IF s = 0 THEN NoSource ELSE Visited(p, x, s, f[s - 1])]
    OBVIOUS
  <2> HIDE DEF f
  <2>2. IsSearch(p, x, f, 0)  BY <2>1 DEF IsSearch
  <2> QED  BY <2>2
<1>2. ASSUME NEW k \in S  PROVE k + 1 \in S
  <2>1. k \in Nat /\ \E f : IsSearch(p, x, f, k)  OBVIOUS
  <2>2. PICK f : IsSearch(p, x, f, k)  BY <2>1
  <2> DEFINE last == Visited(p, x, k + 1, f[k])
             g == [s \in 0 .. k + 1 |-> IF s = k + 1 THEN last ELSE f[s]]
  <2>3. \A s \in 0 .. k + 1 :
          g[s] = IF s = 0 THEN NoSource ELSE Visited(p, x, s, g[s - 1])
    <3> SUFFICES ASSUME NEW s \in 0 .. k + 1
                 PROVE  g[s] = IF s = 0 THEN NoSource ELSE Visited(p, x, s, g[s - 1])
      OBVIOUS
    <3> HIDE DEF last
    <3>1. CASE s = k + 1
      <4>1. s # 0 /\ s - 1 = k /\ k \in 0 .. k + 1 /\ k # k + 1  BY <2>1, <3>1
      <4>2. g[s] = last /\ g[s - 1] = f[k]  BY <3>1, <4>1
      <4> QED  BY <3>1, <4>1, <4>2 DEF last
    <3>2. CASE s = 0
      <4>1. s # k + 1 /\ 0 \in 0 .. k  BY <2>1, <3>2
      <4>2. g[s] = f[0]  BY <3>2, <4>1
      <4>3. f[0] = NoSource  BY <2>2, <4>1 DEF IsSearch
      <4> QED  BY <3>2, <4>2, <4>3
    <3>3. CASE s # 0 /\ s # k + 1
      <4>1. s \in 0 .. k /\ s - 1 \in 0 .. k + 1 /\ s - 1 # k + 1  BY <2>1, <3>3
      <4>2. g[s] = f[s] /\ g[s - 1] = f[s - 1]  BY <3>3, <4>1
      <4>3. f[s] = Visited(p, x, s, f[s - 1])  BY <2>2, <3>3, <4>1 DEF IsSearch
      <4> QED  BY <3>3, <4>2, <4>3
    <3> QED  BY <3>1, <3>2, <3>3
  <2>4. g = [s \in 0 .. k + 1 |-> g[s]]  OBVIOUS
  <2> HIDE DEF g
  <2>5. g = [s \in 0 .. k + 1 |-> IF s = 0 THEN NoSource ELSE Visited(p, x, s, g[s - 1])]
    BY <2>3, <2>4
  <2>6. IsSearch(p, x, g, k + 1)  BY <2>5 DEF IsSearch
  <2> QED  BY <2>1, <2>6
<1> HIDE DEF S
<1>3. S = Nat  BY <1>1, <1>2, SetInduction DEF S
<1> QED  BY <1>3 DEF S

LEMMA SearchFindsBest ==
  ASSUME NEW p \in PlicState, NEW x \in Contexts
  PROVE  IsBest(p, BestPendingSource(p, x), Candidates(p, x, LastSource))
<1> DEFINE f == BestUpTo(p, x)
           S == {n \in Nat : n <= LastSource => IsBest(p, f[n], Candidates(p, x, n))}
<1>1. LastSource \in Nat  BY LastSourceIsLast, PlicAssumption
<1>2. IsSearch(p, x, f, LastSource)
  <2>1. f = CHOOSE g : IsSearch(p, x, g, LastSource)
    BY DEF BestUpTo, IsSearch, Visited
  <2>2. \E g : IsSearch(p, x, g, LastSource)  BY <1>1, SearchExists
  <2> QED  BY <2>1, <2>2
<1> HIDE DEF f
<1>3. 0 \in S
  <2>1. Candidates(p, x, 0) = {}
    <3>1. \A s \in Sources : ~(s <= 0)  BY PlicAssumption
    <3> QED  BY <3>1 DEF Candidates
  <2>2. f[0] = NoSource  BY <1>1, <1>2 DEF IsSearch
  <2>3. IsBest(p, f[0], Candidates(p, x, 0))  BY <2>1, <2>2 DEF IsBest
  <2> QED  BY <2>3
<1>4. ASSUME NEW n \in S  PROVE n + 1 \in S
  <2>1. n \in Nat /\ (n <= LastSource => IsBest(p, f[n], Candidates(p, x, n)))  OBVIOUS
  <2>2. SUFFICES ASSUME n + 1 <= LastSource
                 PROVE  IsBest(p, f[n + 1], Candidates(p, x, n + 1))
    BY <2>1
  <2>3. n + 1 \in 0 .. LastSource /\ n + 1 # 0 /\ (n + 1) - 1 = n /\ n <= LastSource
    BY <1>1, <2>1, <2>2
  <2>4. f[n + 1] = Visited(p, x, n + 1, f[n])  BY <1>2, <2>3 DEF IsSearch
  <2>5. IsBest(p, Visited(p, x, n + 1, f[n]), Candidates(p, x, n + 1))
    BY <2>1, <2>3, VisitFindsBest
  <2> QED  BY <2>4, <2>5
<1> HIDE DEF S
<1>5. S = Nat  BY <1>3, <1>4, SetInduction DEF S
<1>6. IsBest(p, f[LastSource], Candidates(p, x, LastSource))  BY <1>1, <1>5 DEF S
<1> QED  BY <1>6 DEF f, BestPendingSource

LEMMA BestAmongOffered ==
  ASSUME NEW p \in PlicState, NEW x \in Contexts
  PROVE  IsBest(p, BestPendingSource(p, x),
                {s \in p.pending \cap p.enable[x] : p.priority[s] > p.threshold[x]})
<1> DEFINE Offered == {s \in p.pending \cap p.enable[x] : p.priority[s] > p.threshold[x]}
<1>1. Candidates(p, x, LastSource) = Offered
  <2>1. p.pending \subseteq Sources  BY DEF PlicState
  <2> QED  BY <2>1, LastSourceIsLast DEF Candidates, CanInterrupt
<1> QED  BY <1>1, SearchFindsBest

LEMMA BestIsSource ==
  ASSUME NEW p \in PlicState, NEW x \in Contexts
  PROVE  BestPendingSource(p, x) \in Sources \cup {NoSource}
<1>1. p.pending \subseteq Sources  BY DEF PlicState
<1> QED  BY <1>1, BestAmongOffered DEF IsBest

LEMMA SetPendingSound ==
  ASSUME NEW p \in PlicState, NEW T \in SUBSET Sources
  PROVE  SetPending(p, T) \in PlicState
BY DEF SetPending, PlicState

LEMMA ClaimSound ==
  ASSUME NEW p \in PlicState, NEW x \in Contexts
  PROVE  Claim(p, x) \in PlicState
<1> DEFINE s == BestPendingSource(p, x)
<1>1. s \in Sources \cup {NoSource}  BY BestIsSource
<1> HIDE DEF s
<1>2. [p EXCEPT !.pending = @ \ {s}, !.claimed[x] = s] \in PlicState
  BY <1>1 DEF PlicState
<1> QED  BY <1>2 DEF Claim, s

LEMMA CompleteSound ==
  ASSUME NEW p \in PlicState, NEW x \in Contexts, NEW s
  PROVE  Complete(p, x, s) \in PlicState
<1>1. CASE s \notin Sources
  BY <1>1 DEF Complete
<1>2. CASE s \in Sources
  <2> DEFINE c == IF p.claimed[x] = s THEN NoSource ELSE p.claimed[x]
  <2>1. c \in Sources \cup {NoSource}  BY DEF PlicState
  <2> HIDE DEF c
  <2>2. [p EXCEPT !.pending = @ \ {s}, !.claimed[x] = c] \in PlicState
    BY <2>1 DEF PlicState
  <2> QED  BY <1>2, <2>2 DEF Complete, c
<1> QED  BY <1>1, <1>2

LEMMA StoreClaimSound ==
  ASSUME NEW p \in PlicState, NEW x \in Contexts, NEW s
  PROVE  StoreClaim(p, x, s) \in PlicState
<1> DEFINE One(q) == Complete(q, x, BestPendingSource(q, x))
<1>1. ASSUME NEW q \in PlicState  PROVE One(q) \in PlicState
  BY CompleteSound
<1>2. Complete(p, x, s) \in PlicState  BY CompleteSound
<1> HIDE DEF One
<1>3. One(One(One(Complete(p, x, s)))) \in PlicState  BY <1>1, <1>2
<1> QED  BY <1>3 DEF StoreClaim, One

LEMMA StorePlicSound ==
  ASSUME NEW p \in PlicState, NEW x \in Contexts, NEW T \in SUBSET Sources,
         NEW q \in StorePlic(p, x, T)
  PROVE  q \in PlicState
<1>1. ASSUME NEW s \in T, NEW v \in Priorities
      PROVE  [p EXCEPT !.priority[s] = v] \in PlicState
  BY DEF PlicState
<1>2. ASSUME NEW e \in SUBSET T
      PROVE  [p EXCEPT !.enable[x] = e] \in PlicState
  BY DEF PlicState
<1>3. ASSUME NEW v \in Priorities
      PROVE  [p EXCEPT !.threshold[x] = v] \in PlicState
  BY DEF PlicState
<1> QED  BY <1>1, <1>2, <1>3 DEF StorePlic
=============================================================================
