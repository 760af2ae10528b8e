-------------------------------- MODULE Plic --------------------------------
(***************************************************************************)
(* The interrupt controller of src/src/interrupt/plic.rs for one hart, its *)
(* machine and its supervisor context, as operators on the controller's    *)
(* registers; bit vectors are sets of source numbers.                      *)
(***************************************************************************)
EXTENDS Integers, FiniteSets

CONSTANTS
  Sources,      \* 1 .. 1023 in the code
  Priorities    \* 0 .. 7 in the code

VirtioSource == 1

ASSUME PlicAssumption ==
  /\ IsFiniteSet(Sources) /\ Sources \subseteq Nat \ {0} /\ VirtioSource \in Sources
  /\ Priorities \subseteq Nat /\ 0 \in Priorities

Contexts == {"machine", "supervisor"}
NoSource == 0

PlicState ==
  [pending : SUBSET Sources, priority : [Sources -> Priorities],
   enable : [Contexts -> SUBSET Sources], threshold : [Contexts -> Priorities],
   claimed : [Contexts -> Sources \cup {NoSource}]]

NewPlic ==
  [pending |-> {}, priority |-> [s \in Sources |-> 0],
   enable |-> [x \in Contexts |-> {}], threshold |-> [x \in Contexts |-> 0],
   claimed |-> [x \in Contexts |-> NoSource]]

SetPending(p, sources) == [p EXCEPT !.pending = @ \cup sources]

(* best_pending_source(): the pending bits are visited in ascending order, *)
(* BestUpTo(p, x)[s] is the best of the sources up to s.                   *)
WrongBeats(p, s, best) ==  \* a later source of the same priority wins
  best = NoSource \/ p.priority[s] >= p.priority[best]
Beats(p, s, best) == best = NoSource \/ p.priority[s] > p.priority[best]

CanInterrupt(p, x, s) == s \in p.pending \cap p.enable[x] /\ p.priority[s] > p.threshold[x]
LastSource == CHOOSE m \in Sources : \A s \in Sources : s <= m

BestUpTo(p, x) ==
  LET best[s \in 0 .. LastSource] ==
        IF s = 0 THEN NoSource
        ELSE IF s \in Sources /\ CanInterrupt(p, x, s) /\ Beats(p, s, best[s - 1]) THEN s
        ELSE best[s - 1]
  IN  best
BestPendingSource(p, x) == BestUpTo(p, x)[LastSource]

(* claim() and claim_supervisor().                                         *)
Claim(p, x) ==
  LET s == BestPendingSource(p, x) IN
  IF s = NoSource THEN p ELSE [p EXCEPT !.pending = @ \ {s}, !.claimed[x] = s]

(* complete() and complete_supervisor(): whether claimed or not, the       *)
(* source stops pending.                                                   *)
Complete(p, x, s) ==
  IF s \notin Sources THEN p
  ELSE [p EXCEPT !.pending = @ \ {s}, !.claimed[x] = IF @ = s THEN NoSource ELSE @]

(* A word stored to the claim register arrives as four bytes, each merged  *)
(* with what the register reads as, the best pending source: the last      *)
(* three complete whatever is pending then.                                *)
StoreClaim(p, x, s) ==
  LET One(q) == Complete(q, x, BestPendingSource(q, x))
  IN  One(One(One(Complete(p, x, s))))

(* The other registers software may store to, for some sources and one     *)
(* context.                                                                *)
StorePlic(p, x, sources) ==
  {[p EXCEPT !.priority[s] = v] : s \in sources, v \in Priorities} \cup
  {[p EXCEPT !.enable[x] = e] : e \in SUBSET sources} \cup
  {[p EXCEPT !.threshold[x] = v] : v \in Priorities}
=============================================================================
