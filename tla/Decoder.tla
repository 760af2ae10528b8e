------------------------------ MODULE Decoder -------------------------------
(***************************************************************************)
(* The decoding operations of src/src/peripheral/lpu.rs: which token is    *)
(* chosen from a list of scores, under the decode registers.  The random   *)
(* number is abstracted to any 32-bit one.  Tokens are counted from 1, in  *)
(* the code from 0.                                                        *)
(***************************************************************************)
EXTENDS Integers, Sequences, FiniteSets, SequencesExt

CONSTANTS
  Vocabulary,   \* bound on the number of scores
  Scores,       \* the scores of a token
  Words,        \* what software stores to a decode register
  Tickets,      \* how many random numbers there are: 2^32
  Saturation    \* where sums of weights saturate: 2^64 - 1

ASSUME DecoderAssumption ==
  /\ Vocabulary \in Nat \ {0} /\ Scores \subseteq Nat
  /\ Saturation \in Nat /\ Tickets \in 1 .. Saturation
  /\ Words \subseteq 0 .. 256 * 256 - 1

Tokens == 1 .. Vocabulary
ScoreLists == UNION {[1 .. n -> Scores] : n \in Tokens}

LargestWord == 256 * 256 - 1   \* the largest of Words, for a 32-bit register
Registers == 0 .. LargestWord
DecoderState ==
  [topK : Registers, temperature : Registers, topP : Registers, result : Tokens]
NewDecoder == [topK |-> 1, temperature |-> 1000, topP |-> 900, result |-> 1]

(* max(1), and clamp(1, 1000) where most is 1000.                          *)
Limited(most, value) == IF value < 1 THEN 1 ELSE IF value > most THEN most ELSE value

(* A word arrives byte by byte, the lowest first, and each byte writes the *)
(* whole register again.  The two high bytes of both are zero.             *)
Bytewise(most, old, word) ==
  LET low == Limited(most, (old \div 256) * 256 + (word % 256))
  IN  Limited(most, (word \div 256) * 256 + (low % 256))

StoreTopK(d, word) == [d EXCEPT !.topK = Bytewise(LargestWord, @, word)]
StoreTemperature(d, word) == [d EXCEPT !.temperature = Bytewise(LargestWord, @, word)]
StoreTopP(d, word) == [d EXCEPT !.topP = Bytewise(1000, @, word)]

(* Tokens from the best to the worst, the first of equals first.           *)
Before(scores, s, t) == scores[s] > scores[t] \/ (scores[s] = scores[t] /\ s < t)
Ranked(scores) ==
  CHOOSE r \in [DOMAIN scores -> DOMAIN scores] :
    \A i, j \in DOMAIN scores : i < j => Before(scores, r[i], r[j])

ScoreAt(scores, n) == scores[Ranked(scores)[n]]

(* A weight is relative to the lowest score of the tokens that are weighed.*)
Above(score, lowest) == IF score > lowest THEN score - lowest ELSE 0
Weight(d, scores, lowest, t) == 1 + (Above(scores[t], lowest) * 1000) \div d.temperature

(* The weight of the n best tokens.                                        *)
WeightOf(d, scores, lowest, n) ==
  FoldLeft(LAMBDA sum, t : sum + Weight(d, scores, lowest, t), 0, SubSeq(Ranked(scores), 1, n))

Saturated(x) == IF x > Saturation THEN Saturation ELSE x

(* How many of the best tokens make up the share topP of the weight of     *)
(* all.  The code's sums saturate too, which the threshold covers: it is   *)
(* at most Saturation \div 1000.                                           *)
Cut(d, scores, rounding) ==
  CHOOSE n \in DOMAIN scores :
    LET Best(m) == WeightOf(d, scores, ScoreAt(scores, Len(scores)), m)
        threshold == Saturated(Best(Len(scores)) * d.topP + rounding) \div 1000
    IN  Best(n) >= threshold /\ (n > 1 => Best(n - 1) < threshold)
WrongNucleus(d, scores) == Cut(d, scores, 0)  \* the threshold is rounded down
Nucleus(d, scores) == Cut(d, scores, 999)

Hows == {"greedy", "topk", "topp"}

(* The tokens the ticket may fall on.  It is a random number below Tickets *)
(* modulo the weight of the list, so that no token is drawn whose betters  *)
(* weigh Tickets or more.                                                  *)
Kept(how, d, scores) ==
  LET n == IF how = "greedy" \/ d.temperature <= 1 THEN 1
           ELSE IF how = "topp" THEN Nucleus(d, scores)
           ELSE IF d.topK < Len(scores) THEN d.topK ELSE Len(scores)
      lowest == ScoreAt(scores, IF how = "topk" THEN n ELSE Len(scores))
  IN  {Ranked(scores)[i] : i \in {j \in 1 .. n : WeightOf(d, scores, lowest, j - 1) < Tickets}}

-----------------------------------------------------------------------------
(* What decoding promises, without ranking anything.                       *)
Better(scores, t) == {s \in DOMAIN scores : Before(scores, s, t)}

SumOfWeights(d, scores, weighed, S) ==
  LET lowest == CHOOSE x \in {scores[t] : t \in weighed} : \A t \in weighed : x <= scores[t]
  IN  MapThenSumSet(LAMBDA t : Weight(d, scores, lowest, t), S)

(* The best token, of top-k those with fewer than k better ones, of top-p  *)
(* those whose betters make up less than p of the weight of all.           *)
Listed(how, d, scores) ==
  {t \in DOMAIN scores :
    LET better == Better(scores, t)
        Sum(S) == SumOfWeights(d, scores, DOMAIN scores, S)
    IN  \/ better = {}
        \/ d.temperature > 1 /\ how = "topk" /\ Cardinality(better) < d.topK
        \/ d.temperature > 1 /\ how = "topp" /\
             /\ 1000 * Sum(better) < d.topP * Sum(DOMAIN scores)
             /\ 1000 * Sum(better) + 999 < Saturation}

(* Of these, the ones a ticket can reach.                                  *)
Eligible(how, d, scores) ==
  LET listed  == Listed(how, d, scores)
      weighed == IF how = "topk" THEN listed ELSE DOMAIN scores
  IN  {t \in listed : SumOfWeights(d, scores, weighed, Better(scores, t)) < Tickets}
=============================================================================
