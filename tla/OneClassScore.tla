---------------------------- MODULE OneClassScore ----------------------------
(* NormalHMM.fit and score: windows of the training sequences, a sample of     *)
(* them, Baum-Welch, Laplace smoothing; and the score of one more sequence,    *)
(* fused over its windows or taken whole.  Probabilities are exact: natural    *)
(* numbers over the denominators D (start, transitions) and Unit (smoothed     *)
(* emissions).  A score, the logarithm of a mean of probabilities divided by a *)
(* norm, is kept as the sum of the weights, how many there are, and the norm.  *)
(* Baum-Welch is external: it may end in any matrices in which no state emits  *)
(* a symbol that was not in the windows.  A row adds up to one, or to zero if  *)
(* nothing was observed that would fill it: a state that no window leaves has  *)
(* no transitions, and a state that no window visits emits nothing either.     *)
EXTENDS Integers, SequencesExt, FiniteSetsExt

CONSTANTS NSymbols, States, D, K,   \* smoothing is 1 / K
          Windows, MaxFitWindows,   \* window sizes (0: none); cap of the sample (0: none)
          Trainings, Asked          \* what fit and score are called with

Alphabet == 0 .. (NSymbols - 1)

ScoreAssumption ==
  /\ IsFiniteSet(States)
  /\ NSymbols \in Nat \ {0} /\ D \in Nat \ {0} /\ K \in Nat \ {0}
  /\ Windows \subseteq Nat /\ MaxFitWindows \in Nat
  /\ Trainings \subseteq Seq(Seq(Alphabet)) /\ Asked \subseteq Seq(Alphabet)

VARIABLES
  window,     \* the model's
  pc,         \* "idle", or how far fit() is: "cut", "sampled", "learned"
  windows,    \* the training windows
  learned,    \* what Baum-Welch ended in
  model,      \* the fitted model, NoHmm before
  scored      \* the last sequence scored, and its score

vars == <<window, pc, windows, learned, model, scored>>

NoHmm == [start |-> <<>>, trans |-> <<>>, emit |-> <<>>]
Empty == [sequence |-> <<>>, total |-> 1, count |-> 1, norm |-> 1]

Init == /\ window \in Windows /\ pc = "idle" /\ windows = <<>>
        /\ learned = NoHmm /\ model = NoHmm /\ scored = Empty

(* One window if windowing is off or the sequence is no longer than a window.  *)
SlidingWindows(s) ==
  IF window = 0 \/ Len(s) <= window THEN <<s>>
  ELSE [i \in 1 .. (Len(s) - window + 1) |-> SubSeq(s, i, i + window - 1)]

(* fit: without a sequence that has a symbol it raises and changes nothing.    *)
(* Every training builds new objects, so each is fitted once.                  *)
Fit(sequences) ==
  /\ pc = "idle" /\ model = NoHmm
  /\ \E i \in DOMAIN sequences : sequences[i] # <<>>
  /\ LET nonEmpty == SelectSeq(sequences, LAMBDA s : s # <<>>)
     IN  windows' = FlattenSeq([i \in DOMAIN nonEmpty |-> SlidingWindows(nonEmpty[i])])
  /\ pc' = "cut"
  /\ UNCHANGED <<window, learned, model, scored>>

(* Above the cap, that many windows are picked without replacement, any.       *)
Sample ==
  /\ pc = "cut"
  /\ IF MaxFitWindows # 0 /\ Len(windows) > MaxFitWindows
     THEN \E picked \in kSubset(MaxFitWindows, DOMAIN windows) :
            windows' = [i \in 1 .. MaxFitWindows |-> windows[SetToSortSeq(picked, <)[i]]]
     ELSE UNCHANGED windows
  /\ pc' = "sampled"
  /\ UNCHANGED <<window, learned, model, scored>>

Seen == UNION {ToSet(windows[i]) : i \in DOMAIN windows}

SumOver(f) == MapThenSumSet(LAMBDA x : f[x], DOMAIN f)

Rows(S) == {row \in [S -> 0 .. D] : SumOver(row) = D}

(* The rows over S that are zero outside T.                                    *)
RowsWithin(S, T) == {row \in Rows(S) : \A x \in S \ T : row[x] = 0}

NoRow(S) == [x \in S |-> 0]

(* Of the states that the windows visit (one at least, for there is a window), *)
(* some are left for a next symbol: none if all windows have but one.          *)
Leavable(left) == left = {} <=> \A i \in DOMAIN windows : Len(windows[i]) = 1

BaumWelch ==
  /\ pc = "sampled"
  /\ \E visited \in SUBSET States : \E left \in SUBSET visited :
       /\ visited # {} /\ Leavable(left)
       /\ \E start \in RowsWithin(States, visited),
             trans \in [left -> RowsWithin(States, visited)],
             emit \in [visited -> RowsWithin(Alphabet, Seen)] :
            learned' =
              [start |-> start,
               trans |-> [q \in States |-> IF q \in left THEN trans[q] ELSE NoRow(States)],
               emit  |-> [q \in States |-> IF q \in visited THEN emit[q] ELSE NoRow(Alphabet)]]
  /\ pc' = "learned"
  /\ UNCHANGED <<window, windows, model, scored>>

Unit == D * (K + NSymbols) * NSymbols

(* Mutant: smoothing without dividing by the new sum.                          *)
MutInflated(row, a) == row[a] * (K + NSymbols) * NSymbols + D * NSymbols

(* (row[a] / D + 1 / K) / (sum of the row / D + NSymbols / K), over Unit.      *)
Smoothed(row, a) ==
  (row[a] * K + D) * (IF row = NoRow(Alphabet) THEN K + NSymbols ELSE NSymbols)

Smooth ==
  /\ pc = "learned"
  /\ model' = [learned EXCEPT !.emit =
                 [q \in States |-> [a \in Alphabet |-> Smoothed(learned.emit[q], a)]]]
  /\ pc' = "idle" /\ windows' = <<>> /\ learned' = NoHmm
  /\ UNCHANGED <<window, scored>>

(* The forward algorithm.                                                      *)
Weight(s) ==
  LET alpha[i \in 1 .. Len(s)] ==
        [q \in States |->
           model.emit[q][s[i]] *
             IF i = 1 THEN model.start[q]
             ELSE SumOver([p \in States |-> alpha[i - 1][p] * model.trans[p][q]])]
  IN  SumOver(alpha[Len(s)])

(* Mutant: the sum over the windows is taken for their mean.                   *)
MutCount(s) == 1

Count(s) == Len(SlidingWindows(s))

(* A sequence that fills no window is divided by the window all the same.      *)
Norm(s) == IF window = 0 THEN Len(s) ELSE window

(* An empty sequence scores zero: the logarithm of one.                        *)
ScoreOf(s) ==
  IF s = <<>> THEN Empty
  ELSE LET weights == [i \in DOMAIN SlidingWindows(s) |-> Weight(SlidingWindows(s)[i])]
       IN  [sequence |-> s, total |-> SumOver(weights), count |-> Count(s), norm |-> Norm(s)]

(* States the model cannot go on from: rows of zeros in the transitions.       *)
DeadEnds == {q \in States : model.trans[q] = NoRow(States)}

(* A sequence longer than a window is scored by the project's own loop; any    *)
(* other by hmmlearn, which first checks that rows add up to one and raises if *)
(* one does not, to no effect here.                                            *)
Answerable(s) == s = <<>> \/ (window # 0 /\ Len(s) > window) \/ DeadEnds = {}

Score(s) ==
  /\ pc = "idle" /\ model # NoHmm /\ Answerable(s)
  /\ scored' = ScoreOf(s)
  /\ UNCHANGED <<window, pc, windows, learned, model>>

Next == \/ \E sequences \in Trainings : Fit(sequences)
        \/ Sample \/ BaumWelch \/ Smooth
        \/ \E s \in Asked : Score(s)

Spec == Init /\ [][Next]_vars
------------------------------------------------------------------------------
(* What is scored is a probability: the weights of all single symbols add up   *)
(* to the whole, and those of all pairs as well unless the model has a dead    *)
(* end, however little of the alphabet was seen.  And normal_hmm.py:120: no    *)
(* symbol that was missing from the windows, in the training data or by the    *)
(* luck of the sample, makes a sequence impossible.  Sequences of one length   *)
(* are possible all or none, and where the score is minus infinity the model   *)
(* has a dead end.  (The sums are taken before the model scores.)              *)
Distribution ==
  /\ (model # NoHmm /\ scored = Empty) =>
       LET all(n) == SumOver([s \in [1 .. n -> Alphabet] |-> Weight(s)])
       IN  /\ all(1) = D * Unit
           /\ DeadEnds = {} => all(2) = all(1) * (D * Unit)
           /\ \A r, s \in Asked \ {<<>>} :
                Len(r) = Len(s) => (Weight(r) = 0 <=> Weight(s) = 0)
  /\ scored.total = 0 => DeadEnds # {}

(* A sequence of a window or more is scored on the scale of its windows, each  *)
(* weighed as a sequence of its own (asked on its own it may raise): not below *)
(* the worst, not above the best.  So it is an anomaly only if one of its      *)
(* windows is, and is one if they all are.                                     *)
AnomalyHasWindow ==
  (window # 0 /\ Len(scored.sequence) >= window) =>
    LET alone == {ScoreOf(w) : w \in ToSet(SlidingWindows(scored.sequence))}
    IN  /\ \A w \in alone : w.norm = scored.norm
        /\ \E w \in alone : w.total * scored.count <= scored.total * w.count
        /\ \E w \in alone : w.total * scored.count >= scored.total * w.count
==============================================================================
