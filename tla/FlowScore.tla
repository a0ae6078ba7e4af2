----------------------------- MODULE FlowScore -------------------------------
(* A flow that grows byte by byte and packet by packet and is scored in between *)
(* by a windowed model on one extractor: its symbols are cut into sliding       *)
(* windows, and the forward algorithm advances all windows at once, one symbol  *)
(* per step.  Probabilities are weights, natural numbers over a common          *)
(* denominator, so that sums and products are exact; zero is a symbol or a      *)
(* transition the model excludes.  The mean over the windows and its logarithm  *)
(* are left out, and so is the scoring of a flow that fills no two windows.     *)
(* Bound: Traffic, closed under leaving out the last byte or packet.            *)
EXTENDS Features, SequencesExt

CONSTANTS Traffic, States, Start, Trans, Emit, Window

FlowScoreAssumption ==
  /\ Traffic \subseteq Seq(Bytes) \X Seq(Packet) /\ <<<<>>, <<>>>> \in Traffic
  /\ IsFiniteSet(States)
  /\ Start \in [States -> Nat]
  /\ Trans \in [States -> [States -> Nat]]
  /\ Emit \in [Extractors -> [States -> Seq(Nat)]]
  /\ \A e \in Extractors, q \in States : Len(Emit[e][q]) = Alphabet(e)
  /\ Window \in Nat \ {0}

VARIABLES
  extractor,  \* the detector's
  payload, packets,
  step,       \* how many symbols of each window are behind, -1 between two scores
  alpha       \* per window and state, the weight so far

vars == <<extractor, payload, packets, step, alpha>>

Init == /\ extractor \in Extractors
        /\ payload = <<>> /\ packets = <<>>
        /\ step = -1 /\ alpha = <<>>

AppendByte == /\ step = -1
              /\ \E b \in Bytes : /\ <<Append(payload, b), packets>> \in Traffic
                                  /\ payload' = Append(payload, b)
              /\ UNCHANGED <<extractor, packets, step, alpha>>

AppendPacket == /\ step = -1
                /\ \E p \in Packet : /\ <<payload, Append(packets, p)>> \in Traffic
                                     /\ packets' = Append(packets, p)
                /\ UNCHANGED <<extractor, payload, step, alpha>>

------------------------------------------------------------------------------
Symbols == Extract(extractor, payload, packets)

(* One window if the sequence is no longer than a window.                       *)
SlidingWindows(s) ==
  IF Len(s) <= Window THEN <<s>>
  ELSE [i \in 1 .. (Len(s) - Window + 1) |-> SubSeq(s, i, i + Window - 1)]

NWindows(s) == Len(s) - Window + 1

(* What state q weighs for the symbol window j is at after t steps; the row of  *)
(* the emission matrix is indexed from zero.                                    *)
Emitted(s, j, t, q) == Emit[extractor][q][s[j + t] + 1]

SumOver(f) == MapThenSumSet(LAMBDA x : f[x], DOMAIN f)

(* The fused path is for sequences longer than a window.                        *)
Score == /\ step = -1 /\ Len(Symbols) > Window
         /\ step' = 0
         /\ alpha' = [j \in 1 .. NWindows(Symbols) |->
                        [q \in States |-> Start[q] * Emitted(Symbols, j, 0, q)]]
         /\ UNCHANGED <<extractor, payload, packets>>

(* Mutant: the transitions are summed over where they lead, not whence.         *)
MutReached(j, q) == SumOver([p \in States |-> alpha[j][p] * Trans[q][p]])

Reached(j, q) == SumOver([p \in States |-> alpha[j][p] * Trans[p][q]])

Step == /\ step \in 0 .. (Window - 2)
        /\ step' = step + 1
        /\ alpha' = [j \in DOMAIN alpha |->
                       [q \in States |-> Reached(j, q) * Emitted(Symbols, j, step', q)]]
        /\ UNCHANGED <<extractor, payload, packets>>

Scored == /\ step = Window - 1
          /\ step' = -1 /\ alpha' = <<>>
          /\ UNCHANGED <<extractor, payload, packets>>

Next == AppendByte \/ AppendPacket \/ Score \/ Step \/ Scored

Spec == Init /\ [][Next]_vars

------------------------------------------------------------------------------
(* Types.  And features.py:45: whatever the flow, an extractor returns at least *)
(* one symbol and only symbols below the size it reports, which is how many     *)
(* columns the emission matrix has that scoring indexes with them.  The bucket  *)
(* that chooses the model is one of six, whatever the flow.                     *)
TypeOK ==
  /\ extractor \in Extractors
  /\ <<payload, packets>> \in Traffic
  /\ step \in -1 .. (Window - 1)
  /\ step # -1 => alpha \in [1 .. Len(SlidingWindows(Symbols)) -> [States -> Nat]]
  /\ Symbols # <<>>
  /\ \A i \in DOMAIN Symbols : Symbols[i] \in 0 .. (Alphabet(extractor) - 1)
  /\ LengthBucket(FlowLength(payload, packets)) \in 0 .. 5

(* Packets share a symbol only if they share all four of its parts; and from   *)
(* TokenWindow bytes on, the tokens of a flow determine its byte classes, so    *)
(* that a token model sees no less than a byte-class model.                     *)
Digit(token, k) == (token \div NumTokens(TokenWindow - k)) % NumClasses

SymbolsTellApart ==
  /\ \A i, j \in DOMAIN packets :
       Symbol(packets[i]) = Symbol(packets[j]) =>
         /\ packets[i].inbound = packets[j].inbound
         /\ Bin(packets[i].length, LengthBins) = Bin(packets[j].length, LengthBins)
         /\ Bin(packets[i].gap, GapBins) = Bin(packets[j].gap, GapBins)
         /\ FlagBin(packets[i].flags) = FlagBin(packets[j].flags)
  /\ Len(payload) >= TokenWindow =>
       LET tokens == WindowTokens(payload)
       IN  \A i \in DOMAIN payload : \E j \in DOMAIN tokens :
             i - j \in 0 .. (TokenWindow - 1)
               /\ ByteClass(payload[i]) = Digit(tokens[j], i - j + 1)

(* The weight of a sequence along one path of states.                           *)
PathWeight(path, s) ==
  LET upto[i \in 1 .. Len(s)] ==
        IF i = 1 THEN Start[path[1]] * Emit[extractor][path[1]][s[1] + 1]
        ELSE upto[i - 1] * Trans[path[i - 1]][path[i]] * Emit[extractor][path[i]][s[i] + 1]
  IN  upto[Len(s)]

(* After t steps alpha holds, for each window and state, the weight of the      *)
(* window's first t + 1 symbols over all paths that end in that state: when the *)
(* loop ends, scoring all windows at once has given each what it would get      *)
(* alone (normal_hmm.py:150, "instead of one hmmlearn.score per window").       *)
AlphaIsPathSum ==
  step # -1 =>
    \A j \in 1 .. NWindows(Symbols), q \in States :
      alpha[j][q] =
        LET begun == SubSeq(SlidingWindows(Symbols)[j], 1, step + 1)
            paths == {p \in [1 .. (step + 1) -> States] : p[step + 1] = q}
        IN  SumOver([p \in paths |-> PathWeight(p, begun)])
==============================================================================
