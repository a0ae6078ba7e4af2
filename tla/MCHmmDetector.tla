---------------------------- MODULE MCHmmDetector ----------------------------
(* Small instances of the parts of an HMM detector.                            *)
EXTENDS HmmDetector

CONSTANTS k1, k2, k3, q1, q2, m1, m2

------------------------------------------------------------------------------
(* Up to four normal flows in three partitions, with validation scores for     *)
(* all, some or none of them; and a single partition with every sorted sample  *)
(* of up to four scores out of four, ties included.  Targets go from one in a  *)
(* hundred to nine in ten.                                                     *)
MCKeys    == {k1, k2, k3}
MCNormal  == UNION {[1 .. n -> MCKeys] : n \in {0, 2}} \cup {s \in [1 .. 4 -> MCKeys] : s[1] # k3}
MCSamples == {s \in UNION {[1 .. n -> 0 .. 3] : n \in 0 .. 4} : Sorted(s)}
MCTargets == {<<1, 100>>, <<1, 4>>, <<1, 3>>, <<1, 2>>, <<9, 10>>}

Scores(s1, s2, s3) == [k \in MCKeys |-> IF k = k1 THEN s1 ELSE IF k = k2 THEN s2 ELSE s3]

MCBatches ==
  [normal : MCNormal,
   validation : {Scores(<<>>, <<>>, <<>>), Scores(<<1>>, <<>>, <<>>),
                 Scores(<<0, 3>>, <<1, 1, 2>>, <<>>), Scores(<<0, 0, 3>>, <<2>>, <<1, 3, 3>>)}]
  \cup {[normal |-> <<k1, k1>>, validation |-> Scores(s, <<>>, <<>>)] : s \in MCSamples}

------------------------------------------------------------------------------
(* One byte of every class, longer payloads of three of them; packets on both  *)
(* sides of a length and a gap edge, with a known and an unknown flag          *)
(* combination.  The model has two states; from the second the first cannot be *)
(* reached, and the first never emits one symbol in three.                     *)
MCBytes   == {0, 32, 31, 48, 90, 97, 126, 255}
MCLengths == {64, 65}
MCGaps    == {0, 1001}
MCFlags   == {"S", "SEW"}

UpTo(n, S) == UNION {[1 .. i -> S] : i \in 0 .. n}

MCTraffic == (UpTo(3, MCBytes) \cup UpTo(4, {0, 32, 97}) \cup UpTo(5, {32, 97})) \X {<<>>}
           \cup UpTo(1, MCBytes) \X UpTo(2, Packet)
           \cup {<<>>} \X UpTo(4, {p \in Packet : ~p.inbound /\ p.flags = "S"})

MCEmit == [e \in Extractors |->
             [q \in {1, 2} |-> [s \in 1 .. Alphabet(e) |->
                IF q = 1 THEN <<3, 2, 0>>[(s % 3) + 1] ELSE <<1, 0, 4>>[(s % 3) + 1]]]]

MCStates == {1, 2}
MCStart  == <<2, 1>>
MCTrans  == <<<<1, 3>>, <<0, 4>>>>

------------------------------------------------------------------------------
(* Two hidden states, three symbols of which training or sampling may miss     *)
(* some, sequences shorter than, as long as and longer than a window.          *)
MCTrainings == {<< <<>>, <<0, 0, 1>> >>, << <<0, 1, 2>>, <<1>> >>, << <<2>> >>}
MCAsked     == UpTo(2, 0 .. 2) \cup {<<0, 1, 2>>, <<1, 2, 0>>, <<2, 2, 1>>, <<0, 0, 2>>}

MCHiddenStates == {q1, q2}

------------------------------------------------------------------------------
(* Two members, three scores, every validation batch of up to two flows, those *)
(* of three up to their order, and every flow asked.                           *)
MCMembers     == {m1, m2}
MCQuestions   == [MCMembers -> -2 .. 0]
MCValidations == (UpTo(2, MCQuestions) \ {<<>>})
                 \cup {v \in [1 .. 3 -> MCQuestions] :
                         Sorted([i \in 1 .. 3 |-> 3 * v[i][m1] + v[i][m2]])}

MCCombinations == {"mean", "min", "max"}
MCGoals        == {<<1, 100>>, <<1, 3>>, <<9, 10>>}
==============================================================================
