--------------------------- MODULE MCTrainPipeline ---------------------------
(* Small instances of TrainPipeline: five rows, one of them an attack, in a    *)
(* partition with enough flows to be fitted and one with too few.              *)
EXTENDS TrainPipeline, TLC

CONSTANTS t1, t2, k1, k2

Benign(k) == [benign |-> TRUE, key |-> k]

MCFile == <<Benign(k1), Benign(k1), [benign |-> FALSE, key |-> k1],
            Benign(k1), Benign(k2)>>

OneTrainer  == {t1}
TwoTrainers == {t1, t2}

Half == {<<1, 2>>}

Whole      == {5}
CutOrWhole == {4, 5}

Symmetry == Permutations(Trainers)
==============================================================================
