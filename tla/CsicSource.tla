------------------------------ MODULE CsicSource -----------------------------
(* CsicTrafficSource: the benign rows of a CSV file, split by a stride into    *)
(* rows to fit on and rows held out for calibration.  A row is a record        *)
(*   benign  whether its label says normal,                                    *)
(*   key     the partition its flow falls in.                                  *)
(* A validation ratio is a fraction <<num, den>> in [0, 1).                    *)
EXTENDS Naturals, Sequences, FiniteSets

(* round() of num / den: to the nearest, a tie to the even neighbour.          *)
Rounded(num, den) ==
  LET floor == num \div den
      twice == 2 * (num % den)
  IN  IF twice < den \/ (twice = den /\ floor % 2 = 0) THEN floor ELSE floor + 1

(* Every stride-th benign row is held out; a ratio of 0 holds out none.        *)
Stride(ratio) == IF ratio[1] = 0 THEN 0 ELSE Rounded(ratio[2], ratio[1])

IsValidation(stride, benignIndex) ==
  stride # 0 /\ benignIndex % stride = stride - 1

(* The rows before this one that are benign, counted: limit or not, the same.  *)
BenignIndex(file, row) == Cardinality({j \in 1 .. (row - 1) : file[j].benign})

(* limit counts rows of the file, benign or not.                               *)
BenignRows(file, limit) == {j \in DOMAIN file : j <= limit /\ file[j].benign}

NormalRows(file, limit, stride) ==
  {j \in BenignRows(file, limit) : ~IsValidation(stride, BenignIndex(file, j))}

(* Mutant: the second pass over the file counts from one instead of zero.      *)
MutValidationRows(file, limit, stride) ==
  {j \in BenignRows(file, limit) : IsValidation(stride, BenignIndex(file, j) + 1)}

ValidationRows(file, limit, stride) ==
  {j \in BenignRows(file, limit) : IsValidation(stride, BenignIndex(file, j))}
==============================================================================
