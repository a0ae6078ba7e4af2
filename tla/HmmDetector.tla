----------------------------- MODULE HmmDetector ------------------------------
(* An HMM detector's parts side by side, each with constants of its own: the   *)
(* training of the partitions (HmmTraining), the symbols of a flow and the     *)
(* scoring of all its windows at once (FlowScore), one fitted model            *)
(* (OneClassScore) and the fusion of several (EnsembleScore).  Training knows  *)
(* a model by its threshold and a flow by its score; the other parts show how  *)
(* they come about.  A behaviour exercises one part; the others keep still.    *)
EXTENDS HmmTraining, Features

CONSTANTS
  Traffic, States, Start, Trans, Emit, Window,                         \* FlowScore
  HiddenStates, NSymbols, Share, Smoothing, Windows, MaxFitWindows,    \* OneClassScore
  Trainings, Asked,
  Members, Combinations, Goals, Validations, Questions, NotCalibrated  \* EnsembleScore

VARIABLES part,
          extractor, payload, packets, step, alpha,               \* FlowScore
          window, fitting, windows, learned, model, scored,       \* OneClassScore
          combination, goal, validation, threshold, asked         \* EnsembleScore

flowVars     == <<extractor, payload, packets, step, alpha>>
oneClassVars == <<window, fitting, windows, learned, model, scored>>
ensembleVars == <<combination, goal, validation, threshold, asked>>

Flow == INSTANCE FlowScore

OneClass == INSTANCE OneClassScore WITH
              pc <- fitting, States <- HiddenStates, D <- Share, K <- Smoothing

Ensembles == INSTANCE EnsembleScore WITH target <- goal, Targets <- Goals

ASSUME PartAssumptions ==
  Flow!FlowScoreAssumption /\ OneClass!ScoreAssumption /\ Ensembles!EnsembleAssumption

------------------------------------------------------------------------------
(* What a part that keeps still is built with; any would do.                   *)
Unused(S) == CHOOSE x \in S : TRUE

DetectorInit ==
  /\ part \in {"training", "flow", "one_class", "ensemble"}
  /\ Init /\ (part # "training" => target = Unused(Targets))
  /\ Flow!Init /\ (part # "flow" => extractor = Unused(Extractors))
  /\ OneClass!Init /\ (part # "one_class" => window = Unused(Windows))
  /\ Ensembles!Init
  /\ part # "ensemble" => combination = Unused(Combinations) /\ goal = Unused(Goals)

Training == part = "training" /\ Next /\ UNCHANGED <<flowVars, oneClassVars, ensembleVars>>
Scoring  == part = "flow" /\ Flow!Next /\ UNCHANGED <<vars, oneClassVars, ensembleVars>>
Fit      == part = "one_class" /\ OneClass!Next /\ UNCHANGED <<vars, flowVars, ensembleVars>>
Fuse     == part = "ensemble" /\ Ensembles!Next /\ UNCHANGED <<vars, flowVars, oneClassVars>>

DetectorNext == (Training \/ Scoring \/ Fit \/ Fuse) /\ UNCHANGED part

DetectorSpec ==
  DetectorInit /\ [][DetectorNext]_<<part, vars, flowVars, oneClassVars, ensembleVars>>

------------------------------------------------------------------------------
(* features.py:45: symbols are below the size their extractor reports, and a   *)
(* flow is never without one (FlowScore.TypeOK).                               *)
SymbolsInAlphabet == part = "flow" => Flow!TypeOK

(* Symbols keep apart what their parts keep apart.                             *)
SymbolsTellApart == part = "flow" => Flow!SymbolsTellApart

(* Scoring all windows at once gives each its own weight.                      *)
AlphaIsPathSum == part = "flow" => Flow!AlphaIsPathSum

(* A smoothed model weighs all sequences, to the whole unless it has a dead    *)
(* end, and excludes no symbol.                                                *)
Distribution == part = "one_class" => OneClass!Distribution

(* A sequence is an anomaly only if one of its windows is.                     *)
AnomalyHasWindow == part = "one_class" => OneClass!AnomalyHasWindow

(* An ensemble's verdict follows from its members'.                            *)
EnsembleFollowsMembers == part = "ensemble" => Ensembles!FollowsMembers
==============================================================================
