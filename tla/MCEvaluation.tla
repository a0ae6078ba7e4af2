---------------------------- MODULE MCEvaluation -----------------------------
(* Every file of up to FileLength rows over five kinds: both classes on either  *)
(* side of the threshold, an attack no model covers, and an unlabelled row.     *)
(* And files of one row of which each cell may be short, empty, blank or begin  *)
(* with a name, under a header line whose columns are all different and one     *)
(* where two of them claim the body.                                            *)
EXTENDS Evaluation

CONSTANTS k1, k2, FileLength

MCKeys   == {k1, k2}
MCModels == {[k \in MCKeys |-> IF k = k1 THEN 1 ELSE NoModel]}

Text(n, v) == [name |-> n, value |-> v]

Labelled  == <<"class", "host", "content">>
Unlabelled == {<<"lenght", "content", "host">>, <<"host", "payload", "content">>}

Kinds == {<<Text("", "normal"),    Text("", "a"), Text("", "good")>>,
          <<Text("", "0"),         Text("host", "a"), Text("", "evil")>>,
          <<Text("", "anomalous"), Text("", "a"), Text("", "evil")>>,
          <<Text("", "1"),         Text("", "b"), Text("", "evil")>>,
          <<Text("", "?"),         Text("", "a"), Text("", "good")>>}

Cells == {Blank, Text("", " "), Text("", "b"), Text("host", "b"),
          Text("content_length", ""), Text("content_length", "68")}
Odd   == UNION {[1 .. n -> Cells] : n \in 0 .. 3}

MCFiles == [header : {Labelled}, rows : UNION {[1 .. n -> Kinds] : n \in 1 .. FileLength}]
           \cup [header : Unlabelled, rows : {<<line>> : line \in Odd}]

(* Flows for the host b fall into the partition without a model.                *)
MCKeyOf(packet) == IF packet.headers["host"] = Text("", "b") THEN k2 ELSE k1

MCScoreOf(packet) == IF packet.body = Text("", "evil") THEN 0 ELSE 1
==============================================================================
