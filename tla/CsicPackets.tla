----------------------------- MODULE CsicPackets -----------------------------
(* What a line of a CSV file means: its columns are found by name in the       *)
(* header line, and its cells become one HTTP request packet.  Column names    *)
(* are what normalisation leaves of them.  A cell is a record                  *)
(*   name   the header field its text begins with ("Connection: close"), or "" *)
(*   value  the rest: "" if there is none, " " if it is nothing but blanks.    *)
(* The request line, whose path and version come from one cell, is its method  *)
(* and that cell; a packet's bytes are its parts.                              *)
EXTENDS SequencesExt

HeaderOrder == <<"host", "user_agent", "pragma", "cache_control", "accept",
                 "accept_encoding", "accept_charset", "accept_language", "cookie",
                 "content_type", "connection", "content_length">>

(* Fields that go by other names than their own without its separators.        *)
Aliases ==
  [user_agent |-> {"useragent"}, cache_control |-> {"cachecontrol"},
   accept_encoding |-> {"acceptencoding"}, accept_charset |-> {"acceptcharset"},
   accept_language |-> {"language", "acceptlanguage"}, content_type |-> {"contenttype"},
   content_length |-> {"lenght", "length", "contentlength"},
   body |-> {"content", "body", "payload"}, label |-> {"classification", "class", "label"}]

Fields == ToSet(HeaderOrder) \cup {"method", "url", "body", "label"}

Names(field) == IF field \in DOMAIN Aliases THEN Aliases[field] ELSE {field}

(* Mutant: columns are found by where they usually stand.                      *)
MutColumns(head, field) == {i \in DOMAIN head : HeaderOrder[i] \in Names(field)}

Columns(head, field) == {i \in DOMAIN head : head[i] \in Names(field)}

CellText == [name : STRING, value : STRING]

Blank == [name |-> "", value |-> ""]

(* Of several columns for one field the first one counts.                      *)
Column(head, field) ==
  CHOOSE i \in Columns(head, field) : \A j \in Columns(head, field) : i <= j

(* The cell of a field: blank if no column has it or the row ends before it.   *)
Cell(head, row, field) ==
  IF Columns(head, field) = {} \/ Column(head, field) > Len(row) THEN Blank
  ELSE row[Column(head, field)]

Trimmed(cell) == IF cell.value = " " THEN [cell EXCEPT !.value = ""] ELSE cell

(* Only the name of the header itself is stripped, never another word before a *)
(* colon, as in localhost:8080.                                                *)
Stripped(cell, field) == IF cell.name = field THEN [cell EXCEPT !.name = ""] ELSE cell

Computed == [name |-> "", value |-> "computed"]

(* Without a stated length, that of the body if there is one.                  *)
ContentLength(head, row) ==
  LET stated == Trimmed(Stripped(Cell(head, row, "content_length"), "content_length"))
  IN  IF stated = Blank /\ Cell(head, row, "body") # Blank THEN Computed ELSE stated

HeaderValue(head, row, field) ==
  IF field = "content_length" THEN ContentLength(head, row)
  ELSE Trimmed(Stripped(Cell(head, row, field), field))

(* An empty cell stands for GET; one of blanks only leaves the method empty.   *)
Method(head, row) ==
  IF Cell(head, row, "method") = Blank THEN [name |-> "", value |-> "GET"]
  ELSE Trimmed(Cell(head, row, "method"))

(* The headers stand in the order of HeaderOrder; the blank ones are left out.  *)
Reconstruct(head, row) ==
  [label   |-> Trimmed(Cell(head, row, "label")),
   method  |-> Method(head, row),
   url     |-> Cell(head, row, "url"),
   headers |-> [f \in ToSet(HeaderOrder) |-> HeaderValue(head, row, f)],
   body    |-> Cell(head, row, "body")]

NormalLabels    == {"normal", "0"}
AnomalousLabels == {"anomalous", "anomaly", "1"}

(* What a packet counts as; labels are in lower case, as the comparison is.    *)
Class(packet) == CASE packet.label.value \in NormalLabels    -> "normal"
                   [] packet.label.value \in AnomalousLabels -> "anomalous"
                   [] OTHER                                  -> "other"

------------------------------------------------------------------------------
(* What makes two files the same up to the order of their columns.             *)
Unambiguous(head) == \A f \in Fields : Cardinality(Columns(head, f)) <= 1

Padded(row, n) == [i \in 1 .. n |-> IF i \in DOMAIN row THEN row[i] ELSE Blank]

Orders(n) == {p \in [1 .. n -> 1 .. n] : IsInjective(p)}
==============================================================================
