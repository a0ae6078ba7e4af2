------------------------------ MODULE Features -------------------------------
(* What a flow becomes before a model sees it: symbols of the extractor's       *)
(* alphabet, and the length bucket that, with protocol, port and direction,     *)
(* chooses the model.                                                           *)
EXTENDS Integers, Sequences, FiniteSets

CONSTANTS Bytes, Lengths, Gaps, Flags, TokenWindow

ASSUME FeatureAssumption ==
  /\ Bytes \subseteq 0 .. 255
  /\ Lengths \subseteq Nat /\ Gaps \subseteq Nat
  /\ TokenWindow \in Nat \ {0}

Packet == [inbound : BOOLEAN, length : Lengths, gap : Gaps, flags : Flags]

(* NUL, white space, control, digit, upper, lower, punctuation, high.           *)
ByteClass(b) ==
  CASE b = 0                     -> 0
    [] b \in {9, 10, 13, 32}     -> 1
    [] b \in (1 .. 31) \ {9, 10, 13} \/ b = 127 -> 2
    [] b \in 48 .. 57            -> 3
    [] b \in 65 .. 90            -> 4
    [] b \in 97 .. 122           -> 5
    [] b >= 128                  -> 7
    [] OTHER                     -> 6

(* Mutant: the alphabet without NUL.                                            *)
MutNumClasses == 7

NumClasses == 8

NonEmpty(s) == IF s = <<>> THEN <<0>> ELSE s

RawBytes(bytes) == NonEmpty(bytes)

Classes(bytes) == [i \in DOMAIN bytes |-> ByteClass(bytes[i])]

ByteClasses(bytes) == NonEmpty(Classes(bytes))

(* Shorter payloads are filled up with the class of NUL.                        *)
Padded(classes) ==
  [i \in 1 .. (IF Len(classes) < TokenWindow THEN TokenWindow ELSE Len(classes)) |->
     IF i \in DOMAIN classes THEN classes[i] ELSE 0]

(* How many tokens of n classes there are.                                      *)
NumTokens(n) ==
  LET upto[k \in 0 .. n] == IF k = 0 THEN 1 ELSE upto[k - 1] * NumClasses
  IN  upto[n]

(* The number whose digits are the classes at i, ..., i + TokenWindow - 1.      *)
Token(classes, i) ==
  LET upto[k \in 0 .. TokenWindow] == IF k = 0 THEN 0
                                      ELSE upto[k - 1] * NumClasses + classes[i + k - 1]
  IN  upto[TokenWindow]

WindowTokens(bytes) ==
  LET classes == Padded(Classes(bytes))
  IN  NonEmpty([i \in 1 .. (Len(classes) - TokenWindow + 1) |-> Token(classes, i)])

------------------------------------------------------------------------------
LengthBins == <<64, 256, 512, 1024, 1460, 4096, 16384>>
GapBins    == <<1, 10, 100, 1000>>
FlagIndex  == <<"S", "SA", "A", "PA", "FA", "F", "R">>

(* How many edges lie below the value: an edge itself is in the lower bin.      *)
Bin(value, edges) == Cardinality({i \in DOMAIN edges : edges[i] < value})

(* Flags are in upper case, as the extractor makes them; unknown combinations   *)
(* share the last index.                                                        *)
FlagBin(flags) ==
  IF \E i \in DOMAIN FlagIndex : FlagIndex[i] = flags
  THEN (CHOOSE i \in DOMAIN FlagIndex : FlagIndex[i] = flags) - 1
  ELSE 7

(* Mutant: the number of edges instead of the number of bins as the radix.      *)
MutSymbol(p) ==
  (((IF p.inbound THEN 0 ELSE 1) * 8 + Bin(p.length, LengthBins)) * 4
     + Bin(p.gap, GapBins)) * 8 + FlagBin(p.flags)

(* Direction, length, gap and flags as the digits of one number.                *)
Symbol(p) ==
  (((IF p.inbound THEN 0 ELSE 1) * 8 + Bin(p.length, LengthBins)) * 5
     + Bin(p.gap, GapBins)) * 8 + FlagBin(p.flags)

FlowFeatures(packets) == NonEmpty([i \in DOMAIN packets |-> Symbol(packets[i])])

------------------------------------------------------------------------------
LengthEdges == <<64, 256, 1024, 4096, 16384>>

(* A flow with a payload is as long as that, otherwise as all its packets.      *)
TotalLength(packets) ==
  LET upto[i \in 0 .. Len(packets)] ==
        IF i = 0 THEN 0 ELSE upto[i - 1] + packets[i].length
  IN  upto[Len(packets)]

FlowLength(payload, packets) == IF payload # <<>> THEN Len(payload) ELSE TotalLength(packets)

LengthBucket(n) == Bin(n, LengthEdges)

------------------------------------------------------------------------------
(* The extractors a detector can have, and the size of their alphabets.         *)
Extractors == {"raw_byte", "byte_class", "window_token", "flow_feature"}

Alphabet(extractor) ==
  CASE extractor = "raw_byte"     -> 256
    [] extractor = "byte_class"   -> NumClasses
    [] extractor = "window_token" -> NumTokens(TokenWindow)
    [] extractor = "flow_feature" -> 2 * 8 * 5 * 8

Extract(extractor, payload, packets) ==
  CASE extractor = "raw_byte"     -> RawBytes(payload)
    [] extractor = "byte_class"   -> ByteClasses(payload)
    [] extractor = "window_token" -> WindowTokens(payload)
    [] extractor = "flow_feature" -> FlowFeatures(packets)
==============================================================================
