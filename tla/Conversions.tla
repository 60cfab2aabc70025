---------------------------- MODULE Conversions ----------------------------
(***************************************************************************)
(* Text on its way through an ACEvent: from a string or a UTF-16 name into *)
(* the fixed buffers (StringZInto of the agent's structs.go; wcsncpy_s in  *)
(* the driver's NotifyRoutine.c) and back to a string (ToJSON and its      *)
(* helpers in the agent's and in the backend's Event.go).                  *)
(*                                                                         *)
(* A string is a sequence of code points, a wide buffer holds 16-bit units *)
(* and ImageFileName holds ints of 32 bits.  The numeric fields of an      *)
(* event are copied as they are and left out.                              *)
(***************************************************************************)
EXTENDS Integers, FiniteSets, SequencesExt

CONSTANTS
  Char,     \* code points that texts are made of
  MaxText,  \* bound: length of a text
  NameLen,  \* length of ImageFileName (260)
  LineLen   \* length of CommandLine (1024); EventType (260) is treated alike

ASSUME ConvAssumption ==
  /\ \A c \in Char : c \in Nat /\ 0 < c /\ c < 1114112 /\ (c < 55296 \/ 57343 < c)
  /\ MaxText \in Nat /\ NameLen \in Nat \ {0} /\ LineLen \in Nat \ {0}

VARIABLES
  text, \* what is to be reported
  ev    \* the event it was put into: a record, or NoEvent

vars == <<text, ev>>
NoEvent == [src |-> "none", name |-> <<>>, line |-> <<>>]

Replacement == 65533 \* U+FFFD
MaxUnit     == 65535 \* the largest value of 16 bits

-----------------------------------------------------------------------------
(* UTF-16: utf16.Encode and the decoders of Go *)

\* A code point that takes one unit; the others take a pair.
Single(c) == c < 65536

Units(c) ==
  IF Single(c) THEN <<c>>
  ELSE <<55296 + (c - 65536) \div 1024, 56320 + ((c - 65536) % 1024)>>

\* Mutant: code points are cut to 16 bits instead of being encoded.
Encode_Cast(s) == [i \in DOMAIN s |-> s[i] % 65536]

Encode(s) == FlattenSeq([i \in DOMAIN s |-> Units(s[i])])

IsHigh(u) == 55296 <= u /\ u < 56320
IsLow(u)  == 56320 <= u /\ u < 57344

\* A pair begins at i, and the code point it stands for.
PairAt(u, i) == i < Len(u) /\ IsHigh(u[i]) /\ IsLow(u[i + 1])
Join(h, l)   == 65536 + (h - 55296) * 1024 + (l - 56320)

\* Half a pair whose other half is not beside it.
HalfAt(u, i) == \/ IsHigh(u[i]) /\ ~PairAt(u, i)
                \/ IsLow(u[i]) /\ ~(i > 1 /\ PairAt(u, i - 1))

\* Decoding that writes `half' for such a half.
Alone(x, half) == IF IsHigh(x) \/ IsLow(x) THEN half ELSE <<x>>

DecodeWith(u, half) ==
  LET from[i \in 1..(Len(u) + 2)] ==
        IF i > Len(u) THEN <<>>
        ELSE IF PairAt(u, i) THEN <<Join(u[i], u[i + 1])>> \o from[i + 2]
        ELSE Alone(u[i], half) \o from[i + 1]
  IN from[1]

\* utf16.Decode
Decode(u) == DecodeWith(u, <<Replacement>>)

\* Everything before the first 0.
BeforeNul(b) ==
  LET zeros == {i \in DOMAIN b : b[i] = 0}
  IN IF zeros = {} THEN b ELSE SubSeq(b, 1, Min(zeros) - 1)

-----------------------------------------------------------------------------
(* Into the buffers *)

\* Mutant: no room is kept for the terminating 0.
Room_All(n) == n

Room(n) == n - 1

\* A buffer of length n that holds as much of s as leaves room for a 0.
Fill(s, n) == [i \in 1..n |-> IF i <= Len(s) /\ i <= Room(n) THEN s[i] ELSE 0]

\* StringZInto for int32 keeps code points, for uint16 it encodes.
StringZI32(s) == Fill(s, NameLen)
StringZU16(s) == Fill(Encode(s), LineLen)

\* An int32 made of two adjacent 16-bit units, as x86 stores them.
Pair(lo, hi) == lo + 65536 * (IF hi < 32768 THEN hi ELSE hi - 65536)

\* wcsncpy_s(event.ImageFileName, 260, ..., _TRUNCATE): ImageFileName has 260 ints
\* and is filled with up to 260 units of 16 bits, two to an int.
WcsIntoInts(s) ==
  LET units == Fill(Encode(s), NameLen) \o [i \in 1..NameLen |-> 0]
  IN [i \in 1..NameLen |-> Pair(units[2 * i - 1], units[2 * i])]

-----------------------------------------------------------------------------
(* Back to strings *)

\* Mutant: uint8(v).
Low16_Byte(v) == v % 256

Low16(v) == v % 65536 \* uint16(v)

\* The loop of int32ToString: up to the first int that is 0.
NarrowInts(b) == [i \in DOMAIN BeforeNul(b) |-> Low16(b[i])]

\* What JSON shows of a half that syscall.UTF16ToString has met: the function writes
\* it as its three bytes, which are not UTF-8, and json.Marshal replaces each.
HalfInJSON == <<Replacement, Replacement, Replacement>>

\* The agent's text: syscall.UTF16ToString stops at a 0 unit, utf16BufToString of
\* the backend does not.
UTF16ToString(u)    == DecodeWith(BeforeNul(u), HalfInJSON)
utf16BufToString(u) == Decode(u)

\* Mutant: the whole buffer is decoded.
BackendWide_NoCut(b) == utf16BufToString(b)

\* utf16ToString in the agent and in the backend.
AgentWide(b)   == UTF16ToString(BeforeNul(b))
BackendWide(b) == utf16BufToString(BeforeNul(b))

\* The text fields of ToJSON in the agent and in the backend.
AgentJSON(e)   == [name |-> UTF16ToString(NarrowInts(e.name)), line |-> AgentWide(e.line)]
BackendJSON(e) == [name |-> utf16BufToString(NarrowInts(e.name)), line |-> BackendWide(e.line)]

-----------------------------------------------------------------------------
Init == text = <<>> /\ ev = NoEvent

\* A longer text.
Extend(c) ==
  /\ ev = NoEvent /\ Len(text) < MaxText
  /\ text' = Append(text, c)
  /\ UNCHANGED ev

\* The agent reports it: the path of a module in executeDLLScan.  The scan gives its
\* wide fields two fixed texts; here they take any text, which covers both.
ReportAgent ==
  /\ ev = NoEvent
  /\ ev' = [src |-> "UM", name |-> StringZI32(text), line |-> StringZU16(text)]
  /\ UNCHANGED text

\* The driver reports it: the image name and the command line of a process.
ReportKernel ==
  /\ ev = NoEvent
  /\ ev' = [src |-> "KM", name |-> WcsIntoInts(text), line |-> Fill(Encode(text), LineLen)]
  /\ UNCHANGED text

\* The backend's consumer has printed the event; another one begins.
Printed ==
  /\ ev # NoEvent
  /\ ev' = NoEvent /\ text' = <<>>

Next == (\E c \in Char : Extend(c)) \/ ReportAgent \/ ReportKernel \/ Printed

Spec == Init /\ [][Next]_vars
-----------------------------------------------------------------------------
(* Properties *)

\* Every buffer has its full length, holds values of its width and ends with a 0.
BuffersTerminated ==
  ev # NoEvent =>
    /\ ev.name \in [1..NameLen -> Int] /\ ev.name[NameLen] = 0
    /\ ev.line \in [1..LineLen -> 0..MaxUnit] /\ ev.line[LineLen] = 0

UnitLen(s) == Len(s) + Cardinality({i \in DOMAIN s : ~Single(s[i])})

\* Reference: the longest prefix of whole characters whose units fit beside a 0.
Fitting(s) == CHOOSE p \in {SubSeq(s, 1, k) : k \in 0..Len(s)} :
                /\ UnitLen(p) < LineLen
                /\ Len(p) < Len(s) => UnitLen(SubSeq(s, 1, Len(p) + 1)) >= LineLen

\* What the backend prints of a wide buffer is the text, cut to the characters that
\* fit; the one character more that is possible is the U+FFFD that is left of a
\* pair cut in half.
WideSurvives ==
  ev # NoEvent =>
    LET p == Fitting(text) IN
    BackendJSON(ev).line =
      IF Len(p) < Len(text) /\ UnitLen(p) < LineLen - 1 THEN Append(p, Replacement) ELSE p

\* What the backend prints of a module path is the path, as long as it has only
\* characters of 16 bits, cut to the length of the buffer.
PathSurvives ==
  ev.src = "UM" /\ (\A i \in DOMAIN text : Single(text[i])) =>
    BackendJSON(ev).name = SubSeq(text, 1, Min({Len(text), NameLen - 1}))

Whole(u) == \A i \in DOMAIN u : ~HalfAt(u, i)

\* Exactly when the agent's and the backend's JSON of one event agree.  The wide field:
\* unless a pair was cut in half, which the agent shows as three U+FFFD and the backend
\* as one.  The name: likewise, provided that no int of it that is not 0 has a lower
\* half of 0; at such a one the agent stops and the backend goes on.
SidesAgree ==
  /\ AgentJSON(ev).line = BackendJSON(ev).line <=> Whole(BeforeNul(ev.line))
  /\ (\A i \in DOMAIN ev.name : ev.name[i] # 0 => Low16(ev.name[i]) # 0) =>
       (AgentJSON(ev).name = BackendJSON(ev).name <=> Whole(NarrowInts(ev.name)))

\* Stated at Event.go:41 ("convert int32 buffer (assuming wide chars stored as int32)"):
\* the name a process event carries can be read back.
KernelNameReadable ==
  ev.src = "KM" => BackendJSON(ev).name = SubSeq(text, 1, Min({Len(text), NameLen - 1}))
=============================================================================
