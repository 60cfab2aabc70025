-------------------------- MODULE ConversionsProofs --------------------------
(***************************************************************************)
(* Proofs about the conversions of text, for every set of characters and   *)
(* all lengths of texts and buffers.                                       *)
(*                                                                         *)
(* Encode and Decode are recursive functions.  What they compute is proved *)
(* by looking at the least counterexample, which exists because the        *)
(* naturals are well ordered.                                              *)
(***************************************************************************)
EXTENDS Conversions, SequenceTheorems, FiniteSetTheorems, WellFoundedInduction, TLAPS

LEMMA Wellfounded == IsWellFoundedOn({p \in Nat \X Nat : p[1] < p[2]}, Nat)
BY NatLessThanWellFounded DEF OpToRel

\* A set of naturals that is not empty has a least element.
LEMMA Least ==
  ASSUME NEW T, T \subseteq Nat, T # {} PROVE \E x \in T : \A y \in T : x <= y
<1> DEFINE R == {p \in Nat \X Nat : p[1] < p[2]}
<1>1. IsWellFoundedOn(R, Nat)
  BY Wellfounded
<1>2. \A x, y \in Nat : y < x => <<y, x>> \in R
  OBVIOUS
<1> HIDE DEF R
<1>3. PICK x \in T : \A y \in T : ~(<<y, x>> \in R)
  BY <1>1, WFMin
<1>4. \A y \in T : x \in Nat /\ y \in Nat /\ ~(y < x)
  BY <1>2, <1>3
<1>5. \A y \in T : x <= y
  BY <1>4
<1> QED  BY <1>5

\* Induction, for a set of naturals.
LEMMA Induction ==
  ASSUME NEW S, 0 \in S, \A n \in Nat : n \in S => n + 1 \in S PROVE \A n \in Nat : n \in S
<1> SUFFICES ASSUME {n \in Nat : n \notin S} # {} PROVE FALSE
  OBVIOUS
<1>1. PICK x \in {n \in Nat : n \notin S} : \A y \in {n \in Nat : n \notin S} : x <= y
  BY Least
<1>2. x \in Nat /\ x # 0 /\ x \notin S
  BY <1>1
<1>3. x - 1 \in Nat /\ (x - 1) + 1 = x /\ ~(x <= x - 1)
  BY <1>2
<1>4. x - 1 \in S
  BY <1>1, <1>3
<1> QED  BY <1>2, <1>3, <1>4

LEMMA MinIs ==
  ASSUME NEW T, T \subseteq Nat, T # {} PROVE Min(T) \in T /\ \A y \in T : Min(T) <= y
<1>1. \E x \in T : \A y \in T : x <= y
  BY Least
<1> QED  BY <1>1 DEF Min

-----------------------------------------------------------------------------
(* BeforeNul *)

\* What BeforeNul leaves is a prefix without a 0, and the whole or ended by one.
LEMMA BeforeNulIs ==
  ASSUME NEW S, NEW b \in Seq(S)
  PROVE  /\ BeforeNul(b) \in Seq(S) /\ Len(BeforeNul(b)) <= Len(b)
         /\ \A i \in 1..Len(BeforeNul(b)) : BeforeNul(b)[i] = b[i] /\ b[i] # 0
         /\ Len(BeforeNul(b)) < Len(b) => b[Len(BeforeNul(b)) + 1] = 0
<1> DEFINE zeros == {i \in DOMAIN b : b[i] = 0}
<1>1. DOMAIN b = 1..Len(b) /\ Len(b) \in Nat
  OBVIOUS
<1>2. CASE zeros = {}
  <2>1. BeforeNul(b) = b
    BY <1>2 DEF BeforeNul
  <2> QED  BY <1>1, <1>2, <2>1
<1>3. CASE zeros # {}
  <2>1. zeros \subseteq Nat
    BY <1>1
  <2>2. PICK m : m = Min(zeros)
    OBVIOUS
  <2>3. m \in zeros /\ \A y \in zeros : m <= y
    <3> HIDE DEF zeros
    <3> QED  BY <1>3, <2>1, <2>2, MinIs
  <2>4. BeforeNul(b) = SubSeq(b, 1, m - 1)
    BY <1>3, <2>2 DEF BeforeNul
  <2>5. m \in 1..Len(b) /\ b[m] = 0 /\ \A i \in 1..(m - 1) : i \in 1..Len(b) /\ b[i] # 0
    BY <1>1, <2>3
  <2>6. \A i \in 1..(m - 1) : b[i] \in S
    BY <2>5
  <2>7. /\ SubSeq(b, 1, m - 1) \in Seq(S) /\ Len(SubSeq(b, 1, m - 1)) = m - 1
        /\ \A i \in 1..(m - 1) : SubSeq(b, 1, m - 1)[i] = b[i]
    <3>1. 1 \in Int /\ m - 1 \in Int
      BY <2>5
    <3>2. /\ SubSeq(b, 1, m - 1) \in Seq(S)
          /\ Len(SubSeq(b, 1, m - 1)) = IF 1 <= m - 1 THEN (m - 1) - 1 + 1 ELSE 0
          /\ \A i \in 1..((m - 1) - 1 + 1) : SubSeq(b, 1, m - 1)[i] = b[1 + i - 1]
      BY <2>6, <3>1, SubSeqProperties
    <3> QED  BY <2>5, <3>2
  <2> QED  BY <1>1, <2>4, <2>5, <2>7
<1> QED  BY <1>2, <1>3

-----------------------------------------------------------------------------
(* Encode *)

\* FlattenSeq's function: the concatenation of the first i sequences.
Joined(ss, f, n) == f = [i \in 1..n |-> IF i = 1 THEN ss[i] ELSE f[i - 1] \o ss[i]]

LEMMA JoinExists ==
  ASSUME NEW ss PROVE \A n \in Nat : \E f : Joined(ss, f, n)
<1> DEFINE S == {n \in Nat : \E f : Joined(ss, f, n)}
<1>1. 0 \in S
  <2>1. Joined(ss, [i \in 1..0 |-> 0], 0)
    BY DEF Joined
  <2> QED  BY <2>1
<1>2. ASSUME NEW n \in Nat, n \in S PROVE n + 1 \in S
  <2>1. PICK f : Joined(ss, f, n)
    BY <1>2
  <2> DEFINE g == [i \in 1..(n + 1) |-> IF i <= n THEN f[i] ELSE IF i = 1 THEN ss[i] ELSE f[i - 1] \o ss[i]]
  <2>2. \A i \in 1..n : f[i] = IF i = 1 THEN ss[i] ELSE f[i - 1] \o ss[i]
    BY <2>1 DEF Joined
  <2>3. \A i \in 1..n : g[i] = f[i]
    OBVIOUS
  <2>4. \A i \in 1..(n + 1) : g[i] = IF i = 1 THEN ss[i] ELSE g[i - 1] \o ss[i]
    <3>1. ASSUME NEW i \in 1..n PROVE g[i] = IF i = 1 THEN ss[i] ELSE g[i - 1] \o ss[i]
      <4>1. i # 1 => i - 1 \in 1..n
        OBVIOUS
      <4> HIDE DEF g
      <4> QED  BY <2>2, <2>3, <4>1
    <3>2. g[n + 1] = IF n + 1 = 1 THEN ss[n + 1] ELSE g[n] \o ss[n + 1]
      <4>1. g[n + 1] = IF n + 1 = 1 THEN ss[n + 1] ELSE f[n] \o ss[n + 1]
        OBVIOUS
      <4>2. n + 1 # 1 => n \in 1..n
        OBVIOUS
      <4> HIDE DEF g
      <4> QED  BY <2>3, <4>1, <4>2
    <3>3. \A i \in 1..(n + 1) : i \in 1..n \/ (i = n + 1 /\ i - 1 = n)
      OBVIOUS
    <3> HIDE DEF g
    <3> QED  BY <3>1, <3>2, <3>3
  <2>5. g = [i \in 1..(n + 1) |-> g[i]]
    OBVIOUS
  <2>6. Joined(ss, g, n + 1)
    <3> HIDE DEF g
    <3> QED  BY <2>4, <2>5 DEF Joined
  <2> HIDE DEF g
  <2> QED  BY <2>6
<1>3. \A n \in Nat : n \in S
  <2> HIDE DEF S
  <2> QED  BY <1>1, <1>2, Induction
<1> QED  BY <1>3

LEMMA FlattenIs ==
  ASSUME NEW ss, NEW T, ss \in Seq(T), Len(ss) # 0
  PROVE  \E f : Joined(ss, f, Len(ss)) /\ FlattenSeq(ss) = f[Len(ss)]
<1>1. \E f : Joined(ss, f, Len(ss))
  BY JoinExists
<1>2. FlattenSeq(ss) = (CHOOSE f : Joined(ss, f, Len(ss)))[Len(ss)]
  BY DEF FlattenSeq, Joined
<1> QED  BY <1>1, <1>2

\* Units other than 0.
Unit == 1..MaxUnit

LEMMA UnitIs == \A u : u \in Unit <=> u \in Nat /\ u # 0 /\ u <= MaxUnit
<1>1. MaxUnit \in Nat
  BY SMT DEF MaxUnit
<1> QED  BY <1>1 DEF Unit

\* The units of a character: one that is no half of a pair, or a pair.
LEMMA UnitsAre ==
  ASSUME NEW c \in Char
  PROVE  /\ c \in Nat /\ c # 0
         /\ Single(c) => Units(c) = <<c>> /\ c \in Unit /\ ~IsHigh(c) /\ ~IsLow(c)
         /\ ~Single(c) => \E h, l \in Unit :
                            Units(c) = <<h, l>> /\ IsHigh(h) /\ IsLow(l) /\ Join(h, l) = c
<1>1. c \in Nat /\ 0 < c /\ c < 1114112 /\ (c < 55296 \/ 57343 < c)
  BY ConvAssumption, SMT
<1>2. ASSUME Single(c) PROVE Units(c) = <<c>> /\ c \in Unit /\ ~IsHigh(c) /\ ~IsLow(c)
  <2>1. Units(c) = <<c>>
    BY <1>2, SMT DEF Units, Single
  <2>2. c \in Unit
    BY <1>1, <1>2, UnitIs, SMT DEF Single, MaxUnit
  <2>3. ~IsHigh(c) /\ ~IsLow(c)
    BY <1>1, SMT DEF IsHigh, IsLow
  <2> QED  BY <2>1, <2>2, <2>3
<1>3. ASSUME ~Single(c)
      PROVE  \E h, l \in Unit : Units(c) = <<h, l>> /\ IsHigh(h) /\ IsLow(l) /\ Join(h, l) = c
  <2>1. PICK d \in Nat : d = c - 65536 /\ d < 1048576
    BY <1>1, <1>3, SMT DEF Single
  <2>2. PICK q, r \in Nat : /\ q = d \div 1024 /\ r = d % 1024 /\ d = q * 1024 + r
                            /\ q < 1024 /\ r < 1024
    BY <2>1, SMT
  <2>3. PICK h, l \in Nat : h = 55296 + q /\ l = 56320 + r
    BY SMT
  <2>4. Units(c) = <<h, l>>
    BY <1>1, <1>3, <2>1, <2>2, <2>3, SMT DEF Units, Single
  <2>5. h \in Unit /\ l \in Unit
    BY <2>2, <2>3, UnitIs, SMT DEF MaxUnit
  <2>6. IsHigh(h) /\ IsLow(l) /\ Join(h, l) = c
    BY <1>1, <2>1, <2>2, <2>3, SMT DEF IsHigh, IsLow, Join
  <2> QED  BY <2>4, <2>5, <2>6
<1>4. c \in Nat /\ c # 0
  BY <1>1, SMT
<1> QED  BY <1>2, <1>3, <1>4

LEMMA UnitsType ==
  ASSUME NEW c \in Char
  PROVE  Units(c) \in Seq(Unit) /\ Len(Units(c)) = IF Single(c) THEN 1 ELSE 2
<1>1. CASE Single(c)
  BY <1>1, UnitsAre
<1>2. CASE ~Single(c)
  <2>1. PICK h, l \in Unit : Units(c) = <<h, l>>
    BY <1>2, UnitsAre
  <2> QED  BY <1>2, <2>1
<1> QED  BY <1>1, <1>2

\* f holds the encodings of the prefixes of s.
PrefixCodes(s, f) ==
  /\ f \in [0..Len(s) -> Seq(Unit)]
  /\ f[0] = <<>>
  /\ \A i \in 1..Len(s) : f[i] = f[i - 1] \o Units(s[i])

LEMMA EncodeIs ==
  ASSUME NEW s \in Seq(Char)
  PROVE  \E f : PrefixCodes(s, f) /\ Encode(s) = f[Len(s)]
<1> DEFINE ss == [i \in DOMAIN s |-> Units(s[i])]
<1>0. Len(s) \in Nat /\ DOMAIN s = 1..Len(s) /\ \A i \in 1..Len(s) : s[i] \in Char
  OBVIOUS
<1>1. ss \in Seq(Seq(Unit)) /\ Len(ss) = Len(s) /\ \A i \in 1..Len(s) : ss[i] = Units(s[i])
  <2>1. \A i \in 1..Len(s) : Units(s[i]) \in Seq(Unit)
    BY <1>0, UnitsType
  <2>2. ss \in [1..Len(s) -> Seq(Unit)]
    BY <1>0, <2>1
  <2>3. ss \in Seq(Seq(Unit))
    BY <1>0, <2>2, SeqDef
  <2>4. DOMAIN ss = 1..Len(s) /\ \A i \in 1..Len(s) : ss[i] = Units(s[i])
    BY <1>0
  <2>5. Len(ss) = Len(s)
    <3> HIDE DEF ss
    <3> QED  BY <1>0, <2>3, <2>4
  <2> QED  BY <2>3, <2>4, <2>5
<1>2. Encode(s) = FlattenSeq(ss)
  BY DEF Encode
<1> HIDE DEF ss
<1>3. CASE Len(s) = 0
  <2>1. ss = <<>>
    BY <1>1, <1>3
  <2>2. Encode(s) = <<>>
    BY <1>1, <1>2, <1>3, <2>1 DEF FlattenSeq
  <2> DEFINE f == [i \in 0..Len(s) |-> <<>>]
  <2>3. PrefixCodes(s, f) /\ f[Len(s)] = <<>>
    BY <1>3 DEF PrefixCodes
  <2> QED  BY <2>2, <2>3
<1>4. CASE Len(s) # 0
  <2>1. PICK g : Joined(ss, g, Len(s)) /\ Encode(s) = g[Len(s)]
    BY <1>1, <1>2, <1>4, FlattenIs
  <2>2. \A i \in 1..Len(s) : g[i] = IF i = 1 THEN Units(s[i]) ELSE g[i - 1] \o Units(s[i])
    BY <1>1, <2>1 DEF Joined
  <2> DEFINE f == [i \in 0..Len(s) |-> IF i = 0 THEN <<>> ELSE g[i]]
  <2>3. f[0] = <<>> /\ \A i \in 1..Len(s) : f[i] = g[i]
    BY <1>0
  <2>4. f[Len(s)] = Encode(s)
    BY <1>0, <1>4, <2>1
  <2>5. DOMAIN f = 0..Len(s) /\ f = [i \in 0..Len(s) |-> f[i]]
    OBVIOUS
  <2> HIDE DEF f
  <2>6. ASSUME NEW i \in 1..Len(s) PROVE f[i] = f[i - 1] \o Units(s[i])
    <3>1. CASE i = 1
      <4>1. Units(s[i]) \in Seq(Unit)
        BY <1>0, UnitsType
      <4>2. <<>> \o Units(s[i]) = Units(s[i])
        BY <4>1, ConcatEmptySeq
      <4>3. i - 1 = 0
        BY <3>1
      <4> QED  BY <2>2, <2>3, <3>1, <4>2, <4>3
    <3>2. CASE i # 1
      <4>1. i - 1 \in 1..Len(s)
        BY <1>0, <3>2
      <4> QED  BY <2>2, <2>3, <3>2, <4>1
    <3> QED  BY <3>1, <3>2
  <2>7. \A i \in 0..Len(s) : f[i] \in Seq(Unit)
    <3> DEFINE S == {n \in Nat : n <= Len(s) => f[n] \in Seq(Unit)}
    <3>1. 0 \in S
      <4>1. f[0] \in Seq(Unit)
        BY <2>3, EmptySeq
      <4> QED  BY <4>1
    <3>2. ASSUME NEW n \in Nat, n \in S PROVE n + 1 \in S
      <4>1. CASE n + 1 <= Len(s)
        <5>1. n + 1 \in 1..Len(s) /\ (n + 1) - 1 = n /\ n <= Len(s)
          BY <1>0, <4>1
        <5>2. f[n + 1] = f[n] \o Units(s[n + 1])
          BY <2>6, <5>1
        <5>3. f[n] \in Seq(Unit) /\ Units(s[n + 1]) \in Seq(Unit)
          BY <1>0, <3>2, <5>1, UnitsType
        <5>4. f[n + 1] \in Seq(Unit)
          BY <5>2, <5>3, ConcatProperties
        <5> QED  BY <5>4
      <4>2. CASE ~(n + 1 <= Len(s))
        BY <4>2
      <4> QED  BY <4>1, <4>2
    <3>3. \A n \in Nat : n \in S
      <4> HIDE DEF S
      <4> QED  BY <3>1, <3>2, Induction
    <3> QED  BY <1>0, <3>3
  <2>8. f \in [0..Len(s) -> Seq(Unit)]
    BY <2>5, <2>7
  <2>9. PrefixCodes(s, f)
    BY <2>3, <2>6, <2>8 DEF PrefixCodes
  <2> QED  BY <2>4, <2>9
<1> QED  BY <1>3, <1>4

LEMMA EncodeType == ASSUME NEW s \in Seq(Char) PROVE Encode(s) \in Seq(Unit)
<1>1. PICK f : PrefixCodes(s, f) /\ Encode(s) = f[Len(s)]
  BY EncodeIs
<1> QED  BY <1>1 DEF PrefixCodes

-----------------------------------------------------------------------------
(* The events that are reported *)

AgentEvent(s)  == [src |-> "UM", name |-> StringZI32(s), line |-> StringZU16(s)]
KernelEvent(s) == [src |-> "KM", name |-> WcsIntoInts(s), line |-> Fill(Encode(s), LineLen)]

\* The event is what was made of the text.
EvInv ==
  /\ text \in Seq(Char)
  /\ ev = NoEvent \/ ev = AgentEvent(text) \/ ev = KernelEvent(text)

LEMMA EventInvariant == Spec => []EvInv
<1>1. Init => EvInv
  BY DEF Init, EvInv
<1>2. EvInv /\ [Next]_vars => EvInv'
  <2> SUFFICES ASSUME EvInv, [Next]_vars PROVE EvInv'
    OBVIOUS
  <2>1. ASSUME NEW c \in Char, Extend(c) PROVE EvInv'
    BY <2>1 DEF Extend, EvInv
  <2>2. CASE ReportAgent
    BY <2>2 DEF ReportAgent, EvInv, AgentEvent
  <2>3. CASE ReportKernel
    BY <2>3 DEF ReportKernel, EvInv, KernelEvent
  <2>4. CASE Printed
    BY <2>4 DEF Printed, EvInv
  <2>5. CASE UNCHANGED vars
    BY <2>5 DEF vars, EvInv
  <2> QED  BY <2>1, <2>2, <2>3, <2>4, <2>5 DEF Next
<1> QED  BY <1>1, <1>2, PTL DEF Spec

LEMMA FillIs ==
  ASSUME NEW S, NEW s \in Seq(S), NEW n \in Nat \ {0}
  PROVE  /\ Fill(s, n) \in [1..n -> S \cup {0}] /\ Fill(s, n) \in Seq(S \cup {0}) /\ Len(Fill(s, n)) = n
         /\ Fill(s, n)[n] = 0
         /\ \A i \in 1..n : Fill(s, n)[i] = IF i <= Len(s) /\ i <= n - 1 THEN s[i] ELSE 0
<1> DEFINE b == Fill(s, n)
<1>1. /\ DOMAIN b = 1..n /\ b = [i \in 1..n |-> b[i]]
      /\ \A i \in 1..n : b[i] = IF i <= Len(s) /\ i <= n - 1 THEN s[i] ELSE 0
  BY DEF Fill, Room
<1> HIDE DEF b
<1>2. \A i \in 1..n : b[i] \in S \cup {0}
  BY <1>1
<1>3. b \in [1..n -> S \cup {0}]
  BY <1>1, <1>2
<1>4. b \in Seq(S \cup {0})
  BY <1>3, SeqDef
<1>5. Len(b) = n
  BY <1>1, <1>4
<1>6. b[n] = 0
  BY <1>1
<1> QED  BY <1>1, <1>3, <1>4, <1>5, <1>6 DEF b

LEMMA Lengths == NameLen \in Nat \ {0} /\ LineLen \in Nat \ {0} /\ MaxUnit \in Nat
BY ConvAssumption, SMT DEF MaxUnit

LEMMA LineType ==
  ASSUME NEW s \in Seq(Char)
  PROVE  /\ Fill(Encode(s), LineLen) \in [1..LineLen -> 0..MaxUnit]
         /\ Fill(Encode(s), LineLen) \in Seq(0..MaxUnit)
         /\ Fill(Encode(s), LineLen)[LineLen] = 0
<1>1. Encode(s) \in Seq(Unit)
  BY EncodeType
<1>2. Unit \cup {0} = 0..MaxUnit
  <2>1. MaxUnit \in Nat
    BY Lengths
  <2> QED  BY <2>1 DEF Unit
<1> QED  BY <1>1, <1>2, FillIs, Lengths

\* The ints that the driver writes: two units each.
LEMMA IntsType ==
  ASSUME NEW s \in Seq(Char)
  PROVE  /\ WcsIntoInts(s) \in [1..NameLen -> Int] /\ WcsIntoInts(s) \in Seq(Int)
         /\ WcsIntoInts(s)[NameLen] = 0
<1> DEFINE a == Fill(Encode(s), NameLen)
           z == [i \in 1..NameLen |-> 0]
           u == a \o z
<1>0. NameLen \in Nat /\ NameLen # 0
  BY Lengths
<1>1. a \in Seq(Unit \cup {0}) /\ Len(a) = NameLen /\ a[NameLen] = 0
  BY EncodeType, FillIs, Lengths
<1>2. Unit \cup {0} \subseteq Int /\ 0 \in Unit \cup {0}
  BY UnitIs
<1>3. z \in Seq(Unit \cup {0}) /\ Len(z) = NameLen /\ \A i \in 1..NameLen : z[i] = 0
  <2>1. z \in [1..NameLen -> Unit \cup {0}] /\ DOMAIN z = 1..NameLen /\ \A i \in 1..NameLen : z[i] = 0
    BY <1>2
  <2>2. z \in Seq(Unit \cup {0})
    BY <1>0, <2>1, SeqDef
  <2>3. Len(z) = NameLen
    <3> HIDE DEF z
    <3> QED  BY <1>0, <2>1, <2>2
  <2> QED  BY <2>1, <2>2, <2>3
<1> HIDE DEF a, z
<1>4. \A i \in 1..(2 * NameLen) : u[i] \in Int /\ (i >= NameLen => u[i] = 0)
  <2>1. /\ a \o z \in Seq(Unit \cup {0})
        /\ \A i \in 1..Len(a) + Len(z) : (a \o z)[i] = IF i <= Len(a) THEN a[i] ELSE z[i - Len(a)]
    BY <1>1, <1>3, ConcatProperties
  <2>2. \A i \in 1..(2 * NameLen) : u[i] = IF i <= NameLen THEN a[i] ELSE z[i - NameLen]
    BY <1>0, <1>1, <1>3, <2>1
  <2>3. \A i \in 1..NameLen : a[i] \in Int
    BY <1>1, <1>2
  <2> HIDE DEF u
  <2>4. ASSUME NEW i \in 1..(2 * NameLen) PROVE u[i] \in Int /\ (i >= NameLen => u[i] = 0)
    <3>1. CASE i <= NameLen
      <4>1. i \in 1..NameLen /\ (i >= NameLen => i = NameLen)
        BY <1>0, <3>1
      <4> QED  BY <1>1, <2>2, <2>3, <3>1, <4>1
    <3>2. CASE ~(i <= NameLen)
      <4>1. i - NameLen \in 1..NameLen
        BY <1>0, <3>2
      <4>2. u[i] = 0
        BY <1>3, <2>2, <3>2, <4>1
      <4> QED  BY <4>2
    <3> QED  BY <3>1, <3>2
  <2> QED  BY <2>4
<1>5. WcsIntoInts(s) = [i \in 1..NameLen |-> Pair(u[2 * i - 1], u[2 * i])]
  BY DEF WcsIntoInts, a, z
<1> HIDE DEF u
<1>6. \A i \in 1..NameLen : 2 * i - 1 \in 1..(2 * NameLen) /\ 2 * i \in 1..(2 * NameLen)
  BY <1>0
<1>7. \A lo, hi \in Int : Pair(lo, hi) \in Int
  BY SMT DEF Pair
<1>8. Pair(0, 0) = 0
  BY SMT DEF Pair
<1>9. \A i \in 1..NameLen : Pair(u[2 * i - 1], u[2 * i]) \in Int
  BY <1>4, <1>6, <1>7
<1>10. WcsIntoInts(s) \in [1..NameLen -> Int]
  BY <1>5, <1>9
<1>11. WcsIntoInts(s) \in Seq(Int)
  BY <1>0, <1>10, SeqDef
<1>12. u[2 * NameLen - 1] = 0 /\ u[2 * NameLen] = 0
  <2>1. 2 * NameLen - 1 >= NameLen /\ 2 * NameLen >= NameLen /\ NameLen \in 1..NameLen
    BY <1>0
  <2> QED  BY <1>4, <1>6, <2>1
<1>13. WcsIntoInts(s)[NameLen] = Pair(u[2 * NameLen - 1], u[2 * NameLen])
  BY <1>0, <1>5
<1> QED  BY <1>8, <1>10, <1>11, <1>12, <1>13

LEMMA PathType ==
  ASSUME NEW s \in Seq(Char)
  PROVE  /\ StringZI32(s) \in [1..NameLen -> Int] /\ StringZI32(s) \in Seq(Int)
         /\ StringZI32(s)[NameLen] = 0
<1>1. Char \cup {0} \subseteq Int
  BY UnitsAre
<1>2. /\ StringZI32(s) \in [1..NameLen -> Char \cup {0}] /\ StringZI32(s) \in Seq(Char \cup {0})
      /\ StringZI32(s)[NameLen] = 0
  BY FillIs, Lengths DEF StringZI32
<1>3. StringZI32(s) \in Seq(Int)
  BY <1>1, <1>2, SeqMonotonic
<1> QED  BY <1>1, <1>2, <1>3

\* Every buffer of every event has its full length, holds values of its width and
\* ends with a 0, for texts and buffers of any length.
THEOREM BuffersAreTerminated == Spec => []BuffersTerminated
<1>1. EvInv => BuffersTerminated
  <2> SUFFICES ASSUME EvInv, ev # NoEvent
               PROVE  /\ ev.name \in [1..NameLen -> Int] /\ ev.name[NameLen] = 0
                      /\ ev.line \in [1..LineLen -> 0..MaxUnit] /\ ev.line[LineLen] = 0
    BY DEF BuffersTerminated
  <2>1. text \in Seq(Char)
    BY DEF EvInv
  <2>2. CASE ev = AgentEvent(text)
    <3>1. ev.name = StringZI32(text) /\ ev.line = Fill(Encode(text), LineLen)
      BY <2>2 DEF AgentEvent, StringZU16
    <3> QED  BY <2>1, <3>1, PathType, LineType
  <2>3. CASE ev = KernelEvent(text)
    <3>1. ev.name = WcsIntoInts(text) /\ ev.line = Fill(Encode(text), LineLen)
      BY <2>3 DEF KernelEvent
    <3> QED  BY <2>1, <3>1, IntsType, LineType
  <2> QED  BY <2>2, <2>3 DEF EvInv
<1> QED  BY <1>1, EventInvariant, PTL

-----------------------------------------------------------------------------
(* Decode *)

\* What decoding makes of the rest of u from i, given f for the positions after i.
DecodeStep(u, half, f, i) ==
  IF i > Len(u) THEN <<>>
  ELSE IF PairAt(u, i) THEN <<Join(u[i], u[i + 1])>> \o f[i + 2]
  ELSE Alone(u[i], half) \o f[i + 1]

Decodes(u, half, f) == f = [i \in 1..(Len(u) + 2) |-> DecodeStep(u, half, f, i)]

LEMMA DecodesExists ==
  ASSUME NEW S, NEW u \in Seq(S), NEW half PROVE \E f : Decodes(u, half, f)
<1>0. PICK L \in Nat : L = Len(u)
  OBVIOUS
\* f is right in its last n places.
<1> DEFINE Right(f, n) == /\ f = [i \in 1..(L + 2) |-> f[i]]
                          /\ \A i \in 1..(L + 2) : i > L + 2 - n => f[i] = DecodeStep(u, half, f, i)
           T == {n \in Nat : n <= L + 2 => \E f : Right(f, n)}
<1>1. 0 \in T
  <2> DEFINE f == [i \in 1..(L + 2) |-> <<>>]
  <2>1. f = [i \in 1..(L + 2) |-> f[i]]
    OBVIOUS
  <2> HIDE DEF f
  <2>2. \A i \in 1..(L + 2) : ~(i > L + 2 - 0)
    OBVIOUS
  <2>3. Right(f, 0)
    BY <2>1, <2>2
  <2> QED  BY <2>3
<1>2. ASSUME NEW n \in Nat, n \in T PROVE n + 1 \in T
  <2>1. CASE ~(n + 1 <= L + 2)
    BY <2>1
  <2>2. CASE n + 1 <= L + 2
    <3>1. n <= L + 2
      BY <2>2
    <3>2. PICK f : Right(f, n)
      BY <1>2, <3>1
    <3>3. PICK p \in 1..(L + 2) : p = L + 2 - n
      BY <2>2
    <3> DEFINE g == [i \in 1..(L + 2) |-> IF i = p THEN DecodeStep(u, half, f, p) ELSE f[i]]
    <3>4. /\ g = [i \in 1..(L + 2) |-> g[i]] /\ g[p] = DecodeStep(u, half, f, p)
          /\ \A i \in 1..(L + 2) : i # p => g[i] = f[i]
      OBVIOUS
    <3> HIDE DEF g
    <3>5. ASSUME NEW i \in 1..(L + 2), i >= p PROVE DecodeStep(u, half, g, i) = DecodeStep(u, half, f, i)
      <4>1. CASE i > L
        BY <1>0, <4>1 DEF DecodeStep
      <4>2. CASE ~(i > L)
        <5>1. i + 1 \in 1..(L + 2) /\ i + 2 \in 1..(L + 2) /\ i + 1 # p /\ i + 2 # p
          BY <3>5, <4>2
        <5>2. g[i + 1] = f[i + 1] /\ g[i + 2] = f[i + 2]
          BY <3>4, <5>1
        <5> QED  BY <5>2 DEF DecodeStep
      <4> QED  BY <4>1, <4>2
    <3>6. ASSUME NEW i \in 1..(L + 2), i > L + 2 - (n + 1) PROVE g[i] = DecodeStep(u, half, g, i)
      <4>1. CASE i = p
        <5>1. i >= p
          BY <4>1
        <5> QED  BY <3>4, <3>5, <4>1, <5>1
      <4>2. CASE i # p
        <5>1. i >= p /\ i > L + 2 - n
          BY <3>3, <3>6, <4>2
        <5>2. f[i] = DecodeStep(u, half, f, i)
          BY <3>2, <5>1
        <5> QED  BY <3>4, <3>5, <4>2, <5>1, <5>2
      <4> QED  BY <4>1, <4>2
    <3>7. Right(g, n + 1)
      BY <3>4, <3>6
    <3> QED  BY <3>7
  <2> QED  BY <2>1, <2>2
<1>3. L + 2 \in T
  <2> HIDE DEF T
  <2>1. \A n \in Nat : n \in T
    BY <1>1, <1>2, Induction
  <2> QED  BY <2>1
<1>4. PICK f : Right(f, L + 2)
  BY <1>3
<1>5. \A i \in 1..(L + 2) : f[i] = DecodeStep(u, half, f, i)
  <2>1. \A i \in 1..(L + 2) : i > L + 2 - (L + 2)
    OBVIOUS
  <2> QED  BY <1>4, <2>1
<1>6. Decodes(u, half, f)
  BY <1>0, <1>4, <1>5 DEF Decodes
<1> QED  BY <1>6

\* Decoding reads a unit or a pair and goes on behind it.
LEMMA DecodeIs ==
  ASSUME NEW S, NEW u \in Seq(S), NEW half
  PROVE  \E f : /\ DecodeWith(u, half) = f[1]
                /\ \A i \in 1..(Len(u) + 2) : f[i] = DecodeStep(u, half, f, i)
<1>1. PICK f : f = CHOOSE g : Decodes(u, half, g)
  OBVIOUS
<1>2. Decodes(u, half, f)
  BY <1>1, DecodesExists
<1>3. DecodeWith(u, half) = f[1]
  BY <1>1 DEF DecodeWith, Decodes, DecodeStep
<1>4. \A i \in 1..(Len(u) + 2) : f[i] = DecodeStep(u, half, f, i)
  BY <1>2 DEF Decodes
<1> QED  BY <1>3, <1>4

\* Without halves of pairs, Decode changes nothing.
LEMMA DecodePlain ==
  ASSUME NEW u \in Seq(Int), \A i \in 1..Len(u) : ~IsHigh(u[i]) /\ ~IsLow(u[i])
  PROVE  Decode(u) = u
<1>0. PICK L \in Nat : L = Len(u)
  OBVIOUS
<1> DEFINE half == <<Replacement>>
<1>1. PICK f : Decode(u) = f[1] /\ \A i \in 1..(Len(u) + 2) : f[i] = DecodeStep(u, half, f, i)
  BY DecodeIs DEF Decode
<1> HIDE DEF half
<1>2. \A i \in 1..L : f[i] = <<u[i]>> \o f[i + 1]
  <2> SUFFICES ASSUME NEW i \in 1..L PROVE f[i] = <<u[i]>> \o f[i + 1]
    OBVIOUS
  <2>1. i \in 1..(L + 2) /\ ~(i > L)
    OBVIOUS
  <2>2. ~IsHigh(u[i]) /\ ~IsLow(u[i])
    BY <1>0
  <2>3. DecodeStep(u, half, f, i) = <<u[i]>> \o f[i + 1]
    BY <1>0, <2>1, <2>2 DEF DecodeStep, PairAt, Alone
  <2> QED  BY <1>0, <1>1, <2>1, <2>3
<1>3. f[L + 1] = <<>>
  <2>1. L + 1 \in 1..(L + 2) /\ L + 1 > L
    OBVIOUS
  <2> QED  BY <1>0, <1>1, <2>1 DEF DecodeStep
<1> DEFINE T == {n \in Nat : n <= L => f[L + 1 - n] = SubSeq(u, L + 1 - n, L)}
<1>4. 0 \in T
  <2>1. SubSeq(u, L + 1, L) = <<>>
    BY SubSeqEmpty
  <2>2. L + 1 - 0 = L + 1
    OBVIOUS
  <2> QED  BY <1>3, <2>1, <2>2
<1>5. ASSUME NEW n \in Nat, n \in T PROVE n + 1 \in T
  <2>1. CASE ~(n + 1 <= L)
    BY <2>1
  <2>2. CASE n + 1 <= L
    <3>1. PICK p \in 1..L : p = L + 1 - (n + 1) /\ p + 1 = L + 1 - n
      BY <2>2
    <3>2. f[p + 1] = SubSeq(u, p + 1, L)
      BY <1>5, <2>2, <3>1
    <3>3. SubSeq(u, p, L) = <<u[p]>> \o SubSeq(u, p + 1, L)
      <4>1. p \in 1..Len(u) /\ L \in p..Len(u)
        BY <1>0
      <4> QED  BY <4>1, SubSeqRecursiveFirst
    <3>4. f[p] = SubSeq(u, p, L)
      BY <1>2, <3>2, <3>3
    <3> QED  BY <3>1, <3>4
  <2> QED  BY <2>1, <2>2
<1>6. L \in T
  <2> HIDE DEF T
  <2>1. \A n \in Nat : n \in T
    BY <1>4, <1>5, Induction
  <2> QED  BY <2>1
<1>7. f[1] = SubSeq(u, 1, L)
  <2>1. L + 1 - L = 1 /\ L <= L
    OBVIOUS
  <2> QED  BY <1>6, <2>1
<1> QED  BY <1>0, <1>1, <1>7, SubSeqFull

\* The halves from position i on.
Halves(u, i) == {j \in i..Len(u) : HalfAt(u, j)}

\* No pair begins right before i: decoding gets to such positions only.
Starts(u, i) == ~(i > 1 /\ PairAt(u, i - 1))

\* Where decoding goes on after i, and how the halves behind i become those from there.
LEMMA HalvesStep ==
  ASSUME NEW u \in Seq(Int), NEW i \in 1..Len(u), Starts(u, i)
  PROVE  /\ PairAt(u, i) => Starts(u, i + 2) /\ Halves(u, i) = Halves(u, i + 2)
         /\ ~PairAt(u, i) => Starts(u, i + 1)
         /\ ~PairAt(u, i) /\ (IsHigh(u[i]) \/ IsLow(u[i])) => i \in Halves(u, i)
         /\ ~PairAt(u, i) /\ ~(IsHigh(u[i]) \/ IsLow(u[i])) => Halves(u, i) = Halves(u, i + 1)
<1>0. PICK L \in Nat : L = Len(u)
  OBVIOUS
<1>1. (i + 2) - 1 = i + 1 /\ (i + 1) - 1 = i /\ i + 1 > 1 /\ i \in i..L
  BY <1>0
<1>2. \A x \in Int : ~(IsHigh(x) /\ IsLow(x))
  BY DEF IsHigh, IsLow
<1>3. ASSUME PairAt(u, i) PROVE Starts(u, i + 2) /\ Halves(u, i) = Halves(u, i + 2)
  <2>1. i + 1 \in 1..L /\ IsHigh(u[i]) /\ IsLow(u[i + 1])
    BY <1>0, <1>3 DEF PairAt
  <2>2. u[i] \in Int /\ u[i + 1] \in Int
    BY <1>0, <2>1
  <2>3. ~IsLow(u[i]) /\ ~IsHigh(u[i + 1])
    BY <1>2, <2>1, <2>2
  <2>4. ~HalfAt(u, i) /\ ~HalfAt(u, i + 1)
    BY <1>1, <1>3, <2>3 DEF HalfAt
  <2>5. \A j \in i..L : j = i \/ j = i + 1 \/ j \in (i + 2)..L
    OBVIOUS
  <2>6. (i + 2)..L \subseteq i..L
    OBVIOUS
  <2>7. Halves(u, i) = Halves(u, i + 2)
    BY <1>0, <2>4, <2>5, <2>6 DEF Halves
  <2>8. ~PairAt(u, i + 1)
    BY <2>3 DEF PairAt
  <2>9. Starts(u, i + 2)
    BY <1>1, <2>8 DEF Starts
  <2> QED  BY <2>7, <2>9
<1>4. ~PairAt(u, i) => Starts(u, i + 1)
  BY <1>1 DEF Starts
<1>5. ASSUME ~PairAt(u, i), IsHigh(u[i]) \/ IsLow(u[i]) PROVE i \in Halves(u, i)
  <2>1. HalfAt(u, i)
    BY <1>5 DEF HalfAt, Starts
  <2> QED  BY <1>0, <1>1, <2>1 DEF Halves
<1>6. ASSUME ~(IsHigh(u[i]) \/ IsLow(u[i])) PROVE Halves(u, i) = Halves(u, i + 1)
  <2>1. ~HalfAt(u, i)
    BY <1>6 DEF HalfAt
  <2>2. \A j \in i..L : j = i \/ j \in (i + 1)..L
    OBVIOUS
  <2>3. (i + 1)..L \subseteq i..L
    OBVIOUS
  <2> QED  BY <1>0, <2>1, <2>2, <2>3 DEF Halves
<1> QED  BY <1>3, <1>4, <1>5, <1>6

\* What a common beginning does to the comparison of two texts.
LEMMA Longer ==
  ASSUME NEW x \in Int, NEW a \in Seq(Int), NEW b \in Seq(Int), Len(a) <= Len(b)
  PROVE  /\ <<x>> \o a \in Seq(Int) /\ <<x>> \o b \in Seq(Int) /\ <<x, x, x>> \o b \in Seq(Int)
         /\ Len(<<x>> \o a) <= Len(<<x>> \o b)
         /\ Len(a) < Len(b) => Len(<<x>> \o a) < Len(<<x>> \o b)
         /\ Len(<<x>> \o a) < Len(<<x, x, x>> \o b)
<1>1. <<x>> \in Seq(Int) /\ Len(<<x>>) = 1 /\ <<x, x, x>> \in Seq(Int) /\ Len(<<x, x, x>>) = 3
  OBVIOUS
<1>2. /\ <<x>> \o a \in Seq(Int) /\ <<x>> \o b \in Seq(Int) /\ <<x, x, x>> \o b \in Seq(Int)
      /\ Len(<<x>> \o a) = 1 + Len(a) /\ Len(<<x>> \o b) = 1 + Len(b)
      /\ Len(<<x, x, x>> \o b) = 3 + Len(b)
  BY <1>1, ConcatProperties
<1>3. Len(a) \in Nat /\ Len(b) \in Nat
  OBVIOUS
<1> QED  BY <1>2, <1>3

\* Three signs for a half and one for it tell the same text just when there is no half.
LEMMA HalvesShow ==
  ASSUME NEW u \in Seq(Int)
  PROVE  DecodeWith(u, HalfInJSON) = Decode(u) <=> Whole(u)
<1>0. PICK L \in Nat : L = Len(u)
  OBVIOUS
<1>1. PICK d : /\ Decode(u) = d[1]
               /\ \A i \in 1..(L + 2) : d[i] = DecodeStep(u, <<Replacement>>, d, i)
  BY <1>0, DecodeIs DEF Decode
<1>2. PICK e : /\ DecodeWith(u, HalfInJSON) = e[1]
               /\ \A i \in 1..(L + 2) : e[i] = DecodeStep(u, HalfInJSON, e, i)
  BY <1>0, DecodeIs
\* The comparison from position i on.
<1> DEFINE Same(i) == /\ d[i] \in Seq(Int) /\ e[i] \in Seq(Int) /\ Len(d[i]) <= Len(e[i])
                      /\ Halves(u, i) = {} => d[i] = e[i]
                      /\ Halves(u, i) # {} => Len(d[i]) < Len(e[i])
<1>3. ASSUME NEW i \in 1..(L + 2), i > L PROVE Same(i)
  <2>1. d[i] = <<>> /\ e[i] = <<>>
    BY <1>0, <1>1, <1>2, <1>3 DEF DecodeStep
  <2>2. i..L = {}
    BY <1>3
  <2>3. Halves(u, i) = {}
    BY <1>0, <2>2 DEF Halves
  <2>4. <<>> \in Seq(Int) /\ Len(<<>>) = 0 /\ 0 <= 0
    OBVIOUS
  <2> QED  BY <2>1, <2>3, <2>4
<1>4. Replacement \in Int
  BY DEF Replacement
<1>5. ASSUME NEW i \in 1..L, Starts(u, i),
             Starts(u, i + 1) => Same(i + 1), Starts(u, i + 2) => Same(i + 2)
      PROVE  Same(i)
  <2>0. i \in 1..Len(u) /\ i \in 1..(L + 2) /\ ~(i > Len(u)) /\ u[i] \in Int
    BY <1>0
  <2>1. CASE PairAt(u, i)
    <3>1. Same(i + 2) /\ Halves(u, i) = Halves(u, i + 2)
      BY <1>5, <2>0, <2>1, HalvesStep
    <3>2. PICK x \in Int : x = Join(u[i], u[i + 1])
      <4>1. u[i + 1] \in Int
        BY <1>0, <2>0, <2>1 DEF PairAt
      <4> QED  BY <2>0, <4>1 DEF Join
    <3>3. d[i] = <<x>> \o d[i + 2] /\ e[i] = <<x>> \o e[i + 2]
      BY <1>1, <1>2, <2>0, <2>1, <3>2 DEF DecodeStep
    <3>4. PICK a \in Seq(Int), b \in Seq(Int) : a = d[i + 2] /\ b = e[i + 2]
      BY <3>1
    <3> QED  BY <3>1, <3>3, <3>4, Longer
  <2>2. CASE ~PairAt(u, i) /\ (IsHigh(u[i]) \/ IsLow(u[i]))
    <3>1. Same(i + 1) /\ Halves(u, i) # {}
      BY <1>5, <2>0, <2>2, HalvesStep
    <3>2. d[i] = <<Replacement>> \o d[i + 1] /\ e[i] = HalfInJSON \o e[i + 1]
      BY <1>1, <1>2, <2>0, <2>2 DEF DecodeStep, Alone
    <3>3. PICK a \in Seq(Int), b \in Seq(Int) : a = d[i + 1] /\ b = e[i + 1] /\ Len(a) <= Len(b)
      BY <3>1
    <3>4. PICK x \in Int : x = Replacement /\ HalfInJSON = <<x, x, x>>
      BY <1>4 DEF HalfInJSON
    <3>5. d[i] = <<x>> \o a /\ e[i] = <<x, x, x>> \o b
      BY <3>2, <3>3, <3>4
    <3>6. d[i] \in Seq(Int) /\ e[i] \in Seq(Int) /\ Len(d[i]) < Len(e[i])
      BY <3>3, <3>5, Longer
    <3>7. Len(d[i]) <= Len(e[i])
      BY <3>6
    <3> QED  BY <3>1, <3>6, <3>7
  <2>3. CASE ~PairAt(u, i) /\ ~(IsHigh(u[i]) \/ IsLow(u[i]))
    <3>1. Same(i + 1) /\ Halves(u, i) = Halves(u, i + 1)
      BY <1>5, <2>0, <2>3, HalvesStep
    <3>2. PICK x \in Int : x = u[i]
      BY <2>0
    <3>3. d[i] = <<x>> \o d[i + 1] /\ e[i] = <<x>> \o e[i + 1]
      BY <1>1, <1>2, <2>0, <2>3, <3>2 DEF DecodeStep, Alone
    <3>4. PICK a \in Seq(Int), b \in Seq(Int) : a = d[i + 1] /\ b = e[i + 1]
      BY <3>1
    <3> QED  BY <3>1, <3>3, <3>4, Longer
  <2> QED  BY <2>1, <2>2, <2>3
<1> HIDE DEF Same
<1> DEFINE T == {n \in Nat : \A i \in 1..(L + 2) : i > L - n /\ Starts(u, i) => Same(i)}
<1>6. 0 \in T
  <2>1. \A i \in 1..(L + 2) : i > L - 0 => i > L
    OBVIOUS
  <2> QED  BY <1>3, <2>1
<1>7. ASSUME NEW n \in Nat, n \in T PROVE n + 1 \in T
  <2> SUFFICES ASSUME NEW i \in 1..(L + 2), i > L - (n + 1), Starts(u, i) PROVE Same(i)
    OBVIOUS
  <2>1. CASE i > L
    BY <1>3, <2>1
  <2>2. CASE ~(i > L)
    <3>1. i \in 1..L /\ i + 1 \in 1..(L + 2) /\ i + 2 \in 1..(L + 2) /\ i + 1 > L - n /\ i + 2 > L - n
      BY <2>2
    <3>2. (Starts(u, i + 1) => Same(i + 1)) /\ (Starts(u, i + 2) => Same(i + 2))
      BY <1>7, <3>1
    <3> QED  BY <1>5, <3>1, <3>2
  <2> QED  BY <2>1, <2>2
<1>8. Same(1)
  <2>1. L \in T
    <3> HIDE DEF T
    <3>1. \A n \in Nat : n \in T
      BY <1>6, <1>7, Induction
    <3> QED  BY <3>1
  <2>2. 1 \in 1..(L + 2) /\ 1 > L - L /\ Starts(u, 1)
    BY DEF Starts
  <2> QED  BY <2>1, <2>2
<1>9. Whole(u) <=> Halves(u, 1) = {}
  BY <1>0 DEF Whole, Halves
<1>10. d[1] = e[1] <=> Halves(u, 1) = {}
  <2>1. d[1] \in Seq(Int) /\ e[1] \in Seq(Int)
    BY <1>8 DEF Same
  <2>2. Len(d[1]) < Len(e[1]) => d[1] # e[1]
    BY <2>1
  <2> QED  BY <1>8, <2>2 DEF Same
<1> QED  BY <1>1, <1>2, <1>9, <1>10

\* The agent's and the backend's JSON of a wide field agree just when no pair was cut
\* in half; those of the name likewise, if no int of it that is not 0 has a lower half
\* of 0.
THEOREM BothSidesAgree == Spec => []SidesAgree
<1>1. ASSUME NEW S, NEW b \in Seq(S), \A i \in 1..Len(b) : b[i] # 0 PROVE BeforeNul(b) = b
  <2>1. {i \in DOMAIN b : b[i] = 0} = {}
    BY <1>1
  <2> QED  BY <2>1 DEF BeforeNul
<1>2. ASSUME NEW b \in Seq(Int)
      PROVE  AgentWide(b) = BackendWide(b) <=> Whole(BeforeNul(b))
  <2>1. BeforeNul(b) \in Seq(Int) /\ \A i \in 1..Len(BeforeNul(b)) : BeforeNul(b)[i] # 0
    BY <1>2, BeforeNulIs
  <2>2. BeforeNul(BeforeNul(b)) = BeforeNul(b)
    BY <1>1, <2>1
  <2> QED  BY <2>1, <2>2, HalvesShow DEF AgentWide, BackendWide, UTF16ToString, utf16BufToString
<1>3. ASSUME NEW b \in Seq(Int), \A i \in DOMAIN b : b[i] # 0 => Low16(b[i]) # 0
      PROVE  UTF16ToString(NarrowInts(b)) = utf16BufToString(NarrowInts(b)) <=> Whole(NarrowInts(b))
  <2>1. /\ BeforeNul(b) \in Seq(Int) /\ Len(BeforeNul(b)) <= Len(b)
        /\ \A i \in 1..Len(BeforeNul(b)) : b[i] # 0
    BY BeforeNulIs
  <2>2. PICK n \in Nat : n = Len(BeforeNul(b)) /\ DOMAIN BeforeNul(b) = 1..n
    BY <2>1
  <2>3. \A v \in Int : Low16(v) \in Int
    BY SMT DEF Low16
  <2>4. \A i \in 1..n : i \in DOMAIN b /\ b[i] \in Int /\ b[i] # 0
    BY <2>1, <2>2
  <2>5. NarrowInts(b) = [i \in 1..n |-> Low16(b[i])]
    BY <2>2 DEF NarrowInts
  <2>6. NarrowInts(b) \in [1..n -> Int] /\ \A i \in 1..n : NarrowInts(b)[i] # 0
    BY <1>3, <2>3, <2>4, <2>5
  <2>7. NarrowInts(b) \in Seq(Int)
    BY <2>6, SeqDef
  <2>8. \A i \in 1..Len(NarrowInts(b)) : NarrowInts(b)[i] # 0
    BY <2>6, <2>7
  <2>9. BeforeNul(NarrowInts(b)) = NarrowInts(b)
    BY <1>1, <2>7, <2>8
  <2> QED  BY <2>7, <2>9, HalvesShow DEF UTF16ToString, utf16BufToString
<1>4. EvInv => ev.name \in Seq(Int) /\ ev.line \in Seq(Int)
  <2> SUFFICES ASSUME EvInv PROVE ev.name \in Seq(Int) /\ ev.line \in Seq(Int)
    OBVIOUS
  <2>1. text \in Seq(Char)
    BY DEF EvInv
  <2>0. Fill(Encode(text), LineLen) \in Seq(Int)
    <3>1. 0..MaxUnit \subseteq Int
      OBVIOUS
    <3>2. Fill(Encode(text), LineLen) \in Seq(0..MaxUnit)
      BY <2>1, LineType
    <3> QED  BY <3>1, <3>2, SeqMonotonic
  <2>2. CASE ev = AgentEvent(text)
    <3>1. ev.name = StringZI32(text) /\ ev.line = Fill(Encode(text), LineLen)
      BY <2>2 DEF AgentEvent, StringZU16
    <3> QED  BY <2>0, <2>1, <3>1, PathType
  <2>3. CASE ev = KernelEvent(text)
    <3>1. ev.name = WcsIntoInts(text) /\ ev.line = Fill(Encode(text), LineLen)
      BY <2>3 DEF KernelEvent
    <3> QED  BY <2>0, <2>1, <3>1, IntsType
  <2>4. CASE ev = NoEvent
    <3>1. ev.name = <<>> /\ ev.line = <<>>
      BY <2>4 DEF NoEvent
    <3> QED  BY <3>1, EmptySeq
  <2> QED  BY <2>2, <2>3, <2>4 DEF EvInv
<1>5. EvInv => SidesAgree
  <2> SUFFICES ASSUME EvInv PROVE SidesAgree
    OBVIOUS
  <2>1. AgentWide(ev.line) = BackendWide(ev.line) <=> Whole(BeforeNul(ev.line))
    BY <1>2, <1>4
  <2>2. (\A i \in DOMAIN ev.name : ev.name[i] # 0 => Low16(ev.name[i]) # 0) =>
          (UTF16ToString(NarrowInts(ev.name)) = utf16BufToString(NarrowInts(ev.name))
             <=> Whole(NarrowInts(ev.name)))
    BY <1>3, <1>4
  <2> QED  BY <2>1, <2>2 DEF SidesAgree, AgentJSON, BackendJSON
<1> QED  BY <1>5, EventInvariant, PTL

\* What BeforeNul finds in a filled buffer.
LEMMA FilledIs ==
  ASSUME NEW S, NEW s \in Seq(S), 0 \notin S, NEW n \in Nat \ {0}, NEW k \in Nat,
         k <= Len(s), k <= n - 1, k = Len(s) \/ k = n - 1
  PROVE  /\ BeforeNul(Fill(s, n)) \in Seq(S) /\ Len(BeforeNul(Fill(s, n))) = k
         /\ \A i \in 1..k : BeforeNul(Fill(s, n))[i] = s[i] /\ Fill(s, n)[i] = s[i]
<1> DEFINE b == Fill(s, n)
           a == BeforeNul(b)
<1>1. /\ b \in Seq(S \cup {0}) /\ Len(b) = n
      /\ \A i \in 1..n : b[i] = IF i <= Len(s) /\ i <= n - 1 THEN s[i] ELSE 0
  BY FillIs
<1> HIDE DEF b
<1>2. /\ a \in Seq(S \cup {0}) /\ Len(a) <= n
      /\ \A i \in 1..Len(a) : a[i] = b[i] /\ b[i] # 0
      /\ Len(a) < n => b[Len(a) + 1] = 0
  BY <1>1, BeforeNulIs
<1> HIDE DEF a
<1>3. PICK m \in Nat : m = Len(a)
  BY <1>2
<1>4. \A i \in 1..k : b[i] = s[i] /\ s[i] \in S /\ s[i] # 0
  <2>1. \A i \in 1..k : i \in 1..n /\ i <= Len(s) /\ i <= n - 1 /\ i \in 1..Len(s)
    OBVIOUS
  <2> QED  BY <1>1, <2>1
<1>5. b[k + 1] = 0
  <2>1. k + 1 \in 1..n /\ ~(k + 1 <= Len(s) /\ k + 1 <= n - 1)
    OBVIOUS
  <2> QED  BY <1>1, <2>1
<1>6. m = k
  <2>1. ~(m > k)
    <3>1. m > k => k + 1 \in 1..m
      OBVIOUS
    <3> QED  BY <1>2, <1>3, <1>5, <3>1
  <2>2. ~(m < k)
    <3>1. m < k => m + 1 \in 1..k /\ m < n
      OBVIOUS
    <3> QED  BY <1>2, <1>3, <1>4, <3>1
  <2> QED  BY <2>1, <2>2
<1>7. \A i \in 1..k : a[i] = s[i] /\ b[i] = s[i] /\ a[i] \in S
  BY <1>2, <1>3, <1>4, <1>6
<1>8. a \in [1..k -> S]
  <2>1. DOMAIN a = 1..k /\ a = [i \in 1..k |-> a[i]]
    <3>1. a \in [1..k -> S \cup {0}]
      BY <1>2, <1>3, <1>6, LenProperties
    <3> QED  BY <3>1
  <2> QED  BY <1>7, <2>1
<1>9. a \in Seq(S)
  BY <1>8, SeqDef
<1> QED  BY <1>3, <1>6, <1>7, <1>9 DEF a, b

\* What the backend prints of a module path is the path, cut to the length of the
\* buffer, as long as all characters have 16 bits.
THEOREM PathsSurvive == Spec => []PathSurvives
<1>1. ASSUME NEW s \in Seq(Char), \A i \in DOMAIN s : Single(s[i])
      PROVE  utf16BufToString(NarrowInts(StringZI32(s))) = SubSeq(s, 1, Min({Len(s), NameLen - 1}))
  <2>1. NameLen \in Nat /\ NameLen # 0 /\ NameLen - 1 \in Nat /\ Len(s) \in Nat
    BY Lengths
  <2>2. PICK k \in Nat : /\ k = Min({Len(s), NameLen - 1})
                         /\ k <= Len(s) /\ k <= NameLen - 1 /\ (k = Len(s) \/ k = NameLen - 1)
    <3>1. {Len(s), NameLen - 1} \subseteq Nat /\ {Len(s), NameLen - 1} # {}
      BY <2>1
    <3>2. Min({Len(s), NameLen - 1}) \in {Len(s), NameLen - 1}
          /\ \A y \in {Len(s), NameLen - 1} : Min({Len(s), NameLen - 1}) <= y
      BY <3>1, MinIs
    <3> QED  BY <2>1, <3>2
  <2>3. \A i \in 1..k : /\ s[i] \in Char /\ s[i] \in Nat /\ Low16(s[i]) = s[i]
                        /\ ~IsHigh(s[i]) /\ ~IsLow(s[i])
    <3>1. ASSUME NEW i \in 1..k
          PROVE  /\ s[i] \in Char /\ s[i] \in Nat /\ Low16(s[i]) = s[i]
                 /\ ~IsHigh(s[i]) /\ ~IsLow(s[i])
      <4>1. i \in DOMAIN s /\ s[i] \in Char
        BY <2>2
      <4>2. Single(s[i])
        BY <1>1, <4>1
      <4>3. s[i] \in Nat /\ ~IsHigh(s[i]) /\ ~IsLow(s[i])
        BY <4>1, <4>2, UnitsAre
      <4>4. \A v \in Nat : v < 65536 => v % 65536 = v
        BY SMT
      <4>5. Low16(s[i]) = s[i]
        BY <4>2, <4>3, <4>4 DEF Low16, Single
      <4> QED  BY <4>1, <4>3, <4>5
    <3> QED  BY <3>1
  <2>4. /\ BeforeNul(StringZI32(s)) \in Seq(Char) /\ Len(BeforeNul(StringZI32(s))) = k
        /\ \A i \in 1..k : StringZI32(s)[i] = s[i]
    <3>1. 0 \notin Char /\ NameLen \in Nat \ {0}
      BY UnitsAre, Lengths
    <3>2. k \in Nat /\ k <= Len(s) /\ k <= NameLen - 1 /\ (k = Len(s) \/ k = NameLen - 1)
      BY <2>2
    <3>3. /\ BeforeNul(Fill(s, NameLen)) \in Seq(Char) /\ Len(BeforeNul(Fill(s, NameLen))) = k
          /\ \A i \in 1..k : Fill(s, NameLen)[i] = s[i]
      BY <3>1, <3>2, FilledIs
    <3> QED  BY <3>3 DEF StringZI32
  <2>5. NarrowInts(StringZI32(s)) = [i \in 1..k |-> s[i]]
    <3>1. DOMAIN BeforeNul(StringZI32(s)) = 1..k
      BY <2>4
    <3> QED  BY <2>3, <2>4, <3>1 DEF NarrowInts
  <2>6. PICK u : u = [i \in 1..k |-> s[i]]
    OBVIOUS
  <2>7. u \in [1..k -> Int] /\ DOMAIN u = 1..k /\ \A i \in 1..k : u[i] = s[i]
    BY <2>3, <2>6
  <2>8. u \in Seq(Int)
    BY <2>7, SeqDef
  <2>9. Len(u) = k
    BY <2>7, <2>8
  <2>10. Decode(u) = u
    BY <2>3, <2>7, <2>8, <2>9, DecodePlain
  <2>11. SubSeq(s, 1, k) = u
    <3>1. 1 \in Int /\ k \in Int /\ \A i \in 1..k : s[i] \in Int
      BY <2>3
    <3>2. /\ SubSeq(s, 1, k) \in Seq(Int)
          /\ Len(SubSeq(s, 1, k)) = IF 1 <= k THEN k - 1 + 1 ELSE 0
          /\ \A i \in 1..(k - 1 + 1) : SubSeq(s, 1, k)[i] = s[1 + i - 1]
      BY <3>1, SubSeqProperties
    <3>3. Len(SubSeq(s, 1, k)) = k /\ \A i \in 1..k : SubSeq(s, 1, k)[i] = s[i]
      BY <3>2
    <3> QED  BY <2>7, <2>8, <2>9, <3>2, <3>3, SeqEqual
  <2> QED  BY <2>2, <2>5, <2>6, <2>10, <2>11 DEF utf16BufToString
<1>2. EvInv => PathSurvives
  <2> SUFFICES ASSUME EvInv, ev.src = "UM", \A i \in DOMAIN text : Single(text[i])
               PROVE  BackendJSON(ev).name = SubSeq(text, 1, Min({Len(text), NameLen - 1}))
    BY DEF PathSurvives
  <2>1. ev = AgentEvent(text)
    BY DEF EvInv, NoEvent, KernelEvent
  <2>2. text \in Seq(Char)
    BY DEF EvInv
  <2>3. BackendJSON(ev).name = utf16BufToString(NarrowInts(StringZI32(text)))
    BY <2>1 DEF BackendJSON, AgentEvent
  <2> QED  BY <1>1, <2>2, <2>3
<1> QED  BY <1>2, EventInvariant, PTL

-----------------------------------------------------------------------------
(* Encode, cut and decoded again *)

\* b begins with a.
Begins(a, b) == Len(a) <= Len(b) /\ \A x \in 1..Len(a) : b[x] = a[x]

LEMMA PrefixFacts ==
  ASSUME NEW s \in Seq(Char), NEW f, PrefixCodes(s, f)
  PROVE  /\ \A i \in 0..Len(s) : f[i] \in Seq(Unit) /\ Len(f[i]) \in Nat
         /\ \A i \in 1..Len(s) :
              /\ s[i] \in Char /\ i - 1 \in 0..Len(s) /\ Begins(f[i - 1], f[i])
              /\ Len(f[i]) = Len(f[i - 1]) + (IF Single(s[i]) THEN 1 ELSE 2)
              /\ f[i][Len(f[i - 1]) + 1] = Units(s[i])[1]
              /\ ~Single(s[i]) => f[i][Len(f[i - 1]) + 2] = Units(s[i])[2]
<1>0. Len(s) \in Nat
  OBVIOUS
<1>1. \A i \in 0..Len(s) : f[i] \in Seq(Unit) /\ Len(f[i]) \in Nat
  BY DEF PrefixCodes
<1>2. ASSUME NEW i \in 1..Len(s)
      PROVE  /\ s[i] \in Char /\ i - 1 \in 0..Len(s) /\ Begins(f[i - 1], f[i])
             /\ Len(f[i]) = Len(f[i - 1]) + (IF Single(s[i]) THEN 1 ELSE 2)
             /\ f[i][Len(f[i - 1]) + 1] = Units(s[i])[1]
             /\ ~Single(s[i]) => f[i][Len(f[i - 1]) + 2] = Units(s[i])[2]
  <2>1. s[i] \in Char /\ i - 1 \in 0..Len(s)
    BY <1>0
  <2>2. PICK a \in Seq(Unit), c \in Seq(Unit) : a = f[i - 1] /\ c = Units(s[i])
    BY <1>1, <2>1, UnitsType
  <2>3. f[i] = a \o c
    BY <2>2 DEF PrefixCodes
  <2>4. /\ Len(a \o c) = Len(a) + Len(c)
        /\ \A x \in 1..Len(a) + Len(c) : (a \o c)[x] = IF x <= Len(a) THEN a[x] ELSE c[x - Len(a)]
    BY ConcatProperties
  <2>5. Len(c) = IF Single(s[i]) THEN 1 ELSE 2
    BY <2>1, <2>2, UnitsType
  <2>6. PICK n \in Nat, m \in Nat : n = Len(a) /\ m = Len(c) /\ m >= 1 /\ (~Single(s[i]) => m >= 2)
    BY <2>5
  <2>7. Begins(a, a \o c)
    <3>1. n <= n + m /\ \A x \in 1..n : x \in 1..n + m /\ x <= n
      OBVIOUS
    <3> QED  BY <2>4, <2>6, <3>1 DEF Begins
  <2>8. (a \o c)[n + 1] = c[1]
    <3>1. n + 1 \in 1..n + m /\ ~(n + 1 <= n) /\ (n + 1) - n = 1
      BY <2>6
    <3> QED  BY <2>4, <2>6, <3>1
  <2>9. ~Single(s[i]) => (a \o c)[n + 2] = c[2]
    <3>1. ~Single(s[i]) => n + 2 \in 1..n + m /\ ~(n + 2 <= n) /\ (n + 2) - n = 2
      BY <2>6
    <3> QED  BY <2>4, <2>6, <3>1
  <2> QED  BY <2>1, <2>2, <2>3, <2>4, <2>5, <2>6, <2>7, <2>8, <2>9
<1> QED  BY <1>1, <1>2

\* The encoding of a text begins with the encoding of every prefix of it.
LEMMA PrefixMonotone ==
  ASSUME NEW s \in Seq(Char), NEW f, PrefixCodes(s, f), NEW i \in 0..Len(s), NEW j \in i..Len(s)
  PROVE  Begins(f[i], f[j])
<1>0. PICK n \in Nat : n = Len(s)
  OBVIOUS
<1> DEFINE T == {m \in Nat : i + m <= n => Begins(f[i], f[i + m])}
<1>1. 0 \in T
  <2>1. f[i] \in Seq(Unit) /\ Len(f[i]) \in Nat
    BY PrefixFacts
  <2>2. Begins(f[i], f[i])
    BY <2>1 DEF Begins
  <2>3. i + 0 = i
    BY <1>0
  <2> QED  BY <2>2, <2>3
<1>2. ASSUME NEW m \in Nat, m \in T PROVE m + 1 \in T
  <2>1. CASE ~(i + (m + 1) <= n)
    BY <2>1
  <2>2. CASE i + (m + 1) <= n
    <3>1. PICK p \in 1..n : p = i + (m + 1) /\ p - 1 = i + m /\ i + m <= n
      BY <1>0, <2>2
    <3>2. Begins(f[i], f[p - 1])
      BY <1>2, <3>1
    <3>3. Begins(f[p - 1], f[p]) /\ p - 1 \in 0..n
      BY <1>0, PrefixFacts
    <3>4. Len(f[i]) \in Nat /\ Len(f[p - 1]) \in Nat /\ Len(f[p]) \in Nat
      BY <1>0, <3>3, PrefixFacts
    <3>5. Begins(f[i], f[p])
      BY <3>2, <3>3, <3>4 DEF Begins
    <3> QED  BY <3>1, <3>5
  <2> QED  BY <2>1, <2>2
<1>3. j - i \in T
  <2> HIDE DEF T
  <2>1. j - i \in Nat
    BY <1>0
  <2>2. \A m \in Nat : m \in T
    BY <1>1, <1>2, Induction
  <2> QED  BY <2>1, <2>2
<1>4. i + (j - i) = j /\ j <= n
  BY <1>0
<1> QED  BY <1>0, <1>3, <1>4

\* Where a character's units are in the encoding.
LEMMA UnitsAt ==
  ASSUME NEW s \in Seq(Char), NEW f, PrefixCodes(s, f), NEW i \in 1..Len(s)
  PROVE  LET E == f[Len(s)]
             x == Len(f[i - 1]) + 1
         IN  /\ Single(s[i]) => E[x] = s[i] /\ ~IsHigh(E[x]) /\ ~IsLow(E[x])
             /\ ~Single(s[i]) => IsHigh(E[x]) /\ IsLow(E[x + 1]) /\ Join(E[x], E[x + 1]) = s[i]
<1> DEFINE E == f[Len(s)]
<1>0. Len(s) \in Nat /\ i \in 0..Len(s) /\ i - 1 \in 0..Len(s)
  OBVIOUS
<1>f. /\ Len(f[i]) = Len(f[i - 1]) + (IF Single(s[i]) THEN 1 ELSE 2)
      /\ f[i][Len(f[i - 1]) + 1] = Units(s[i])[1]
      /\ ~Single(s[i]) => f[i][Len(f[i - 1]) + 2] = Units(s[i])[2]
  BY PrefixFacts
<1>n. Len(f[i]) \in Nat /\ Len(f[i - 1]) \in Nat
  BY <1>0, PrefixFacts
<1>x. PICK x \in Nat : x = Len(f[i - 1]) + 1 /\ x + 1 = Len(f[i - 1]) + 2
  BY <1>n
<1>1. Begins(f[i], E)
  <2>1. Len(s) \in i..Len(s)
    BY <1>0
  <2> QED  BY <1>0, <2>1, PrefixMonotone
<1>2. E[x] = Units(s[i])[1]
  <2>0. Len(f[i]) >= Len(f[i - 1]) + 1
    <3>1. CASE Single(s[i])
      BY <1>f, <1>n, <3>1
    <3>2. CASE ~Single(s[i])
      BY <1>f, <1>n, <3>2
    <3> QED  BY <3>1, <3>2
  <2>1. x \in 1..Len(f[i])
    BY <1>n, <1>x, <2>0
  <2> QED  BY <1>f, <1>x, <1>1, <2>1 DEF Begins
<1>3. ~Single(s[i]) => E[x + 1] = Units(s[i])[2]
  <2>1. ~Single(s[i]) => x + 1 \in 1..Len(f[i])
    BY <1>f, <1>n, <1>x
  <2> QED  BY <1>f, <1>x, <1>1, <2>1 DEF Begins
<1>4. s[i] \in Char
  BY PrefixFacts
<1> HIDE DEF E
<1>5. Single(s[i]) => E[x] = s[i] /\ ~IsHigh(E[x]) /\ ~IsLow(E[x])
  BY <1>2, <1>4, UnitsAre
<1>6. ASSUME ~Single(s[i]) PROVE IsHigh(E[x]) /\ IsLow(E[x + 1]) /\ Join(E[x], E[x + 1]) = s[i]
  <2>1. PICK h, l \in Unit : Units(s[i]) = <<h, l>> /\ IsHigh(h) /\ IsLow(l) /\ Join(h, l) = s[i]
    BY <1>4, <1>6, UnitsAre
  <2>2. E[x] = h /\ E[x + 1] = l
    BY <1>2, <1>3, <1>6, <2>1
  <2> QED  BY <2>1, <2>2
<1> QED  BY <1>x, <1>5, <1>6 DEF E

LEMMA Assoc ==
  ASSUME NEW a \in Seq(Nat), NEW b \in Seq(Nat), NEW c \in Seq(Nat)
  PROVE  (a \o b) \o c = a \o (b \o c)
BY ConcatAssociative

\* Decoding what begins with the encoding of k characters gives these, and U+FFFD if
\* half a pair follows.
LEMMA DecodeCut ==
  ASSUME NEW s \in Seq(Char), NEW f, PrefixCodes(s, f), NEW k \in 0..Len(s),
         NEW u \in Seq(Unit), Begins(u, f[Len(s)]),
         \/ Len(u) = Len(f[k])
         \/ k < Len(s) /\ ~Single(s[k + 1]) /\ Len(u) = Len(f[k]) + 1
  PROVE  Decode(u) = IF Len(u) = Len(f[k]) THEN SubSeq(s, 1, k) ELSE Append(SubSeq(s, 1, k), Replacement)
<1> DEFINE E == f[Len(s)]
<1>0. PICK L \in Nat, K \in Nat : L = Len(u) /\ K = Len(f[k]) /\ (L = K \/ L = K + 1) /\ K <= L
  <2>1. Len(u) \in Nat /\ Len(f[k]) \in Nat
    BY PrefixFacts
  <2>2. Len(u) = Len(f[k]) \/ Len(u) = Len(f[k]) + 1
    OBVIOUS
  <2> QED  BY <2>1, <2>2
<1> DEFINE half == <<Replacement>>
<1>1. PICK d : Decode(u) = d[1] /\ \A i \in 1..(L + 2) : d[i] = DecodeStep(u, half, d, i)
  BY <1>0, DecodeIs DEF Decode
<1>2. \A x \in 1..L : u[x] = E[x]
  BY <1>0 DEF Begins
<1>3. PICK tail : tail = IF L = K THEN <<>> ELSE <<Replacement>>
  OBVIOUS
<1>4. d[K + 1] = tail
  <2>1. CASE L = K
    <3>1. K + 1 \in 1..(L + 2) /\ K + 1 > L
      BY <2>1
    <3> QED  BY <1>0, <1>1, <1>3, <2>1, <3>1 DEF DecodeStep
  <2>2. CASE L # K
    <3>1. L = K + 1 /\ k < Len(s) /\ ~Single(s[k + 1])
      BY <1>0, <2>2
    <3>2. k + 1 \in 1..Len(s) /\ (k + 1) - 1 = k
      BY <3>1
    <3>3. IsHigh(E[K + 1])
      BY <1>0, <3>1, <3>2, UnitsAt
    <3>4. L \in 1..(L + 2) /\ ~(L > L) /\ ~(L < L) /\ L + 1 \in 1..(L + 2) /\ L + 1 > L /\ L \in 1..L
      BY <3>1
    <3>5. d[L + 1] = <<>>
      BY <1>0, <1>1, <3>4 DEF DecodeStep
    <3>6. IsHigh(u[L])
      BY <1>2, <3>1, <3>3, <3>4
    <3>7. d[L] = <<Replacement>> \o <<>>
      BY <1>0, <1>1, <3>4, <3>5, <3>6 DEF DecodeStep, PairAt, Alone
    <3>8. <<Replacement>> \o <<>> = <<Replacement>>
      OBVIOUS
    <3> QED  BY <1>3, <2>2, <3>1, <3>7, <3>8
  <2> QED  BY <2>1, <2>2
\* A character is decoded from its units.
<1>5. ASSUME NEW i \in 1..k PROVE d[Len(f[i - 1]) + 1] = <<s[i]>> \o d[Len(f[i]) + 1]
  <2>1. i \in 1..Len(s) /\ i \in 0..Len(s) /\ i - 1 \in 0..Len(s)
    OBVIOUS
  <2>2. Len(f[i]) <= K
    <3>1. k \in i..Len(s)
      OBVIOUS
    <3>2. Begins(f[i], f[k])
      BY <2>1, <3>1, PrefixMonotone
    <3> QED  BY <1>0, <3>2 DEF Begins
  <2>3. PICK x \in Nat : x = Len(f[i - 1]) + 1 /\ x >= 1
    BY <2>1, PrefixFacts
  <2>4. /\ Len(f[i]) \in Nat /\ (Single(s[i]) => Len(f[i]) = x)
        /\ ~Single(s[i]) => Len(f[i]) = x + 1
    <3>1. /\ Len(f[i]) \in Nat /\ Len(f[i - 1]) \in Nat
          /\ Len(f[i]) = Len(f[i - 1]) + (IF Single(s[i]) THEN 1 ELSE 2)
      BY <2>1, PrefixFacts
    <3>2. CASE Single(s[i])
      BY <2>3, <3>1, <3>2
    <3>3. CASE ~Single(s[i])
      BY <2>3, <3>1, <3>3
    <3> QED  BY <3>1, <3>2, <3>3
  <2>5. CASE Single(s[i])
    <3>0. x <= L
      BY <1>0, <2>2, <2>4, <2>5
    <3>1. x \in 1..L /\ x \in 1..(L + 2) /\ ~(x > L)
      BY <2>3, <3>0
    <3>2. u[x] = s[i] /\ ~IsHigh(u[x]) /\ ~IsLow(u[x])
      BY <1>2, <2>1, <2>3, <2>5, <3>1, UnitsAt
    <3>3. d[x] = <<s[i]>> \o d[x + 1]
      BY <1>0, <1>1, <3>1, <3>2 DEF DecodeStep, PairAt, Alone
    <3> QED  BY <2>3, <2>4, <2>5, <3>3
  <2>6. CASE ~Single(s[i])
    <3>0. x + 1 <= L
      BY <1>0, <2>2, <2>4, <2>6
    <3>1. x \in 1..L /\ x + 1 \in 1..L /\ x \in 1..(L + 2) /\ ~(x > L) /\ x < L
      BY <2>3, <3>0
    <3>2. IsHigh(u[x]) /\ IsLow(u[x + 1]) /\ Join(u[x], u[x + 1]) = s[i]
      <4>1. IsHigh(E[x]) /\ IsLow(E[x + 1]) /\ Join(E[x], E[x + 1]) = s[i]
        BY <2>1, <2>3, <2>6, UnitsAt
      <4>2. u[x] = E[x] /\ u[x + 1] = E[x + 1]
        BY <1>2, <3>1
      <4> QED  BY <4>1, <4>2
    <3>3. d[x] = <<s[i]>> \o d[x + 2]
      BY <1>0, <1>1, <3>1, <3>2 DEF DecodeStep, PairAt
    <3>4. Len(f[i]) + 1 = x + 2
      BY <2>4, <2>6
    <3> QED  BY <2>3, <3>3, <3>4
  <2> QED  BY <2>5, <2>6
<1>6. s \in Seq(Nat) /\ tail \in Seq(Nat)
  <2>1. Char \subseteq Nat
    BY UnitsAre
  <2>2. Replacement \in Nat
    BY SMT DEF Replacement
  <2>3. s \in Seq(Nat)
    BY <2>1, SeqMonotonic
  <2>4. tail \in Seq(Nat)
    BY <1>3, <2>2
  <2> QED  BY <2>3, <2>4
<1>7. \A i \in 1..(k + 1) : SubSeq(s, i, k) \in Seq(Nat)
  <2> SUFFICES ASSUME NEW i \in 1..(k + 1) PROVE SubSeq(s, i, k) \in Seq(Nat)
    OBVIOUS
  <2>1. \A j \in i..k : s[j] \in Nat
    BY <1>6
  <2>2. i \in Int /\ k \in Int
    OBVIOUS
  <2> QED  BY <2>1, <2>2, SubSeqProperties
<1> DEFINE T == {m \in Nat : m <= k => d[Len(f[k - m]) + 1] = SubSeq(s, k - m + 1, k) \o tail}
<1>8. 0 \in T
  <2>1. k - 0 = k /\ k + 1 \in Int /\ k \in Int /\ k < k + 1
    OBVIOUS
  <2>2. SubSeq(s, k + 1, k) = <<>>
    BY <2>1, SubSeqEmpty
  <2>3. <<>> \o tail = tail
    BY <1>6, ConcatEmptySeq
  <2> QED  BY <1>0, <1>4, <2>1, <2>2, <2>3
<1>9. ASSUME NEW m \in Nat, m \in T PROVE m + 1 \in T
  <2>1. CASE ~(m + 1 <= k)
    BY <2>1
  <2>2. CASE m + 1 <= k
    <3>1. PICK i \in 1..k : i = k - m /\ i - 1 = k - (m + 1) /\ k - (m + 1) + 1 = i
      BY <2>2
    <3>2. d[Len(f[i]) + 1] = SubSeq(s, i + 1, k) \o tail
      BY <1>9, <2>2, <3>1
    <3>3. d[Len(f[i - 1]) + 1] = <<s[i]>> \o (SubSeq(s, i + 1, k) \o tail)
      BY <1>5, <3>2
    <3>4. <<s[i]>> \in Seq(Nat) /\ SubSeq(s, i + 1, k) \in Seq(Nat)
      <4>1. s[i] \in Nat /\ i + 1 \in 1..(k + 1)
        BY <1>6
      <4> QED  BY <1>7, <4>1
    <3>5. <<s[i]>> \o (SubSeq(s, i + 1, k) \o tail) = (<<s[i]>> \o SubSeq(s, i + 1, k)) \o tail
      <4>1. PICK a, b, c \in Seq(Nat) : a = <<s[i]>> /\ b = SubSeq(s, i + 1, k) /\ c = tail
        BY <1>6, <3>4
      <4>2. (a \o b) \o c = a \o (b \o c)
        BY Assoc
      <4> QED  BY <4>1, <4>2
    <3>6. SubSeq(s, i, k) = <<s[i]>> \o SubSeq(s, i + 1, k)
      <4>1. i \in 1..Len(s) /\ k \in i..Len(s)
        OBVIOUS
      <4> QED  BY <1>6, <4>1, SubSeqRecursiveFirst
    <3>7. d[Len(f[i - 1]) + 1] = SubSeq(s, i, k) \o tail
      BY <3>3, <3>5, <3>6
    <3> QED  BY <3>1, <3>7
  <2> QED  BY <2>1, <2>2
<1>10. k \in T
  <2> HIDE DEF T
  <2>1. \A m \in Nat : m \in T
    BY <1>8, <1>9, Induction
  <2> QED  BY <2>1
<1>11. d[1] = SubSeq(s, 1, k) \o tail
  <2>1. k - k = 0 /\ k - k + 1 = 1 /\ k <= k
    OBVIOUS
  <2>2. Len(f[0]) + 1 = 1
    BY DEF PrefixCodes
  <2> QED  BY <1>10, <2>1, <2>2
<1>12. SubSeq(s, 1, k) \in Seq(Nat)
  BY <1>7
<1>13. SubSeq(s, 1, k) \o <<>> = SubSeq(s, 1, k)
  BY <1>12, ConcatEmptySeq
<1>14. Append(SubSeq(s, 1, k), Replacement) = SubSeq(s, 1, k) \o <<Replacement>>
  <2>1. Replacement \in Nat
    BY SMT DEF Replacement
  <2> QED  BY <1>12, <2>1, AppendIsConcat
<1> QED  BY <1>0, <1>1, <1>3, <1>11, <1>13, <1>14

-----------------------------------------------------------------------------
(* How much of a text fits *)

LEMMA PrefixIs ==
  ASSUME NEW s \in Seq(Char), NEW i \in 0..Len(s)
  PROVE  /\ SubSeq(s, 1, i) \in Seq(Char) /\ Len(SubSeq(s, 1, i)) = i
         /\ \A x \in 1..i : SubSeq(s, 1, i)[x] = s[x]
<1>1. 1 \in Int /\ i \in Int /\ \A x \in 1..i : s[x] \in Char
  OBVIOUS
<1>2. /\ SubSeq(s, 1, i) \in Seq(Char)
      /\ Len(SubSeq(s, 1, i)) = IF 1 <= i THEN i - 1 + 1 ELSE 0
      /\ \A x \in 1..(i - 1 + 1) : SubSeq(s, 1, i)[x] = s[1 + x - 1]
  BY <1>1, SubSeqProperties
<1> QED  BY <1>2

\* The positions, up to i, of characters that take a pair.
Doubles(s, i) == {x \in 1..i : ~Single(s[x])}

\* UnitLen counts the units of a prefix.
LEMMA UnitLenIs ==
  ASSUME NEW s \in Seq(Char), NEW f, PrefixCodes(s, f), NEW i \in 0..Len(s)
  PROVE  UnitLen(SubSeq(s, 1, i)) = Len(f[i])
<1>0. Len(s) \in Nat
  OBVIOUS
<1> DEFINE T == {n \in Nat : n <= Len(s) => /\ IsFiniteSet(Doubles(s, n))
                                            /\ Len(f[n]) = n + Cardinality(Doubles(s, n))}
<1>1. 0 \in T
  <2>1. Doubles(s, 0) = {}
    BY DEF Doubles
  <2>2. Len(f[0]) = 0
    BY DEF PrefixCodes
  <2>3. IsFiniteSet({}) /\ Cardinality({}) = 0
    BY FS_EmptySet
  <2>4. IsFiniteSet(Doubles(s, 0)) /\ Cardinality(Doubles(s, 0)) = 0
    BY <2>1, <2>3
  <2>5. Len(f[0]) = 0 + Cardinality(Doubles(s, 0))
    BY <2>2, <2>4
  <2> QED  BY <2>4, <2>5
<1>2. ASSUME NEW n \in Nat, n \in T PROVE n + 1 \in T
  <2>1. CASE ~(n + 1 <= Len(s))
    BY <2>1
  <2>2. CASE n + 1 <= Len(s)
    <3>1. n + 1 \in 1..Len(s) /\ (n + 1) - 1 = n /\ n <= Len(s) /\ n \in 0..Len(s)
      BY <1>0, <2>2
    <3>2. IsFiniteSet(Doubles(s, n)) /\ Len(f[n]) = n + Cardinality(Doubles(s, n))
      BY <1>2, <3>1
    <3>3. PICK c \in Nat : c = Cardinality(Doubles(s, n))
      BY <3>2, FS_CardinalityType
    <3>4. Len(f[n + 1]) = Len(f[n]) + (IF Single(s[n + 1]) THEN 1 ELSE 2)
      <4>1. \A j \in 1..Len(s) : Len(f[j]) = Len(f[j - 1]) + (IF Single(s[j]) THEN 1 ELSE 2)
        BY PrefixFacts
      <4> QED  BY <3>1, <4>1
    <3>5. CASE Single(s[n + 1])
      <4>1. Doubles(s, n + 1) = Doubles(s, n)
        BY <3>5 DEF Doubles
      <4>2. Len(f[n + 1]) = (n + 1) + c
        BY <3>2, <3>3, <3>4, <3>5
      <4> QED  BY <3>2, <3>3, <4>1, <4>2
    <3>6. CASE ~Single(s[n + 1])
      <4>1. Doubles(s, n + 1) = Doubles(s, n) \cup {n + 1} /\ n + 1 \notin Doubles(s, n)
        BY <3>6 DEF Doubles
      <4>2. IsFiniteSet(Doubles(s, n + 1)) /\ Cardinality(Doubles(s, n + 1)) = c + 1
        BY <3>2, <3>3, <4>1, FS_AddElement
      <4>3. Len(f[n + 1]) = (n + 1) + (c + 1)
        BY <3>2, <3>3, <3>4, <3>6
      <4> QED  BY <4>2, <4>3
    <3> QED  BY <3>5, <3>6
  <2> QED  BY <2>1, <2>2
<1>3. Len(f[i]) = i + Cardinality(Doubles(s, i))
  <2>1. \A n \in Nat : n \in T
    <3> HIDE DEF T
    <3> QED  BY <1>1, <1>2, Induction
  <2>2. i \in Nat /\ i <= Len(s)
    BY <1>0
  <2> QED  BY <2>1, <2>2
<1>4. DOMAIN SubSeq(s, 1, i) = 1..i /\ Len(SubSeq(s, 1, i)) = i
  BY PrefixIs
<1>5. {x \in DOMAIN SubSeq(s, 1, i) : ~Single(SubSeq(s, 1, i)[x])} = Doubles(s, i)
  BY <1>4, PrefixIs DEF Doubles
<1> QED  BY <1>3, <1>4, <1>5 DEF UnitLen

\* Fitting is the prefix of some length k: its units fit, those of the next do not.
LEMMA FittingIs ==
  ASSUME NEW s \in Seq(Char), NEW f, PrefixCodes(s, f)
  PROVE  \E k \in 0..Len(s) : /\ Fitting(s) = SubSeq(s, 1, k)
                              /\ Len(f[k]) < LineLen
                              /\ k < Len(s) => Len(f[k + 1]) >= LineLen
<1>0. Len(s) \in Nat /\ LineLen \in Nat \ {0}
  BY Lengths
<1> DEFINE P == {SubSeq(s, 1, k) : k \in 0..Len(s)}
           Fits(p) == /\ UnitLen(p) < LineLen
                      /\ Len(p) < Len(s) => UnitLen(SubSeq(s, 1, Len(p) + 1)) >= LineLen
<1>1. \A k \in 0..Len(s) :
        Fits(SubSeq(s, 1, k)) <=> Len(f[k]) < LineLen /\ (k < Len(s) => Len(f[k + 1]) >= LineLen)
  <2> SUFFICES ASSUME NEW k \in 0..Len(s)
               PROVE  Fits(SubSeq(s, 1, k)) <=> /\ Len(f[k]) < LineLen
                                                /\ k < Len(s) => Len(f[k + 1]) >= LineLen
    OBVIOUS
  <2>1. Len(SubSeq(s, 1, k)) = k /\ UnitLen(SubSeq(s, 1, k)) = Len(f[k])
    BY PrefixIs, UnitLenIs
  <2>2. k < Len(s) => k + 1 \in 0..Len(s)
    BY <1>0
  <2>3. k < Len(s) => UnitLen(SubSeq(s, 1, k + 1)) = Len(f[k + 1])
    BY <2>2, UnitLenIs
  <2> QED  BY <2>1, <2>3
<1> HIDE DEF Fits
<1>2. \E k \in 0..Len(s) : Len(f[k]) < LineLen /\ (k < Len(s) => Len(f[k + 1]) >= LineLen)
  <2> DEFINE Over == {j \in 0..Len(s) : Len(f[j]) >= LineLen}
  <2>n. \A j \in 0..Len(s) : Len(f[j]) \in Nat
    BY PrefixFacts
  <2>1. CASE Over = {}
    <3>1. Len(s) \in 0..Len(s) /\ ~(Len(s) < Len(s))
      BY <1>0
    <3>2. ~(Len(f[Len(s)]) >= LineLen)
      BY <2>1, <3>1
    <3>3. Len(f[Len(s)]) < LineLen
      BY <1>0, <2>n, <3>1, <3>2
    <3> QED  BY <3>1, <3>3
  <2>2. CASE Over # {}
    <3>1. Over \subseteq Nat
      BY <1>0
    <3>2. PICK j \in Over : \A y \in Over : j <= y
      <4> HIDE DEF Over
      <4> QED  BY <2>2, <3>1, Least
    <3>3. j # 0
      <4>1. Len(f[0]) = 0
        BY DEF PrefixCodes
      <4> QED  BY <1>0, <3>2, <4>1
    <3>4. PICK k \in 0..Len(s) : k = j - 1 /\ k + 1 = j /\ ~(j <= k)
      BY <1>0, <3>2, <3>3
    <3>5. k \notin Over
      BY <3>2, <3>4
    <3>6. ~(Len(f[k]) >= LineLen)
      BY <3>5
    <3>7. Len(f[k]) < LineLen
      BY <1>0, <2>n, <3>6
    <3>8. Len(f[k + 1]) >= LineLen
      BY <3>2, <3>4
    <3> QED  BY <3>7, <3>8
  <2> QED  BY <2>1, <2>2
<1>3. \E p \in P : Fits(p)
  BY <1>1, <1>2
<1>4. Fitting(s) = CHOOSE p \in P : Fits(p)
  BY DEF Fitting, Fits
<1>5. Fitting(s) \in P /\ Fits(Fitting(s))
  <2> HIDE DEF P
  <2> QED  BY <1>3, <1>4
<1>6. PICK k \in 0..Len(s) : Fitting(s) = SubSeq(s, 1, k)
  BY <1>5
<1>7. Fits(SubSeq(s, 1, k))
  BY <1>5, <1>6
<1> QED  BY <1>1, <1>6, <1>7

\* What the backend reads from a wide buffer is the text, cut to the characters that
\* fit, and U+FFFD if a pair was cut in half.
LEMMA WideRead ==
  ASSUME NEW s \in Seq(Char)
  PROVE  LET p == Fitting(s)
         IN  BackendWide(Fill(Encode(s), LineLen)) =
               IF Len(p) < Len(s) /\ UnitLen(p) < LineLen - 1 THEN Append(p, Replacement) ELSE p
<1>1. PICK f : PrefixCodes(s, f) /\ Encode(s) = f[Len(s)]
  BY EncodeIs
<1>2. PICK k \in 0..Len(s) : /\ Fitting(s) = SubSeq(s, 1, k)
                             /\ Len(f[k]) < LineLen
                             /\ k < Len(s) => Len(f[k + 1]) >= LineLen
  BY <1>1, FittingIs
<1>3. Len(Fitting(s)) = k /\ UnitLen(Fitting(s)) = Len(f[k])
  BY <1>1, <1>2, PrefixIs, UnitLenIs
<1>0. Len(s) \in Nat /\ LineLen \in Nat /\ LineLen # 0
  BY Lengths
<1>4. PICK m \in Nat, E \in Nat : m = Len(f[k]) /\ E = Len(f[Len(s)]) /\ m <= E
  <2>1. Len(s) \in 0..Len(s) /\ Len(s) \in k..Len(s)
    BY <1>0
  <2>2. Begins(f[k], f[Len(s)])
    BY <1>1, <2>1, PrefixMonotone
  <2>3. Len(f[k]) \in Nat /\ Len(f[Len(s)]) \in Nat
    BY <1>1, <2>1, PrefixFacts
  <2> QED  BY <2>2, <2>3 DEF Begins
\* With more characters to come, the next one's units reach the end of the buffer.
<1>5. k < Len(s) => /\ Len(f[k + 1]) = m + (IF Single(s[k + 1]) THEN 1 ELSE 2)
                    /\ Len(f[k + 1]) <= E /\ Len(f[k + 1]) >= LineLen
  <2> SUFFICES ASSUME k < Len(s)
               PROVE  /\ Len(f[k + 1]) = m + (IF Single(s[k + 1]) THEN 1 ELSE 2)
                      /\ Len(f[k + 1]) <= E /\ Len(f[k + 1]) >= LineLen
    OBVIOUS
  <2>1. k + 1 \in 1..Len(s) /\ (k + 1) - 1 = k /\ k + 1 \in 0..Len(s) /\ Len(s) \in (k + 1)..Len(s)
    BY <1>0
  <2>2. Len(f[k + 1]) = Len(f[k]) + (IF Single(s[k + 1]) THEN 1 ELSE 2)
    <3>1. \A j \in 1..Len(s) : Len(f[j]) = Len(f[j - 1]) + (IF Single(s[j]) THEN 1 ELSE 2)
      BY <1>1, PrefixFacts
    <3> QED  BY <2>1, <3>1
  <2>3. Begins(f[k + 1], f[Len(s)])
    BY <1>1, <2>1, PrefixMonotone
  <2> QED  BY <1>2, <1>4, <2>2, <2>3 DEF Begins
<1>6. PICK n \in Nat : /\ n <= E /\ n <= LineLen - 1 /\ (n = E \/ n = LineLen - 1)
                       /\ n = m <=> ~(k < Len(s) /\ m < LineLen - 1)
                       /\ n = m \/ (k < Len(s) /\ ~Single(s[k + 1]) /\ n = m + 1)
  <2>1. CASE k < Len(s)
    <3>1. PICK w \in Nat : w = Len(f[k + 1]) /\ w <= E /\ w >= LineLen
      BY <1>0, <1>4, <1>5, <2>1
    <3>2. CASE Single(s[k + 1])
      <4>1. w = m + 1
        BY <1>5, <2>1, <3>1, <3>2
      <4>2. m = LineLen - 1
        BY <1>0, <1>2, <1>4, <3>1, <4>1
      <4> QED  BY <1>4, <4>2
    <3>3. CASE ~Single(s[k + 1])
      <4>1. w = m + 2
        BY <1>5, <2>1, <3>1, <3>3
      <4>2. m = LineLen - 1 \/ m + 1 = LineLen - 1
        BY <1>0, <1>2, <1>4, <3>1, <4>1
      <4>3. CASE m = LineLen - 1
        BY <1>4, <4>3
      <4>4. CASE m + 1 = LineLen - 1
        <5>1. m + 1 <= E
          BY <3>1, <4>1, <1>4
        <5>2. m + 1 \in Nat /\ m + 1 # m /\ m < LineLen - 1 /\ m + 1 <= LineLen - 1
          BY <4>4, <1>0
        <5> QED  BY <2>1, <3>3, <4>4, <5>1, <5>2
      <4> QED  BY <4>2, <4>3, <4>4
    <3> QED  BY <3>2, <3>3
  <2>2. CASE ~(k < Len(s))
    <3>1. k = Len(s)
      BY <1>0, <2>2
    <3>2. m = E /\ m < LineLen
      BY <1>2, <1>4, <3>1
    <3>3. m <= LineLen - 1
      BY <1>0, <3>2
    <3> QED  BY <2>2, <3>2, <3>3
  <2> QED  BY <2>1, <2>2
<1>7. PICK u : u = BeforeNul(Fill(Encode(s), LineLen))
  OBVIOUS
<1>8. u \in Seq(Unit) /\ Len(u) = n /\ \A x \in 1..n : u[x] = f[Len(s)][x]
  <2>1. 0 \notin Unit /\ LineLen \in Nat \ {0} /\ Encode(s) \in Seq(Unit) /\ Len(Encode(s)) = E
    BY <1>1, <1>4, UnitIs, Lengths, EncodeType
  <2>2. n <= Len(Encode(s)) /\ n <= LineLen - 1 /\ (n = Len(Encode(s)) \/ n = LineLen - 1)
    BY <1>6, <2>1
  <2>3. u \in Seq(Unit) /\ Len(u) = n /\ \A x \in 1..n : u[x] = Encode(s)[x]
    BY <1>7, <2>1, <2>2, FilledIs
  <2> QED  BY <1>1, <2>3
<1>9. Begins(u, f[Len(s)])
  BY <1>4, <1>6, <1>8 DEF Begins
<1>10. Decode(u) = IF n = m THEN SubSeq(s, 1, k) ELSE Append(SubSeq(s, 1, k), Replacement)
  BY <1>1, <1>4, <1>6, <1>8, <1>9, DecodeCut
<1>11. BackendWide(Fill(Encode(s), LineLen)) = Decode(u)
  BY <1>7 DEF BackendWide, utf16BufToString
<1> QED  BY <1>2, <1>3, <1>4, <1>6, <1>10, <1>11

\* What the backend prints of a wide buffer is the text, cut to the characters that
\* fit; the one character more that is possible is the U+FFFD left of a pair cut in
\* half.
THEOREM WideTextSurvives == Spec => []WideSurvives
<1>1. EvInv => WideSurvives
  <2> SUFFICES ASSUME EvInv, ev # NoEvent
               PROVE  LET p == Fitting(text)
                      IN  BackendJSON(ev).line =
                            IF Len(p) < Len(text) /\ UnitLen(p) < LineLen - 1
                            THEN Append(p, Replacement) ELSE p
    BY DEF WideSurvives
  <2>1. text \in Seq(Char)
    BY DEF EvInv
  <2>2. ev.line = Fill(Encode(text), LineLen)
    BY DEF EvInv, AgentEvent, KernelEvent, StringZU16
  <2>3. BackendJSON(ev).line = BackendWide(Fill(Encode(text), LineLen))
    BY <2>2 DEF BackendJSON
  <2> QED  BY <2>1, <2>3, WideRead
<1> QED  BY <1>1, EventInvariant, PTL

============================================================================
