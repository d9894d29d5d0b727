--------------------------- MODULE MidiPathProofs ---------------------------
(***************************************************************************)
(* Numbers in MIDI messages, for every number that fits; and the way of    *)
(* the messages: however transfers cut the bytes of a device, its messages *)
(* are received in their order, and those of the application arrive.       *)
(*                                                                         *)
(* Sequences and the functions over them are recursive; where a fact about *)
(* them is for every length, the set of the lengths for which it holds is  *)
(* shown to be Nat by Induct, or that of the sequences by SeqInduct.       *)
(***************************************************************************)
EXTENDS MidiPathProps, TLAPS, WellFoundedInduction, SequenceTheorems

-----------------------------------------------------------------------------
(* Numbers in bytes.                                                       *)

\* 14 bits in two bytes of seven.
LEMMA SevenBits ==
    ASSUME NEW v \in Nat, v < 16384
    PROVE  From2U7(To2U7(v)) = v
<1>1. v \div 128 \in 0 .. 127 /\ v = ((v \div 128) * 128) + (v % 128)
  BY SMTT(20)
<1>2. (v \div 128) % 256 = v \div 128
  BY <1>1, SMTT(20)
<1>3. From2U7(To2U7(v)) = (((v \div 128) % 256) * 128) + (v % 128)
  BY SMTT(20) DEF From2U7, To2U7
<1>4. QED
  BY <1>1, <1>2, <1>3, SMTT(20)

\* 16 bits in four bytes of four.
LEMMA FourBits ==
    ASSUME NEW v \in Nat, v < 65536
    PROVE  From4U4(To4U4(v)) = v
<1> DEFINE a == v \div 4096
           b == v \div 256
           c == v \div 16
<1>1. a \in 0 .. 15 /\ a % 16 = a
  BY SMTT(20)
<1>2. /\ b = (a * 16) + (b % 16) /\ c = (b * 16) + (c % 16) /\ v = (c * 16) + (v % 16)
      /\ b \in Nat /\ c \in Nat
  BY SMTT(30)
<1>3. From4U4(To4U4(v)) = ((a % 16) * 4096) + ((b % 16) * 256) + ((c % 16) * 16) + (v % 16)
  BY SMTT(20) DEF From4U4, To4U4
<1> HIDE DEF a, b, c
<1>4. QED
  BY <1>1, <1>2, <1>3, SMTT(20)

-----------------------------------------------------------------------------
(* The programs of a PODxt.                                                *)

LEMMA PatchParts ==
    ASSUME NEW v \in Nat, IsPatch(v)
    PROVE  /\ Bank(v) \in 0 .. 2 /\ Patch(v) \in 0 .. 127 /\ v = (256 * Bank(v)) + Patch(v)
  BY SMTT(20) DEF IsPatch, Bank, Patch

\* The banks by halves, and back.
LEMMA PatchSurvives ==
    ASSUME NEW v \in Nat, IsPatch(v)
    PROVE  IsMidiPatch(PatchToMidi(v)) /\ PatchFromMidi(PatchToMidi(v)) = v
<1> DEFINE b == Bank(v)
           p == Patch(v)
           m == PatchToMidi(v)
<1>1. b \in {0, 1, 2} /\ p \in Nat /\ p < 128 /\ v = (256 * b) + p
  BY PatchParts
<1>2. m = IF p < 64 THEN (64 * b) + p ELSE (64 * b) + p + 128
  BY DEF PatchToMidi
<1> HIDE DEF b, p, m
<1>3. CASE p < 64
  <2>1. m = (64 * b) + p /\ m < 192 /\ m \in Nat
    BY <1>1, <1>2, <1>3
  <2>2. m \div 64 = b /\ m % 64 = p
    BY <1>1, <1>3, <2>1, SMTT(20)
  <2>3. PatchFromMidi(m) = v
    BY <1>1, <2>1, <2>2 DEF PatchFromMidi
  <2>4. QED
    BY <2>1, <2>3 DEF IsMidiPatch, m
<1>4. CASE ~(p < 64)
  <2>1. m = (64 * b) + p + 128 /\ ~(m < 192) /\ m < 384 /\ m \in Nat
    BY <1>1, <1>2, <1>4
  <2>2. (m - 192) \div 64 = b /\ m % 64 = p - 64
    BY <1>1, <1>4, <2>1, SMTT(20)
  <2>3. PatchFromMidi(m) = v
    BY <1>1, <2>1, <2>2 DEF PatchFromMidi
  <2>4. QED
    BY <2>1, <2>3 DEF IsMidiPatch, m
<1>5. QED
  BY <1>3, <1>4

\* Every number of a dump is a program's.
LEMMA MidiPatchSurvives ==
    ASSUME NEW m \in Nat, IsMidiPatch(m)
    PROVE  PatchToMidi(PatchFromMidi(m)) = m
<1> DEFINE v == PatchFromMidi(m)
<1>1. m < 384
  BY DEF IsMidiPatch
<1>2. CASE m < 192
  <2> DEFINE b == m \div 64
             p == m % 64
  <2>1. b \in {0, 1, 2} /\ p \in Nat /\ p < 64 /\ m = (64 * b) + p
    BY <1>2, SMTT(20)
  <2>2. v = (256 * b) + p
    BY <1>2 DEF PatchFromMidi
  <2> HIDE DEF b, p, v
  <2>3. v \div 256 = b /\ v % 256 = p
    BY <2>1, <2>2, SMTT(20)
  <2>4. PatchToMidi(v) = m
    BY <2>1, <2>3 DEF PatchToMidi, Bank, Patch
  <2>5. QED
    BY <2>4 DEF v
<1>3. CASE ~(m < 192)
  <2> DEFINE b == (m - 192) \div 64
             p == m % 64
  <2>1. b \in {0, 1, 2} /\ p \in Nat /\ p < 64 /\ m = (64 * b) + p + 192
    BY <1>1, <1>3, SMTT(20)
  <2>2. v = (256 * b) + 64 + p
    BY <1>3 DEF PatchFromMidi
  <2> HIDE DEF b, p, v
  <2>3. v \div 256 = b /\ v % 256 = p + 64
    BY <2>1, <2>2, SMTT(20)
  <2>4. PatchToMidi(v) = m
    BY <2>1, <2>3 DEF PatchToMidi, Bank, Patch
  <2>5. QED
    BY <2>4 DEF v
<1>4. QED
  BY <1>2, <1>3

\* The bank from one on, and back.
LEMMA SavedSurvives ==
    ASSUME NEW v \in Nat, IsPatch(v)
    PROVE  IsMidiSaved(SavedToMidi(v)) /\ SavedFromMidi(SavedToMidi(v)) = v
<1> DEFINE b == Bank(v)
           p == Patch(v)
           m == SavedToMidi(v)
<1>1. b \in {0, 1, 2} /\ p \in Nat /\ p < 128 /\ v = (256 * b) + p
  BY PatchParts
<1>2. m = ((b + 1) * 128) + p
  BY DEF SavedToMidi, From2U7
<1> HIDE DEF b, p, m
<1>3. m \div 128 = b + 1 /\ m % 128 = p
  BY <1>1, <1>2, SMTT(20)
<1>4. (m \div 128) % 256 = b + 1
  BY <1>1, <1>3
<1>5. IsMidiSaved(m)
  BY <1>1, <1>4 DEF IsMidiSaved
<1>6. SavedFromMidi(m) = v
  BY <1>1, <1>3, <1>4 DEF SavedFromMidi
<1>7. QED
  BY <1>5, <1>6 DEF m

-----------------------------------------------------------------------------
(* Bytes in nibbles.                                                       *)

\* A patch of any length comes back from its nibbles.
LEMMA NibblesSurvive ==
    ASSUME NEW d \in Seq(Nat), \A i \in DOMAIN d : d[i] < 256
    PROVE  FromNibbles(ToNibbles(d)) = d
<1> DEFINE n == ToNibbles(d)
           k == Len(d)
<1>1. k \in Nat /\ DOMAIN d = 1 .. k /\ d = [i \in 1 .. k |-> d[i]]
      /\ \A i \in 1 .. k : d[i] \in Nat /\ d[i] < 256
  BY SMTT(20)
<1>2. DOMAIN n = 1 .. (2 * k) /\ n = [i \in 1 .. (2 * k) |->
          IF i % 2 = 1 THEN d[(i + 1) \div 2] \div 16 ELSE d[i \div 2] % 16]
  BY DEF ToNibbles
<1> HIDE DEF k
<1>3. Len(n) = 2 * k
  BY <1>1, <1>2
<1>4. (2 * k) \div 2 = k
  BY <1>1, SMTT(20)
<1>5. ASSUME NEW i \in 1 .. k
      PROVE  (((n[2 * i - 1]) * 16) % 256) + ((n[2 * i]) % 16) = d[i]
  <2>1. i \in Nat /\ 1 <= i /\ i <= k
    BY <1>1
  <2>2. 2 * i - 1 \in 1 .. (2 * k) /\ 2 * i \in 1 .. (2 * k)
    BY <1>1, <2>1
  <2>3. (2 * i - 1) % 2 = 1 /\ (2 * i) % 2 = 0
    BY <2>1, SMTT(20)
  <2>4. ((2 * i - 1) + 1) \div 2 = i /\ (2 * i) \div 2 = i
    BY <2>1, SMTT(20)
  <2>5. n[2 * i - 1] = d[i] \div 16 /\ n[2 * i] = d[i] % 16
    BY <1>2, <2>2, <2>3, <2>4
  <2> DEFINE x == d[i]
  <2>6. x \in Nat /\ x < 256
    BY <1>1
  <2> HIDE DEF x
  <2>7. (((x \div 16) * 16) % 256) + ((x % 16) % 16) = x
    BY <2>6, SMTT(20)
  <2>8. QED
    BY <2>5, <2>7 DEF x
<1>6. FromNibbles(n) = [i \in 1 .. Len(n) \div 2 |->
                           (((n[2 * i - 1]) * 16) % 256) + ((n[2 * i]) % 16)]
  BY DEF FromNibbles
<1> HIDE DEF n, k
<1>7. FromNibbles(n) = [i \in 1 .. k |-> d[i]]
  BY <1>3, <1>4, <1>5, <1>6
<1>8. QED
  BY <1>1, <1>7 DEF n

-----------------------------------------------------------------------------
(* The theorem about the numbers.                                          *)

\* Every number comes back as it was sent: of a program, in both numberings, and in
\* 7-bit and 4-bit bytes.
THEOREM NumbersComeBack == Spec => []NumbersSurvive
<1>1. ASSUME NEW v \in 0 .. 767, IsPatch(v)
      PROVE  /\ IsMidiPatch(PatchToMidi(v)) /\ PatchFromMidi(PatchToMidi(v)) = v
             /\ IsMidiSaved(SavedToMidi(v)) /\ SavedFromMidi(SavedToMidi(v)) = v
  BY <1>1, PatchSurvives, SavedSurvives
<1>2. ASSUME NEW m \in 0 .. 383 PROVE PatchToMidi(PatchFromMidi(m)) = m
  <2>1. m \in Nat /\ IsMidiPatch(m)
    BY DEF IsMidiPatch
  <2>2. QED
    BY <2>1, MidiPatchSurvives
<1>3. \A v \in {0, 1, 127, 128, 383, 16383} : From2U7(To2U7(v)) = v
  <2>1. \A v \in {0, 1, 127, 128, 383, 16383} : v \in Nat /\ v < 16384
    BY SMTT(20)
  <2>2. QED
    BY <2>1, SevenBits, SMTT(20)
<1>4. \A v \in {0, 15, 16, 4660, 65535} : From4U4(To4U4(v)) = v
  <2>1. \A v \in {0, 15, 16, 4660, 65535} : v \in Nat /\ v < 65536
    BY SMTT(20)
  <2>2. QED
    BY <2>1, FourBits, SMTT(20)
<1>5. NumbersSurvive
  BY <1>1, <1>2, <1>3, <1>4, SMTT(20) DEF NumbersSurvive
<1>6. QED
  BY <1>5, PTL

-----------------------------------------------------------------------------
(* Least numbers, induction, and the concatenation of sequences.           *)

LEMMA LessThan ==
    \E R : IsWellFoundedOn(R, Nat) /\ \A x, y \in Nat : y < x => <<y, x>> \in R
<1>1. \A x, y \in Nat : y < x => <<y, x>> \in OpToRel(<, Nat)
  BY DEF OpToRel
<1>2. QED
  BY <1>1, NatLessThanWellFounded, Zenon

LEMMA Least ==
    ASSUME NEW T, T \subseteq Nat, T # {}
    PROVE  \E x \in T : \A y \in T : x <= y
<1>1. PICK R : IsWellFoundedOn(R, Nat) /\ \A x, y \in Nat : y < x => <<y, x>> \in R
  BY LessThan
<1>2. \A x, y \in Nat : y < x => <<y, x>> \in R
  BY <1>1, Zenon
<1>3. PICK x \in T : \A y \in T : ~(<<y, x>> \in R)
  BY <1>1, WFMin, Zenon
<1>4. \A y \in T : ~(y < x)
  BY <1>2, <1>3, Zenon
<1>5. \A y \in T : x <= y
  BY <1>4, SMT
<1>6. QED
  BY <1>5

LEMMA Induct ==
    ASSUME NEW T, 0 \in T, \A n \in Nat : n \in T => n + 1 \in T
    PROVE  Nat \subseteq T
<1>1. SUFFICES ASSUME NEW k \in Nat, k \notin T PROVE FALSE
  OBVIOUS
<1> DEFINE U == {n \in Nat : n \notin T}
<1>2. U \subseteq Nat /\ U # {}
  BY <1>1
<1> HIDE DEF U
<1>3. PICK x \in U : \A y \in U : x <= y
  BY <1>2, Least
<1>4. x \in Nat /\ x \notin T /\ \A n \in Nat : n \notin T => x <= n
  BY <1>3 DEF U
<1>5. x # 0 /\ x - 1 \in Nat /\ (x - 1) + 1 = x
  BY <1>4
<1>6. x - 1 \in T
  BY <1>4, <1>5
<1>7. QED
  BY <1>4, <1>5, <1>6

-----------------------------------------------------------------------------
IsFlat(g, s, n) == g = [i \in 1 .. n |-> IF i = 1 THEN s[i] ELSE g[i - 1] \o s[i]]

LEMMA FlatStep ==
    ASSUME NEW s, NEW n \in Nat, NEW g, IsFlat(g, s, n)
    PROVE  \E h : IsFlat(h, s, n + 1)
<1> DEFINE h == [i \in 1 .. n + 1 |-> IF i <= n THEN g[i]
                                      ELSE IF n = 0 THEN s[1] ELSE g[n] \o s[n + 1]]
<1>1. g = [i \in 1 .. n |-> IF i = 1 THEN s[i] ELSE g[i - 1] \o s[i]]
  BY DEF IsFlat
<1>2. ASSUME NEW i \in 1 .. n + 1
      PROVE  h[i] = IF i = 1 THEN s[i] ELSE h[i - 1] \o s[i]
  <2>1. CASE i <= n
    <3>1. i \in 1 .. n /\ (i # 1 => i - 1 \in 1 .. n + 1 /\ i - 1 <= n)
      BY <2>1
    <3>2. h[i] = g[i] /\ (i # 1 => h[i - 1] = g[i - 1])
      BY <3>1
    <3>3. g[i] = IF i = 1 THEN s[i] ELSE g[i - 1] \o s[i]
      BY <1>1, <3>1
    <3>4. QED
      BY <3>2, <3>3
  <2>2. CASE ~(i <= n)
    <3>1. i = n + 1 /\ (i = 1 <=> n = 0)
      BY <2>2
    <3>2. h[i] = IF n = 0 THEN s[1] ELSE g[n] \o s[n + 1]
      BY <2>2
    <3>3. n # 0 => h[n] = g[n]
      OBVIOUS
    <3>4. QED
      BY <3>1, <3>2, <3>3
  <2>3. QED
    BY <2>1, <2>2
<1>3. h = [i \in 1 .. n + 1 |-> IF i = 1 THEN s[i] ELSE h[i - 1] \o s[i]]
  BY <1>2, Zenon
<1>4. QED
  BY <1>3, Zenon DEF IsFlat

LEMMA FlatExists == ASSUME NEW s, NEW n \in Nat PROVE \E g : IsFlat(g, s, n)
<1> DEFINE T == {k \in Nat : \E g : IsFlat(g, s, k)}
<1>1. 0 \in T
  <2> DEFINE g == [i \in 1 .. 0 |-> s]
  <2>1. g = [i \in 1 .. 0 |-> IF i = 1 THEN s[i] ELSE g[i - 1] \o s[i]]
    <3>1. \A i \in 1 .. 0 : FALSE
      OBVIOUS
    <3>2. QED
      BY <3>1, Zenon
  <2>2. QED
    BY <2>1, Zenon DEF IsFlat
<1>2. ASSUME NEW k \in Nat, k \in T PROVE k + 1 \in T
  BY <1>2, FlatStep
<1> HIDE DEF T
<1>3. Nat \subseteq T
  BY <1>1, <1>2, Induct
<1>4. QED
  BY <1>3 DEF T

LEMMA FlatIs ==
    ASSUME NEW s, Len(s) \in Nat \ {0}
    PROVE  \E g : IsFlat(g, s, Len(s)) /\ FlattenSeq(s) = g[Len(s)]
<1> DEFINE g == CHOOSE g : IsFlat(g, s, Len(s))
<1>1. IsFlat(g, s, Len(s))
  <2>1. \E f : IsFlat(f, s, Len(s))
    BY FlatExists
  <2>2. QED
    BY <2>1, Zenon
<1>2. FlattenSeq(s) = g[Len(s)]
  <2>1. Len(s) # 0
    OBVIOUS
  <2>2. QED
    BY <2>1, Zenon DEF FlattenSeq, IsFlat
<1>3. QED
  BY <1>1, <1>2

LEMMA FlatSame ==
    ASSUME NEW s, NEW t, NEW m \in Nat, NEW n \in Nat, m <= n,
           \A i \in 1 .. m : s[i] = t[i], NEW g, NEW h, IsFlat(g, s, m), IsFlat(h, t, n)
    PROVE  \A i \in 1 .. m : g[i] = h[i]
<1>1. /\ \A i \in 1 .. m : g[i] = IF i = 1 THEN s[i] ELSE g[i - 1] \o s[i]
      /\ \A i \in 1 .. n : h[i] = IF i = 1 THEN t[i] ELSE h[i - 1] \o t[i]
  <2>1. /\ g = [i \in 1 .. m |-> IF i = 1 THEN s[i] ELSE g[i - 1] \o s[i]]
        /\ h = [i \in 1 .. n |-> IF i = 1 THEN t[i] ELSE h[i - 1] \o t[i]]
    BY DEF IsFlat
  <2>2. QED
    BY <2>1, Zenon
<1> DEFINE T == {j \in Nat : j \in 1 .. m => g[j] = h[j]}
<1>2. 0 \in T
  OBVIOUS
<1>3. ASSUME NEW j \in Nat, j \in T PROVE j + 1 \in T
  <2> SUFFICES ASSUME j + 1 \in 1 .. m PROVE g[j + 1] = h[j + 1]
    OBVIOUS
  <2>1. j + 1 \in 1 .. m /\ j + 1 \in 1 .. n /\ (j + 1) - 1 = j /\ s[j + 1] = t[j + 1]
    OBVIOUS
  <2>2. /\ g[j + 1] = IF j + 1 = 1 THEN s[j + 1] ELSE g[j] \o s[j + 1]
        /\ h[j + 1] = IF j + 1 = 1 THEN t[j + 1] ELSE h[j] \o t[j + 1]
    BY <1>1, <2>1
  <2>3. j + 1 # 1 => g[j] = h[j]
    BY <1>3
  <2>4. QED
    BY <2>1, <2>2, <2>3
<1> HIDE DEF T
<1>4. Nat \subseteq T
  BY <1>2, <1>3, Induct
<1>5. QED
  BY <1>4 DEF T

LEMMA FlatEmpty == FlattenSeq(<<>>) = <<>>
  BY DEF FlattenSeq

LEMMA FlatLonger ==
    ASSUME NEW s, NEW t, NEW n \in Nat \ {0}, Len(s) = n, Len(t) = n + 1,
           \A i \in 1 .. n : s[i] = t[i]
    PROVE  FlattenSeq(t) = FlattenSeq(s) \o t[n + 1]
<1>1. PICK g : IsFlat(g, s, n) /\ FlattenSeq(s) = g[n]
  BY FlatIs
<1>2. PICK h : IsFlat(h, t, n + 1) /\ FlattenSeq(t) = h[n + 1]
  BY FlatIs
<1>3. h[n + 1] = h[n] \o t[n + 1]
  <2>1. h = [i \in 1 .. n + 1 |-> IF i = 1 THEN t[i] ELSE h[i - 1] \o t[i]]
    BY <1>2 DEF IsFlat
  <2>2. n + 1 \in 1 .. n + 1 /\ (n + 1) - 1 = n /\ n + 1 # 1
    OBVIOUS
  <2>3. h[n + 1] = IF n + 1 = 1 THEN t[n + 1] ELSE h[(n + 1) - 1] \o t[n + 1]
    BY <2>1, <2>2, Zenon
  <2>4. QED
    BY <2>2, <2>3
<1>4. g[n] = h[n]
  <2>1. \A i \in 1 .. n : g[i] = h[i]
    BY <1>1, <1>2, FlatSame
  <2>2. QED
    BY <2>1
<1>5. QED
  BY <1>1, <1>2, <1>3, <1>4

LEMMA FlatAppend ==
    ASSUME NEW S, NEW s \in Seq(Seq(S)), NEW x \in Seq(S)
    PROVE  FlattenSeq(Append(s, x)) = FlattenSeq(s) \o x
<1> DEFINE t == Append(s, x)
           n == Len(s)
<1>1. n \in Nat /\ Len(t) = n + 1 /\ t[n + 1] = x /\ \A i \in 1 .. n : s[i] = t[i]
  BY AppendProperties
<1>2. CASE n = 0
  <2>1. s = <<>> /\ t = <<x>> /\ Len(t) = 1 /\ Len(t) \in Nat \ {0}
    BY <1>2
  <2> HIDE DEF t
  <2>2. PICK h : IsFlat(h, t, Len(t)) /\ FlattenSeq(t) = h[Len(t)]
    BY <2>1, FlatIs
  <2>3. h[1] = t[1]
    BY <2>1, <2>2 DEF IsFlat
  <2>4. FlattenSeq(s) \o x = x
    BY <2>1, FlatEmpty, ConcatEmptySeq
  <2>5. QED
    BY <2>1, <2>2, <2>3, <2>4 DEF t
<1>3. CASE n # 0
  <2> HIDE DEF t, n
  <2>1. Len(s) = n
    BY DEF n
  <2>2. FlattenSeq(t) = FlattenSeq(s) \o t[n + 1]
    BY <1>1, <1>3, <2>1, FlatLonger
  <2>3. QED
    BY <1>1, <2>2 DEF t
<1>4. QED
  BY <1>2, <1>3

LEMMA SeqInduct ==
    ASSUME NEW S, NEW T, <<>> \in T,
           \A s \in Seq(S), x \in S : s \in T => Append(s, x) \in T
    PROVE  Seq(S) \subseteq T
<1> DEFINE U == {n \in Nat : \A s \in Seq(S) : Len(s) = n => s \in T}
<1>1. 0 \in U
  <2>1. \A s \in Seq(S) : Len(s) = 0 => s = <<>>
    OBVIOUS
  <2>2. QED
    BY <2>1
<1>2. ASSUME NEW n \in Nat, n \in U PROVE n + 1 \in U
  <2> SUFFICES ASSUME NEW s \in Seq(S), Len(s) = n + 1 PROVE s \in T
    OBVIOUS
  <2> DEFINE r == SubSeq(s, 1, n)
  <2>1. r \in Seq(S) /\ Len(r) = n /\ s[n + 1] \in S /\ s = Append(r, s[n + 1])
    OBVIOUS
  <2> HIDE DEF r
  <2>2. r \in T
    BY <1>2, <2>1
  <2>3. QED
    BY <2>1, <2>2
<1> HIDE DEF U
<1>3. Nat \subseteq U
  BY <1>1, <1>2, Induct
<1>4. SUFFICES ASSUME NEW s \in Seq(S) PROVE s \in T
  OBVIOUS
<1>5. Len(s) \in U
  BY <1>3
<1>6. QED
  BY <1>5 DEF U

LEMMA FlatType ==
    ASSUME NEW S, NEW s \in Seq(Seq(S))
    PROVE  FlattenSeq(s) \in Seq(S)
<1> DEFINE T == {t \in Seq(Seq(S)) : FlattenSeq(t) \in Seq(S)}
<1>1. <<>> \in T
  <2>1. FlattenSeq(<<>>) \in Seq(S)
    BY FlatEmpty, EmptySeq
  <2>2. QED
    BY <2>1
<1>2. ASSUME NEW t \in Seq(Seq(S)), NEW x \in Seq(S), t \in T PROVE Append(t, x) \in T
  <2>1. FlattenSeq(Append(t, x)) = FlattenSeq(t) \o x
    BY FlatAppend
  <2>2. FlattenSeq(t) \in Seq(S)
    BY <1>2
  <2>3. FlattenSeq(t) \o x \in Seq(S)
    BY <2>2, ConcatProperties
  <2>4. Append(t, x) \in Seq(Seq(S))
    BY AppendProperties
  <2>5. QED
    BY <2>1, <2>3, <2>4
<1> HIDE DEF T
<1>3. Seq(Seq(S)) \subseteq T
  BY <1>1, <1>2, SeqInduct
<1>4. QED
  BY <1>3 DEF T

LEMMA FlatConcat ==
    ASSUME NEW S, NEW s \in Seq(Seq(S)), NEW t \in Seq(Seq(S))
    PROVE  FlattenSeq(s \o t) = FlattenSeq(s) \o FlattenSeq(t)
<1> DEFINE T == {r \in Seq(Seq(S)) : FlattenSeq(s \o r) = FlattenSeq(s) \o FlattenSeq(r)}
<1>1. <<>> \in T
  <2>1. s \o <<>> = s /\ FlattenSeq(s) \o <<>> = FlattenSeq(s)
    BY FlatType, ConcatEmptySeq
  <2>2. <<>> \in Seq(Seq(S)) /\ FlattenSeq(s \o <<>>) = FlattenSeq(s) \o FlattenSeq(<<>>)
    BY <2>1, FlatEmpty, EmptySeq
  <2>3. QED
    BY <2>2
<1>2. ASSUME NEW r \in Seq(Seq(S)), NEW x \in Seq(S), r \in T PROVE Append(r, x) \in T
  <2>1. s \o Append(r, x) = Append(s \o r, x) /\ s \o r \in Seq(Seq(S))
        /\ Append(r, x) \in Seq(Seq(S))
    OBVIOUS
  <2>2. FlattenSeq(s \o Append(r, x)) = FlattenSeq(s \o r) \o x
    BY <2>1, FlatAppend
  <2>3. FlattenSeq(s \o r) = FlattenSeq(s) \o FlattenSeq(r)
    BY <1>2
  <2>4. FlattenSeq(Append(r, x)) = FlattenSeq(r) \o x
    BY FlatAppend
  <2>5. (FlattenSeq(s) \o FlattenSeq(r)) \o x = FlattenSeq(s) \o (FlattenSeq(r) \o x)
    <3> DEFINE f == FlattenSeq(s)
               g == FlattenSeq(r)
    <3>1. f \in Seq(S) /\ g \in Seq(S) /\ x \in Seq(S)
      BY FlatType
    <3> HIDE DEF f, g
    <3>2. (f \o g) \o x = f \o (g \o x)
      BY ONLY <3>1, ConcatAssociative
    <3>3. QED
      BY <3>2 DEF f, g
  <2>6. QED
    BY <2>1, <2>2, <2>3, <2>4, <2>5
<1> HIDE DEF T
<1>3. Seq(Seq(S)) \subseteq T
  BY <1>1, <1>2, SeqInduct
<1>4. QED
  BY <1>3 DEF T

LEMMA FlatSingle ==
    ASSUME NEW S, NEW x \in Seq(S)
    PROVE  FlattenSeq(<<x>>) = x
<1>1. <<>> \in Seq(Seq(S)) /\ Append(<<>>, x) = <<x>> /\ <<>> \o x = x
  OBVIOUS
<1>2. FlattenSeq(Append(<<>>, x)) = FlattenSeq(<<>>) \o x
  BY <1>1, FlatAppend
<1>3. QED
  BY <1>1, <1>2, FlatEmpty

LEMMA FlatCons ==
    ASSUME NEW S, NEW x \in Seq(S), NEW t \in Seq(Seq(S))
    PROVE  FlattenSeq(<<x>> \o t) = x \o FlattenSeq(t)
<1>1. <<x>> \in Seq(Seq(S))
  OBVIOUS
<1>2. FlattenSeq(<<x>> \o t) = FlattenSeq(<<x>>) \o FlattenSeq(t)
  BY <1>1, FlatConcat
<1>3. QED
  BY <1>2, FlatSingle

-----------------------------------------------------------------------------
(* What of a stream is left behind its first parts.                        *)

LEMMA SubSeqAppend ==
    ASSUME NEW S, NEW s \in Seq(S), NEW x \in S, NEW k \in Nat, k <= Len(s)
    PROVE  SubSeq(Append(s, x), k + 1, Len(s) + 1) = Append(SubSeq(s, k + 1, Len(s)), x)
<1> DEFINE n == Len(s)
           a == SubSeq(Append(s, x), k + 1, n + 1)
           b == Append(SubSeq(s, k + 1, n), x)
<1>1. n \in Nat /\ k <= n
  OBVIOUS
<1>2. /\ Len(Append(s, x)) = n + 1 /\ Append(s, x)[n + 1] = x /\ Append(s, x) \in Seq(S)
      /\ \A i \in 1 .. n : Append(s, x)[i] = s[i]
  BY AppendProperties
<1>3. a \in Seq(S) /\ Len(a) = n + 1 - k /\ \A i \in 1 .. n + 1 - k : a[i] = Append(s, x)[k + i]
  BY <1>1, <1>2
<1>4. /\ SubSeq(s, k + 1, n) \in Seq(S) /\ Len(SubSeq(s, k + 1, n)) = n - k
      /\ \A i \in 1 .. n - k : SubSeq(s, k + 1, n)[i] = s[k + i]
  BY <1>1
<1>5. b \in Seq(S) /\ Len(b) = n + 1 - k /\ b[n + 1 - k] = x
      /\ \A i \in 1 .. n - k : b[i] = s[k + i]
  BY <1>1, <1>4, AppendProperties
<1> HIDE DEF a, b, n
<1>6. \A i \in 1 .. n + 1 - k : a[i] = b[i]
  BY <1>1, <1>2, <1>3, <1>5
<1>7. a = b
  BY <1>3, <1>5, <1>6, SeqEqual
<1>8. QED
  BY <1>7 DEF a, b, n

From(D, k)   == SubSeq(D, k + 1, Len(D))
Stream(D, k) == FlattenSeq(From(D, k))

LEMMA StreamHead ==
    ASSUME NEW S, NEW D \in Seq(Seq(S)), NEW k \in Nat, k < Len(D)
    PROVE  D[k + 1] \in Seq(S) /\ Stream(D, k) = D[k + 1] \o Stream(D, k + 1)
<1>1. D[k + 1] \in Seq(S)
  OBVIOUS
<1>2. From(D, k) = <<D[k + 1]>> \o From(D, k + 1) /\ From(D, k + 1) \in Seq(Seq(S))
  BY DEF From
<1>3. FlattenSeq(<<D[k + 1]>> \o From(D, k + 1)) = D[k + 1] \o FlattenSeq(From(D, k + 1))
  BY <1>1, <1>2, FlatCons
<1>4. QED
  BY <1>1, <1>2, <1>3 DEF Stream

LEMMA StreamEnd ==
    ASSUME NEW S, NEW D \in Seq(Seq(S))
    PROVE  Stream(D, Len(D)) = <<>>
<1>1. From(D, Len(D)) = <<>>
  BY DEF From
<1>2. QED
  BY <1>1, FlatEmpty DEF Stream

LEMMA StreamType ==
    ASSUME NEW S, NEW D \in Seq(Seq(S)), NEW k \in Nat
    PROVE  Stream(D, k) \in Seq(S)
<1>1. From(D, k) \in Seq(Seq(S))
  BY DEF From
<1>2. QED
  BY <1>1, FlatType DEF Stream

LEMMA StreamAppend ==
    ASSUME NEW S, NEW D \in Seq(Seq(S)), NEW d \in Seq(S), NEW k \in Nat, k <= Len(D)
    PROVE  Stream(Append(D, d), k) = Stream(D, k) \o d
<1>1. From(Append(D, d), k) = Append(From(D, k), d) /\ From(D, k) \in Seq(Seq(S))
  <2>1. Len(Append(D, d)) = Len(D) + 1
    BY AppendProperties
  <2>2. SubSeq(Append(D, d), k + 1, Len(D) + 1) = Append(SubSeq(D, k + 1, Len(D)), d)
    BY SubSeqAppend
  <2>3. From(D, k) \in Seq(Seq(S))
    BY DEF From
  <2>4. From(Append(D, d), k) = SubSeq(Append(D, d), k + 1, Len(D) + 1)
    BY <2>1 DEF From
  <2>5. QED
    BY <2>2, <2>3, <2>4 DEF From
<1>2. QED
  BY <1>1, FlatAppend DEF Stream

-----------------------------------------------------------------------------
(* Event packets.                                                          *)

Fours == {p \in Seq(Nat) : Len(p) = 4}

LEMMA SamePart ==
    ASSUME NEW S, NEW s \in Seq(S), NEW t \in Seq(S), NEW m \in Nat,
           m <= Len(s), m <= Len(t), \A j \in 1 .. m : s[j] = t[j],
           NEW a \in Nat, NEW b \in Nat, 1 <= a, b <= m
    PROVE  SubSeq(s, a, b) = SubSeq(t, a, b)
  BY SeqEqual

LEMMA LastPart ==
    ASSUME NEW S, NEW s \in Seq(S), NEW t \in Seq(S)
    PROVE  SubSeq(s \o t, Len(s) + 1, Len(s) + Len(t)) = t
<1> DEFINE r == SubSeq(s \o t, Len(s) + 1, Len(s) + Len(t))
<1>1. s \o t \in Seq(S) /\ Len(s \o t) = Len(s) + Len(t)
      /\ \A i \in 1 .. Len(t) : (s \o t)[Len(s) + i] = t[i]
  BY ConcatProperties
<1>2. r \in Seq(S) /\ Len(r) = Len(t) /\ \A i \in 1 .. Len(t) : r[i] = t[i]
  BY <1>1
<1>3. QED
  BY <1>2, SeqEqual

LEMMA FirstPart ==
    ASSUME NEW S, NEW s \in Seq(S), NEW t \in Seq(S)
    PROVE  SubSeq(s \o t, 1, Len(s)) = s
<1> DEFINE r == SubSeq(s \o t, 1, Len(s))
<1>1. s \o t \in Seq(S) /\ Len(s \o t) = Len(s) + Len(t)
      /\ \A i \in 1 .. Len(s) : (s \o t)[i] = s[i]
  BY ConcatProperties
<1>2. r \in Seq(S) /\ Len(r) = Len(s) /\ \A i \in 1 .. Len(s) : r[i] = s[i]
  BY <1>1
<1>3. QED
  BY <1>2, SeqEqual

LEMMA FoursComeBack ==
    ASSUME NEW W \in Seq(Fours)
    PROVE  /\ FlattenSeq(W) \in Seq(Nat) /\ Len(FlattenSeq(W)) = 4 * Len(W)
           /\ Packets(FlattenSeq(W)) = W
<1> DEFINE Q(w) == /\ FlattenSeq(w) \in Seq(Nat) /\ Len(FlattenSeq(w)) = 4 * Len(w)
                   /\ \A i \in 1 .. Len(w) : SubSeq(FlattenSeq(w), 4 * i - 3, 4 * i) = w[i]
           T == {w \in Seq(Fours) : Q(w)}
<1>1. <<>> \in T
  <2>1. FlattenSeq(<<>>) = <<>> /\ <<>> \in Seq(Nat) /\ <<>> \in Seq(Fours) /\ Len(<<>>) = 0
    BY FlatEmpty, EmptySeq
  <2>2. Q(<<>>)
    <3>1. Len(<<>>) = 0 /\ 4 * 0 = 0
      BY EmptySeq
    <3>2. \A i \in 1 .. 0 : FALSE
      OBVIOUS
    <3>3. \A i \in 1 .. Len(<<>>) : SubSeq(FlattenSeq(<<>>), 4 * i - 3, 4 * i) = <<>>[i]
      BY <3>1, <3>2, Zenon
    <3>4. FlattenSeq(<<>>) \in Seq(Nat) /\ Len(FlattenSeq(<<>>)) = 4 * Len(<<>>)
      BY <2>1, <3>1, Zenon
    <3>5. QED
      BY <3>3, <3>4, Zenon
  <2>3. QED
    BY <2>1, <2>2, Zenon
<1>2. ASSUME NEW w \in Seq(Fours), NEW p \in Fours, w \in T PROVE Append(w, p) \in T
  <2> DEFINE f == FlattenSeq(w)
             g == FlattenSeq(Append(w, p))
             n == Len(w)
  <2>1. p \in Seq(Nat) /\ Len(p) = 4 /\ w \in Seq(Seq(Nat))
    BY DEF Fours
  <2>2. g = f \o p
    BY <2>1, FlatAppend
  <2>3. f \in Seq(Nat) /\ n \in Nat /\ Len(f) = 4 * n
        /\ \A i \in 1 .. n : SubSeq(f, 4 * i - 3, 4 * i) = w[i]
    BY <1>2
  <2>4. Append(w, p) \in Seq(Fours) /\ Len(Append(w, p)) = n + 1
        /\ Append(w, p)[n + 1] = p /\ \A i \in 1 .. n : Append(w, p)[i] = w[i]
    BY AppendProperties
  <2> HIDE DEF f, g, n
  <2>5. /\ g \in Seq(Nat) /\ Len(g) = 4 * (n + 1)
        /\ SubSeq(g, 4 * (n + 1) - 3, 4 * (n + 1)) = p
        /\ \A i \in 1 .. n : SubSeq(g, 4 * i - 3, 4 * i) = SubSeq(f, 4 * i - 3, 4 * i)
    <3> DEFINE m == 4 * n
    <3>1. m \in Nat /\ Len(f) = m /\ 4 * (n + 1) = m + 4 /\ 4 * (n + 1) - 3 = m + 1
          /\ \A i \in 1 .. n : 4 * i - 3 \in Nat /\ 4 * i \in Nat /\ 1 <= 4 * i - 3 /\ 4 * i <= m
      BY <2>3
    <3> HIDE DEF m
    <3>2. /\ g \in Seq(Nat) /\ Len(g) = m + 4 /\ f \in Seq(Nat)
          /\ \A j \in 1 .. m : g[j] = f[j]
      <4>1. f \o p \in Seq(Nat) /\ Len(f \o p) = Len(f) + Len(p)
            /\ \A j \in 1 .. Len(f) : (f \o p)[j] = f[j]
        <5>1. f \in Seq(Nat) /\ p \in Seq(Nat)
          BY <2>1, <2>3
        <5>2. QED
          BY <5>1, ConcatProperties
      <4>2. QED
        BY <2>1, <2>2, <2>3, <3>1, <4>1
    <3>3. SubSeq(g, m + 1, m + 4) = p
      BY <2>1, <2>2, <2>3, <3>1, LastPart
    <3>4. ASSUME NEW i \in 1 .. n PROVE SubSeq(g, 4 * i - 3, 4 * i) = SubSeq(f, 4 * i - 3, 4 * i)
      <4> DEFINE a == 4 * i - 3
                 b == 4 * i
      <4>1. a \in Nat /\ b \in Nat /\ 1 <= a /\ b <= m
        BY <3>1
      <4> HIDE DEF a, b
      <4>2. m <= Len(g) /\ m <= Len(f) /\ m \in Nat
        BY <3>1, <3>2
      <4>3. SubSeq(g, a, b) = SubSeq(f, a, b)
        BY <3>2, <4>1, <4>2, SeqEqual
      <4>4. QED
        BY <4>3 DEF a, b
    <3>5. QED
      BY <3>1, <3>2, <3>3, <3>4
  <2>6. \A i \in 1 .. n : SubSeq(g, 4 * i - 3, 4 * i) = SubSeq(f, 4 * i - 3, 4 * i)
    BY <2>5
  <2>7. SubSeq(g, 4 * (n + 1) - 3, 4 * (n + 1)) = p
    BY <2>5
  <2>8. \A i \in 1 .. n + 1 : SubSeq(g, 4 * i - 3, 4 * i) = Append(w, p)[i]
    <3> TAKE i \in 1 .. n + 1
    <3>1. CASE i = n + 1
      BY <2>4, <2>7, <3>1
    <3>2. CASE i # n + 1
      <4>1. i \in 1 .. n
        BY <2>3, <3>2
      <4>2. QED
        BY <4>1, <2>3, <2>4, <2>6
    <3>3. QED
      BY <3>1, <3>2
  <2>9. QED
    BY <2>4, <2>5, <2>8 DEF g
<1> HIDE DEF T
<1>3. Seq(Fours) \subseteq T
  BY <1>1, <1>2, SeqInduct
<1>4. Q(W)
  BY <1>3 DEF T
<1>5. (4 * Len(W)) \div 4 = Len(W)
  BY SMTT(20)
<1>6. W = [i \in 1 .. Len(W) |-> W[i]]
  BY SMTT(20)
<1>7. QED
  BY <1>4, <1>5, <1>6, SMTT(20) DEF Packets

-----------------------------------------------------------------------------
(* The chunks of a system exclusive message, and their packets.            *)

LEMMA Counts == SysexCount[4] = 3 /\ SysexCount[5] = 1 /\ SysexCount[6] = 2 /\ SysexCount[7] = 3
  BY DEF SysexCount

LEMMA PartAt ==
    ASSUME NEW S, NEW s \in Seq(S), NEW j \in Nat, NEW e \in Nat, j <= e, e <= Len(s)
    PROVE  /\ SubSeq(s, j + 1, e) \in Seq(S) /\ Len(SubSeq(s, j + 1, e)) = e - j
           /\ \A i \in 1 .. e - j : SubSeq(s, j + 1, e)[i] = s[j + i]
  OBVIOUS

\* A chunk of a system exclusive message, and its packet.
Chunk(b, j) == SubSeq(b, 3 * j + 1, IF 3 * j + 3 < Len(b) THEN 3 * j + 3 ELSE Len(b))

LEMMA ChunkIs ==
    ASSUME NEW b \in Seq(Nat), NEW j \in Nat, 3 * j < Len(b)
    PROVE  /\ Chunk(b, j) \in Seq(Nat)
           /\ Len(Chunk(b, j)) = IF 3 * j + 3 < Len(b) THEN 3 ELSE Len(b) - 3 * j
           /\ \A i \in 1 .. Len(Chunk(b, j)) : Chunk(b, j)[i] = b[3 * j + i]
<1> DEFINE m == 3 * j
           n == Len(b)
           e == IF m + 3 < n THEN m + 3 ELSE n
           c == SubSeq(b, m + 1, e)
<1>0. m \in Nat /\ n \in Nat /\ m < n
  OBVIOUS
<1> HIDE DEF m, n
<1>1. m \in Nat /\ n \in Nat /\ m < n /\ e \in Nat /\ m < e /\ e <= n
      /\ e - m = IF m + 3 < n THEN 3 ELSE n - m
  BY <1>0
<1> HIDE DEF e
<1>2. c \in Seq(Nat) /\ Len(c) = e - m /\ \A i \in 1 .. e - m : c[i] = b[m + i]
  <2>1. b \in Seq(Nat) /\ m \in Nat /\ e \in Nat /\ m <= e /\ e <= Len(b)
    BY <1>1 DEF n
  <2>2. QED
    BY ONLY <2>1, PartAt
<1> HIDE DEF c
<1>3. Chunk(b, j) = c
  BY DEF Chunk, c, e, m, n
<1>4. QED
  BY <1>1, <1>2, <1>3 DEF m, n

LEMMA ChunkJoins ==
    ASSUME NEW b \in Seq(Nat), NEW j \in Nat, 3 * j < Len(b)
    PROVE  SubSeq(b, 1, 3 * j) \o Chunk(b, j)
               = SubSeq(b, 1, IF 3 * j + 3 < Len(b) THEN 3 * j + 3 ELSE Len(b))
<1> DEFINE m == 3 * j
           e == IF m + 3 < Len(b) THEN m + 3 ELSE Len(b)
<1>1. m \in Nat /\ e \in Nat /\ m < e /\ e <= Len(b)
  OBVIOUS
<1>2. Chunk(b, j) = SubSeq(b, m + 1, e)
  BY DEF Chunk
<1> HIDE DEF m, e
<1>3. SubSeq(b, 1, m) \o SubSeq(b, m + 1, e) = SubSeq(b, 1, e)
  BY <1>1
<1>4. QED
  BY <1>2, <1>3 DEF m, e

LEMMA Headed ==
    ASSUME NEW c \in Seq(Nat), NEW h \in Nat, NEW z \in Seq(Nat)
    PROVE  LET p == <<h>> \o c \o z
           IN /\ p \in Seq(Nat) /\ Len(p) = 1 + Len(c) + Len(z) /\ p[1] = h
              /\ SubSeq(p, 2, 1 + Len(c)) = c
<1> DEFINE q == <<h>> \o c
           p == q \o z
           n == Len(c)
           r == SubSeq(p, 2, 1 + n)
<1>1. q \in Seq(Nat) /\ Len(q) = 1 + n /\ q[1] = h /\ \A i \in 1 .. n : q[1 + i] = c[i]
  <2>1. <<h>> \in Seq(Nat) /\ Len(<<h>>) = 1 /\ <<h>>[1] = h
    OBVIOUS
  <2>2. /\ <<h>> \o c \in Seq(Nat) /\ Len(<<h>> \o c) = Len(<<h>>) + Len(c)
        /\ (\A i \in 1 .. Len(<<h>>) : (<<h>> \o c)[i] = <<h>>[i])
        /\ \A i \in 1 .. Len(c) : (<<h>> \o c)[Len(<<h>>) + i] = c[i]
    BY <2>1, ConcatProperties
  <2>3. QED
    BY <2>1, <2>2
<1> HIDE DEF q
<1>2. /\ p \in Seq(Nat) /\ Len(p) = Len(q) + Len(z)
      /\ \A i \in 1 .. Len(q) : p[i] = q[i]
  <2>1. q \in Seq(Nat)
    BY <1>1
  <2>2. QED
    BY <2>1, ConcatProperties
<1>3. n \in Nat /\ Len(z) \in Nat
  OBVIOUS
<1> HIDE DEF p, n
<1>4. p[1] = h /\ Len(p) = 1 + n + Len(z) /\ \A i \in 1 .. n : p[1 + i] = c[i]
  BY <1>1, <1>2, <1>3
<1>5. r \in Seq(Nat) /\ Len(r) = n /\ \A i \in 1 .. n : r[i] = c[i]
  BY <1>2, <1>3, <1>4
<1>6. r = c
  <2>1. Len(c) = n
    BY DEF n
  <2> HIDE DEF r
  <2>2. QED
    BY <1>5, <2>1, SeqEqual
<1>7. QED
  BY <1>2, <1>4, <1>6 DEF p, q, n

LEMMA PacketIs ==
    ASSUME NEW c \in Seq(Nat), Len(c) \in 1 .. 3, c[Len(c)] # 247 => Len(c) = 3
    PROVE  /\ PacketOf(c) \in Fours
           /\ PacketOf(c)[1] = IF c[Len(c)] # 247 THEN 4
                               ELSE IF Len(c) = 3 THEN 7 ELSE IF Len(c) = 2 THEN 6 ELSE 5
           /\ SubSeq(PacketOf(c), 2, 1 + Len(c)) = c
<1> DEFINE h == IF c[Len(c)] # 247 THEN 4
                ELSE IF Len(c) = 3 THEN 7 ELSE IF Len(c) = 2 THEN 6 ELSE 5
           z == IF Len(c) = 3 THEN <<>> ELSE IF Len(c) = 2 THEN <<0>> ELSE <<0, 0>>
<1>1. h \in Nat /\ z \in Seq(Nat) /\ 1 + Len(c) + Len(z) = 4
  <2>1. /\ <<>> \in Seq(Nat) /\ <<0>> \in Seq(Nat) /\ <<0, 0>> \in Seq(Nat)
        /\ Len(<<>>) = 0 /\ Len(<<0>>) = 1 /\ Len(<<0, 0>>) = 2
    OBVIOUS
  <2>2. h \in Nat
    OBVIOUS
  <2>3. CASE Len(c) = 3
    BY <2>1, <2>2, <2>3
  <2>4. CASE Len(c) = 2
    BY <2>1, <2>2, <2>4
  <2>5. CASE Len(c) = 1
    BY <2>1, <2>2, <2>5
  <2>6. QED
    BY <2>3, <2>4, <2>5
<1>2. PacketOf(c) = <<h>> \o c \o z
  <2>1. <<h>> \o c \in Seq(Nat)
    BY <1>1
  <2>2. (<<h>> \o c) \o <<>> = <<h>> \o c
    BY <2>1, ConcatEmptySeq
  <2>3. CASE Len(c) = 3
    <3>1. PacketOf(c) = <<h>> \o c
      BY <2>3 DEF PacketOf
    <3>2. z = <<>>
      BY <2>3
    <3>3. QED
      BY <2>2, <3>1, <3>2
  <2>4. CASE Len(c) = 2
    BY <2>4 DEF PacketOf
  <2>5. CASE Len(c) = 1
    BY <2>5 DEF PacketOf
  <2>6. QED
    BY <2>3, <2>4, <2>5
<1> HIDE DEF z
<1>3. LET p == <<h>> \o c \o z
      IN /\ p \in Seq(Nat) /\ Len(p) = 1 + Len(c) + Len(z) /\ p[1] = h
         /\ SubSeq(p, 2, 1 + Len(c)) = c
  <2> HIDE DEF h
  <2>1. QED
    BY <1>1, Headed
<1> DEFINE p == PacketOf(c)
<1>4. p \in Seq(Nat) /\ Len(p) = 4 /\ p[1] = h /\ SubSeq(p, 2, 1 + Len(c)) = c
  <2> HIDE DEF h
  <2>1. QED
    BY <1>1, <1>2, <1>3
<1> HIDE DEF p
<1>5. QED
  BY <1>4 DEF Fours, p

\* The packets of a system exclusive message.
LEMMA SysexPackets ==
    ASSUME NEW b \in Seq(Nat), Sysex(b)
    PROVE  /\ EncodeMidi(b) \in Seq(Fours)
           /\ \A j \in Nat : 3 * j < Len(b) =>
                  /\ j + 1 <= Len(EncodeMidi(b)) /\ EncodeMidi(b)[j + 1] = PacketOf(Chunk(b, j))
                  /\ 3 * j + 3 < Len(b) <=> j + 1 < Len(EncodeMidi(b))
<1> DEFINE n == Len(b)
           m == (n + 2) \div 3
           e == EncodeMidi(b)
<1>1. n \in Nat /\ b[1] = 240
  BY DEF Sysex
<1>2. m \in Nat /\ 3 * m <= n + 2 /\ n + 2 < 3 * m + 3
  BY <1>1, SMTT(20)
<1>3. e = [i \in 1 .. m |-> PacketOf(Thirds(b)[i])]
  <2>1. DOMAIN Thirds(b) = 1 .. m
    BY DEF Thirds
  <2>2. e = [i \in DOMAIN Thirds(b) |-> PacketOf(Thirds(b)[i])]
    BY <1>1 DEF EncodeMidi
  <2>3. QED
    BY <2>1, <2>2
<1>4. ASSUME NEW i \in 1 .. m
      PROVE  Thirds(b)[i] = Chunk(b, i - 1) /\ i - 1 \in Nat /\ 3 * (i - 1) < n
  <2>1. i \in Nat /\ i - 1 \in Nat /\ 3 * i - 2 = 3 * (i - 1) + 1 /\ 3 * i = 3 * (i - 1) + 3
        /\ 3 * (i - 1) < n
    BY <1>2
  <2>2. Thirds(b)[i] = SubSeq(b, 3 * i - 2, IF 3 * i < n THEN 3 * i ELSE n)
    BY DEF Thirds
  <2>3. QED
    BY <2>1, <2>2 DEF Chunk
<1>5. ASSUME NEW j \in Nat, 3 * j < n
      PROVE  PacketOf(Chunk(b, j)) \in Fours
  <2> DEFINE c == Chunk(b, j)
  <2>1. /\ c \in Seq(Nat) /\ Len(c) = IF 3 * j + 3 < n THEN 3 ELSE n - 3 * j
        /\ \A i \in 1 .. Len(c) : c[i] = b[3 * j + i]
    BY <1>5, ChunkIs
  <2>2. Len(c) \in 1 .. 3
    BY <1>1, <1>5, <2>1
  <2>3. ~(3 * j + 3 < n) => c[Len(c)] = 247
    <3>1. b[n] = 247
      BY DEF Sysex
    <3>2. QED
      BY <1>1, <1>5, <2>1, <2>2, <3>1
  <2> HIDE DEF c, n
  <2>4. c[Len(c)] # 247 => Len(c) = 3
    BY <2>1, <2>3
  <2>5. PacketOf(c) \in Fours
    BY <2>1, <2>2, <2>4, PacketIs
  <2>6. QED
    BY <2>5 DEF c
<1> HIDE DEF m, e, n
<1>6. ASSUME NEW i \in 1 .. m
      PROVE  e[i] = PacketOf(Chunk(b, i - 1)) /\ e[i] \in Fours
  BY <1>3, <1>4, <1>5
<1>7. e \in Seq(Fours) /\ Len(e) = m
  BY <1>2, <1>3, <1>6
<1>8. ASSUME NEW j \in Nat, 3 * j < n
      PROVE  j + 1 <= m /\ e[j + 1] = PacketOf(Chunk(b, j)) /\ (3 * j + 3 < n <=> j + 1 < m)
  <2>1. j + 1 \in 1 .. m /\ (j + 1) - 1 = j /\ (3 * j + 3 < n <=> j + 1 < m)
    BY <1>1, <1>2, <1>8
  <2>2. e[j + 1] = PacketOf(Chunk(b, (j + 1) - 1))
    BY <1>6, <2>1
  <2>3. QED
    BY <2>1, <2>2
<1>9. QED
  BY <1>7, <1>8 DEF e, n

\* The packet of a chunk: its code, and the chunk behind it.
LEMMA ChunkPacket ==
    ASSUME NEW b \in Seq(Nat), Sysex(b), NEW j \in Nat, 3 * j < Len(b),
           NEW c, c = Chunk(b, j), NEW l, l = Len(c)
    PROVE  /\ l \in 1 .. 3 /\ (3 * j + 3 < Len(b) => l = 3)
           /\ PacketOf(c)[1] = (IF 3 * j + 3 < Len(b) THEN 4
                                ELSE IF l = 3 THEN 7 ELSE IF l = 2 THEN 6 ELSE 5)
           /\ SubSeq(PacketOf(c), 2, 1 + l) = c
<1> DEFINE n == Len(b)
           p == PacketOf(c)
<1>1. n \in Nat /\ b[n] = 247 /\ \A i \in 2 .. n - 1 : b[i] # 247
  BY DEF Sysex
<1>2. /\ c \in Seq(Nat) /\ l = IF 3 * j + 3 < n THEN 3 ELSE n - 3 * j
      /\ \A i \in 1 .. l : c[i] = b[3 * j + i]
  BY ChunkIs
<1>3. l \in 1 .. 3 /\ (3 * j + 3 < n => l = 3)
  BY <1>1, <1>2
<1>4. c[l] # 247 <=> 3 * j + 3 < n
  <2>1. CASE 3 * j + 3 < n
    <3>1. c[l] = b[3 * j + 3] /\ 3 * j + 3 \in 2 .. n - 1
      BY <1>1, <1>2, <1>3, <2>1
    <3>2. QED
      BY <1>1, <2>1, <3>1
  <2>2. CASE ~(3 * j + 3 < n)
    <3>1. c[l] = b[n]
      BY <1>1, <1>2, <1>3, <2>2
    <3>2. QED
      BY <1>1, <2>2, <3>1
  <2>3. QED
    BY <2>1, <2>2
<1> HIDE DEF n
<1>5. p[1] = (IF 3 * j + 3 < n THEN 4 ELSE IF l = 3 THEN 7 ELSE IF l = 2 THEN 6 ELSE 5)
      /\ SubSeq(p, 2, 1 + l) = c
  <2>1. c[Len(c)] # 247 => Len(c) = 3
    BY <1>3, <1>4
  <2>2. Len(c) \in 1 .. 3
    BY <1>3
  <2>3. /\ PacketOf(c)[1] = IF c[Len(c)] # 247 THEN 4
                            ELSE IF Len(c) = 3 THEN 7 ELSE IF Len(c) = 2 THEN 6 ELSE 5
        /\ SubSeq(PacketOf(c), 2, 1 + Len(c)) = c
    BY <1>2, <2>1, <2>2, PacketIs
  <2>4. QED
    BY <1>4, <2>3
<1>6. QED
  BY <1>3, <1>5 DEF n

\* What the framer makes of the packet of a chunk.
LEMMA ChunkDecoded ==
    ASSUME NEW b \in Seq(Nat), Sysex(b), NEW j \in Nat, 3 * j < Len(b), NEW ms
    PROVE  DecodePacket(Decoded(SubSeq(b, 1, 3 * j), ms), PacketOf(Chunk(b, j)))
               = IF 3 * j + 3 < Len(b) THEN Decoded(SubSeq(b, 1, 3 * j + 3), ms)
                                       ELSE Decoded(<<>>, Append(ms, b))
<1> DEFINE n == Len(b)
           c == Chunk(b, j)
           p == PacketOf(c)
           before == Decoded(SubSeq(b, 1, 3 * j), ms)
           l == Len(c)
<1>3. l \in 1 .. 3 /\ (3 * j + 3 < n => l = 3)
  BY ChunkPacket
<1>5. SubSeq(b, 1, 3 * j) \o c = SubSeq(b, 1, IF 3 * j + 3 < n THEN 3 * j + 3 ELSE n)
  BY ChunkJoins
<1>6. before.rest = SubSeq(b, 1, 3 * j) /\ before.messages = ms
  BY DEF Decoded
<1> HIDE DEF c, n
<1>7. p[1] = (IF 3 * j + 3 < n THEN 4 ELSE IF l = 3 THEN 7 ELSE IF l = 2 THEN 6 ELSE 5)
      /\ SubSeq(p, 2, 1 + l) = c
  BY ChunkPacket DEF c, n
<1> HIDE DEF p, before, l
<1>8. SysexCount[p[1]] = l
  <2>1. CASE 3 * j + 3 < n
    BY <1>3, <1>7, <2>1, Counts
  <2>2. CASE ~(3 * j + 3 < n)
    BY <1>3, <1>7, <2>2, Counts
  <2>3. QED
    BY <2>1, <2>2
<1>9. CASE 3 * j + 3 < n
  <2>1. p[1] = 4
    BY <1>7, <1>9
  <2>2. DecodePacket(before, p) = Decoded(before.rest \o SubSeq(p, 2, 1 + SysexCount[p[1]]),
                                          before.messages)
    BY <2>1 DEF DecodePacket
  <2>3. QED
    BY <1>5, <1>6, <1>7, <1>8, <1>9, <2>2 DEF before, p, c, n
<1>10. CASE ~(3 * j + 3 < n)
  <2>1. p[1] \in 5 .. 7
    BY <1>3, <1>7, <1>10
  <2>2. DecodePacket(before, p) = Decoded(<<>>, Append(before.messages,
                                     before.rest \o SubSeq(p, 2, 1 + SysexCount[p[1]])))
    BY <2>1 DEF DecodePacket
  <2>3. SubSeq(b, 1, n) = b
    BY DEF n
  <2>4. before.rest \o SubSeq(p, 2, 1 + SysexCount[p[1]]) = b
    BY <1>5, <1>6, <1>7, <1>8, <1>10, <2>3
  <2>5. QED
    BY <1>6, <1>10, <2>2, <2>4 DEF before, p, c, n
<1>11. QED
  BY <1>9, <1>10

\* The packet of a short message.
LEMMA ChangePacket ==
    ASSUME NEW b \in Seq(Nat), Change(b), NEW r, NEW ms
    PROVE  /\ EncodeMidi(b) \in Seq(Fours) /\ Len(EncodeMidi(b)) = 1
           /\ DecodePacket(Decoded(r, ms), EncodeMidi(b)[1]) = Decoded(r, Append(ms, b))
           /\ PacketBytes(EncodeMidi(b)[1]) = b
<1> DEFINE before == Decoded(r, ms)
<1>1. before.rest = r /\ before.messages = ms
  BY DEF Decoded
<1> HIDE DEF before
<1>2. CASE b[1] = 176 /\ Len(b) = 3
  <2> DEFINE p == <<11>> \o b
  <2>1. EncodeMidi(b) = <<p>>
    <3>1. b[1] = 176 /\ b[1] # 192 /\ b[1] # 240
      BY <1>2
    <3> HIDE DEF p
    <3>2. EncodeMidi(b) = <<<<11>> \o b>>
      BY <3>1, SMTT(20) DEF EncodeMidi
    <3>3. QED
      BY <3>2 DEF p
  <2>2. <<>> \in Seq(Nat) /\ Len(<<>>) = 0 /\ p \in Seq(Nat) /\ p \o <<>> = p
    BY ConcatEmptySeq
  <2>3. LET q == <<11>> \o b \o <<>>
        IN /\ q \in Seq(Nat) /\ Len(q) = 1 + Len(b) + Len(<<>>) /\ q[1] = 11
           /\ SubSeq(q, 2, 1 + Len(b)) = b
    BY <2>2, Headed
  <2>4. p \in Seq(Nat) /\ Len(p) = 4 /\ p[1] = 11 /\ SubSeq(p, 2, 4) = b
    BY <1>2, <2>2, <2>3
  <2> HIDE DEF p
  <2>5. p \in Fours
    BY <2>4 DEF Fours
  <2>6. /\ DecodePacket(before, p) = Decoded(before.rest, Append(before.messages, SubSeq(p, 2, 4)))
        /\ PacketBytes(p) = SubSeq(p, 2, 4)
    BY <2>4 DEF DecodePacket, PacketBytes
  <2>7. <<p>> \in Seq(Fours) /\ Len(<<p>>) = 1 /\ <<p>>[1] = p
    BY <2>5
  <2>8. QED
    BY <1>1, <2>1, <2>4, <2>6, <2>7 DEF before
<1>3. CASE b[1] = 192 /\ Len(b) = 2
  <2> DEFINE p == <<12>> \o b \o <<0>>
  <2>1. EncodeMidi(b) = <<p>>
    BY <1>3 DEF EncodeMidi
  <2>2. <<0>> \in Seq(Nat) /\ Len(<<0>>) = 1
    OBVIOUS
  <2>3. p \in Seq(Nat) /\ Len(p) = 1 + Len(b) + Len(<<0>>) /\ p[1] = 12
        /\ SubSeq(p, 2, 1 + Len(b)) = b
    BY <2>2, Headed
  <2>4. p \in Seq(Nat) /\ Len(p) = 4 /\ p[1] = 12 /\ SubSeq(p, 2, 3) = b
    BY <1>3, <2>2, <2>3
  <2> HIDE DEF p
  <2>5. p \in Fours
    BY <2>4 DEF Fours
  <2>6. /\ DecodePacket(before, p) = Decoded(before.rest, Append(before.messages, SubSeq(p, 2, 3)))
        /\ PacketBytes(p) = SubSeq(p, 2, 3)
    BY <2>4 DEF DecodePacket, PacketBytes
  <2>7. <<p>> \in Seq(Fours) /\ Len(<<p>>) = 1 /\ <<p>>[1] = p
    BY <2>5
  <2>8. QED
    BY <1>1, <2>1, <2>4, <2>6, <2>7 DEF before
<1>4. QED
  BY <1>2, <1>3 DEF Change

-----------------------------------------------------------------------------
(* The packets of a device: where a transfer may end, and what stays.      *)

Null == <<0, 0, 0, 0>>
PacketsOf(B) == [i \in 1 .. Len(B) |-> EncodeMidi(B[i]) \o <<Null>>]

\* The rest of a message, j of whose packets were decoded, and what follows it.
Remaining(B, k, j) ==
    From(EncodeMidi(B[k + 1]), j) \o (<<Null>> \o Stream(PacketsOf(B), k + 1))

\* The packets W come next, and k messages were received before.
MidiAt(B, k, r, W) ==
    /\ k \in 0 .. Len(B)
    /\ \/ k = Len(B) /\ r = <<>> /\ W = <<>>
       \/ r = <<>> /\ W = <<Null>> \o Stream(PacketsOf(B), k)
       \/ k < Len(B) /\ \E j \in Nat :
              /\ 3 * j < Len(B[k + 1]) /\ (j = 0 \/ Sysex(B[k + 1]))
              /\ r = SubSeq(B[k + 1], 1, 3 * j) /\ W = Remaining(B, k, j)

Messages == {b \in Seq(Nat) : Whole(b)}

LEMMA WholeEncoded ==
    ASSUME NEW b \in Messages
    PROVE  /\ b \in Seq(Nat) /\ Len(b) \in Nat \ {0} /\ (Sysex(b) \/ Change(b))
           /\ EncodeMidi(b) \in Seq(Fours) /\ Len(EncodeMidi(b)) \in Nat \ {0}
<1>1. b \in Seq(Nat) /\ (Sysex(b) \/ Change(b))
  BY DEF Messages, Whole
<1>2. Len(b) \in Nat \ {0}
  BY <1>1 DEF Sysex, Change
<1>3. CASE Sysex(b)
  <2>1. EncodeMidi(b) \in Seq(Fours)
        /\ \A j \in Nat : 3 * j < Len(b) => j + 1 <= Len(EncodeMidi(b))
    BY <1>1, <1>3, SysexPackets
  <2>2. 0 + 1 <= Len(EncodeMidi(b))
    <3>1. 0 \in Nat /\ 3 * 0 < Len(b)
      BY <1>2
    <3>2. QED
      BY <2>1, <3>1
  <2>3. QED
    BY <1>1, <1>2, <2>1, <2>2
<1>4. CASE Change(b)
  BY <1>1, <1>2, <1>4, ChangePacket
<1>5. QED
  BY <1>1, <1>3, <1>4

LEMMA NullIs == Null \in Fours /\ <<Null>> \in Seq(Fours)
  BY DEF Null, Fours

LEMMA PacketsTyped ==
    ASSUME NEW B \in Seq(Messages)
    PROVE  /\ PacketsOf(B) \in Seq(Seq(Fours)) /\ Len(PacketsOf(B)) = Len(B)
           /\ \A i \in 1 .. Len(B) : PacketsOf(B)[i] = EncodeMidi(B[i]) \o <<Null>>
<1>1. ASSUME NEW i \in 1 .. Len(B) PROVE EncodeMidi(B[i]) \o <<Null>> \in Seq(Fours)
  <2>1. EncodeMidi(B[i]) \in Seq(Fours) /\ <<Null>> \in Seq(Fours)
    BY WholeEncoded, NullIs
  <2>2. QED
    BY <2>1, ConcatProperties
<1>2. Len(B) \in Nat
  OBVIOUS
<1>3. QED
  BY <1>1, <1>2 DEF PacketsOf

\* Between two messages.
LEMMA MidiBetween ==
    ASSUME NEW B \in Seq(Messages), NEW k \in 0 .. Len(B)
    PROVE  MidiAt(B, k, <<>>, Stream(PacketsOf(B), k))
<1> DEFINE D == PacketsOf(B)
<1>1. D \in Seq(Seq(Fours)) /\ Len(D) = Len(B)
      /\ \A i \in 1 .. Len(B) : D[i] = EncodeMidi(B[i]) \o <<Null>>
  BY PacketsTyped
<1> HIDE DEF D
<1>2. CASE k = Len(B)
  <2>1. Stream(D, k) = <<>>
    BY <1>1, <1>2, StreamEnd
  <2>2. QED
    BY <1>2, <2>1 DEF MidiAt, D
<1>3. CASE k < Len(B)
  <2> DEFINE e == EncodeMidi(B[k + 1])
             s == Stream(D, k + 1)
  <2>1. k \in Nat /\ k + 1 \in Nat /\ k + 1 \in 1 .. Len(B) /\ B[k + 1] \in Messages
    BY <1>3
  <2>2. e \in Seq(Fours) /\ Len(B[k + 1]) \in Nat \ {0} /\ B[k + 1] \in Seq(Nat)
    BY <2>1, WholeEncoded
  <2>3. Stream(D, k) = (e \o <<Null>>) \o s /\ s \in Seq(Fours)
    BY <1>1, <1>3, <2>1, StreamHead, StreamType
  <2> HIDE DEF e, s
  <2>4. (e \o <<Null>>) \o s = e \o (<<Null>> \o s)
    BY <2>2, <2>3, NullIs, ConcatAssociative
  <2>5. From(e, 0) = e
    BY <2>2 DEF From
  <2>6. Stream(D, k) = Remaining(B, k, 0)
    BY <2>3, <2>4, <2>5 DEF Remaining, e, s, D
  <2>7. SubSeq(B[k + 1], 1, 3 * 0) = <<>> /\ 3 * 0 < Len(B[k + 1]) /\ 0 \in Nat
    BY <2>2
  <2>8. QED
    BY <1>3, <2>6, <2>7 DEF MidiAt, D
<1>4. QED
  BY <1>2, <1>3

\* Taking the first of a sequence.
LEMMA FirstOff ==
    ASSUME NEW S, NEW x \in S, NEW t \in Seq(S)
    PROVE  (<<x>> \o t)[1] = x /\ From(<<x>> \o t, 1) = t
<1>1. <<x>> \in Seq(S) /\ Len(<<x>>) = 1
  OBVIOUS
<1>2. SubSeq(<<x>> \o t, 1 + 1, 1 + Len(t)) = t /\ Len(<<x>> \o t) = 1 + Len(t)
  BY <1>1, LastPart, ConcatProperties
<1>3. QED
  BY <1>2 DEF From

LEMMA FromHead ==
    ASSUME NEW S, NEW e \in Seq(S), NEW j \in Nat, j < Len(e)
    PROVE  /\ From(e, j) = <<e[j + 1]>> \o From(e, j + 1) /\ e[j + 1] \in S
           /\ From(e, j + 1) \in Seq(S)
  BY DEF From

LEMMA FromEnd ==
    ASSUME NEW S, NEW e \in Seq(S)
    PROVE  From(e, Len(e)) = <<>>
  BY DEF From

LEMMA MidiCases ==
    ASSUME NEW B, NEW k, NEW r, NEW W, MidiAt(B, k, r, W), W # <<>>
    PROVE  \/ r = <<>> /\ W = <<Null>> \o Stream(PacketsOf(B), k)
           \/ k < Len(B) /\ \E j \in Nat :
                  /\ 3 * j < Len(B[k + 1]) /\ (j = 0 \/ Sysex(B[k + 1]))
                  /\ r = SubSeq(B[k + 1], 1, 3 * j) /\ W = Remaining(B, k, j)
  BY DEF MidiAt

\* What a packet does.
LEMMA MidiStep ==
    ASSUME NEW B \in Seq(Messages), NEW k, NEW r, NEW W, MidiAt(B, k, r, W), W # <<>>, NEW ms
    PROVE  LET d == DecodePacket(Decoded(r, ms), W[1])
           IN \/ MidiAt(B, k, d.rest, From(W, 1)) /\ d.messages = ms
              \/ /\ k < Len(B) /\ MidiAt(B, k + 1, d.rest, From(W, 1))
                 /\ d.messages = Append(ms, B[k + 1])
<1> DEFINE D == PacketsOf(B)
           d == DecodePacket(Decoded(r, ms), W[1])
<1>1. k \in 0 .. Len(B) /\ Len(B) \in Nat
  BY DEF MidiAt
<1>2. \A i \in Nat : Stream(D, i) \in Seq(Fours)
  BY PacketsTyped, StreamType
<1>3. CASE r = <<>> /\ W = <<Null>> \o Stream(D, k)
  <2>1. W[1] = Null /\ From(W, 1) = Stream(D, k)
    BY <1>1, <1>2, <1>3, NullIs, FirstOff
  <2>2. d = Decoded(r, ms)
    BY <2>1 DEF DecodePacket, Null
  <2>3. MidiAt(B, k, <<>>, Stream(D, k))
    BY <1>1, MidiBetween
  <2> HIDE DEF d, D
  <2>4. d.rest = <<>> /\ d.messages = ms
    BY <1>3, <2>2 DEF Decoded
  <2>5. QED
    BY <2>1, <2>3, <2>4 DEF d
<1>4. ASSUME k < Len(B), NEW j \in Nat, 3 * j < Len(B[k + 1]), j = 0 \/ Sysex(B[k + 1]),
             r = SubSeq(B[k + 1], 1, 3 * j), W = Remaining(B, k, j)
      PROVE  \/ MidiAt(B, k, d.rest, From(W, 1)) /\ d.messages = ms
             \/ MidiAt(B, k + 1, d.rest, From(W, 1)) /\ d.messages = Append(ms, B[k + 1])
  <2> DEFINE b == B[k + 1]
             e == EncodeMidi(b)
             s == <<Null>> \o Stream(D, k + 1)
  <2>1. b \in Messages /\ b \in Seq(Nat) /\ Len(b) \in Nat \ {0} /\ (Sysex(b) \/ Change(b))
        /\ e \in Seq(Fours) /\ Len(e) \in Nat \ {0}
    <3>1. b \in Messages
      BY <1>1, <1>4
    <3> HIDE DEF b
    <3>2. QED
      BY <3>1, WholeEncoded
  <2>2. s \in Seq(Fours)
    BY <1>1, <1>2, NullIs, ConcatProperties
  <2>3. j < Len(e)
    <3>1. CASE Sysex(b)
      BY <1>4, <2>1, <3>1, SysexPackets
    <3>2. CASE ~Sysex(b)
      BY <1>4, <2>1, <3>2
    <3>3. QED
      BY <3>1, <3>2
  <2>4. W = From(e, j) \o s
    BY <1>4 DEF Remaining
  <2> HIDE DEF e, s
  <2>5. From(e, j) = <<e[j + 1]>> \o From(e, j + 1) /\ e[j + 1] \in Fours
        /\ From(e, j + 1) \in Seq(Fours)
    BY <2>1, <2>3, FromHead
  <2>6. W = <<e[j + 1]>> \o (From(e, j + 1) \o s)
    <3>1. <<e[j + 1]>> \in Seq(Fours)
      BY <2>5
    <3>2. QED
      BY <2>2, <2>4, <2>5, <3>1, ConcatAssociative
  <2>7. From(e, j + 1) \o s \in Seq(Fours)
    BY <2>2, <2>5, ConcatProperties
  <2>8. W[1] = e[j + 1] /\ From(W, 1) = From(e, j + 1) \o s
    BY <2>5, <2>6, <2>7, FirstOff
  <2>9. ASSUME j + 1 = Len(e), d = Decoded(<<>>, Append(ms, b))
        PROVE  MidiAt(B, k + 1, d.rest, From(W, 1)) /\ d.messages = Append(ms, b)
    <3>1. From(e, j + 1) = <<>>
      BY <2>1, <2>9, FromEnd
    <3>2. From(W, 1) = s
      BY <2>2, <2>8, <3>1, ConcatEmptySeq
    <3> HIDE DEF d
    <3>3. d.rest = <<>> /\ d.messages = Append(ms, b)
      BY <2>9 DEF Decoded
    <3>4. k + 1 \in 0 .. Len(B)
      BY <1>1, <1>4
    <3>5. QED
      BY <3>2, <3>3, <3>4 DEF MidiAt, s
  <2>10. CASE Sysex(b)
    <3>1. e[j + 1] = PacketOf(Chunk(b, j)) /\ (3 * j + 3 < Len(b) <=> j + 1 < Len(e))
      BY <1>4, <2>1, <2>10, SysexPackets DEF e
    <3>2. d = IF 3 * j + 3 < Len(b) THEN Decoded(SubSeq(b, 1, 3 * j + 3), ms)
                                    ELSE Decoded(<<>>, Append(ms, b))
      <4>1. d = DecodePacket(Decoded(SubSeq(b, 1, 3 * j), ms), PacketOf(Chunk(b, j)))
        BY <1>4, <2>8, <3>1
      <4> HIDE DEF b, d
      <4>2. 3 * j < Len(b)
        BY <1>4 DEF b
      <4>3. QED
        BY <2>1, <2>10, <4>1, <4>2, ChunkDecoded
    <3>3. CASE 3 * j + 3 < Len(b)
      <4> HIDE DEF d
      <4>1. d.rest = SubSeq(b, 1, 3 * j + 3) /\ d.messages = ms
        BY <3>2, <3>3 DEF Decoded
      <4>2. j + 1 \in Nat /\ 3 * (j + 1) = 3 * j + 3
        OBVIOUS
      <4>3. From(W, 1) = Remaining(B, k, j + 1)
        BY <2>8 DEF Remaining, e, s
      <4>4. MidiAt(B, k, d.rest, From(W, 1))
        BY <1>1, <1>4, <2>10, <3>3, <4>1, <4>2, <4>3 DEF MidiAt
      <4>5. QED
        BY <4>1, <4>4
    <3>4. CASE ~(3 * j + 3 < Len(b))
      <4>1. j + 1 = Len(e)
        BY <2>1, <2>3, <3>1, <3>4
      <4>2. d = Decoded(<<>>, Append(ms, b))
        BY <3>2, <3>4
      <4>3. QED
        BY <2>9, <4>1, <4>2
    <3>5. QED
      BY <3>3, <3>4
  <2>11. CASE Change(b) /\ ~Sysex(b)
    <3>1. j = 0 /\ r = <<>>
      BY <1>4, <2>1, <2>11
    <3>2. Len(e) = 1 /\ DecodePacket(Decoded(<<>>, ms), e[1]) = Decoded(<<>>, Append(ms, b))
      BY <2>1, <2>11, ChangePacket DEF e
    <3>3. d = Decoded(<<>>, Append(ms, b))
      BY <2>8, <3>1, <3>2
    <3>4. QED
      BY <2>9, <3>1, <3>2, <3>3
  <2>12. QED
    BY <2>1, <2>10, <2>11
<1> HIDE DEF d
<1>5. \/ r = <<>> /\ W = <<Null>> \o Stream(D, k)
      \/ k < Len(B) /\ \E j \in Nat :
              /\ 3 * j < Len(B[k + 1]) /\ (j = 0 \/ Sysex(B[k + 1]))
              /\ r = SubSeq(B[k + 1], 1, 3 * j) /\ W = Remaining(B, k, j)
  BY MidiCases
<1>6. QED
  BY <1>3, <1>4, <1>5 DEF d

-----------------------------------------------------------------------------
(* A whole transfer.                                                       *)

IsDecoded(g, r, W, n) ==
    g = [i \in 0 .. n |-> IF i = 0 THEN Decoded(r, <<>>) ELSE DecodePacket(g[i - 1], W[i])]

LEMMA DecodedExists ==
    ASSUME NEW r, NEW W, NEW n \in Nat
    PROVE  \E g : IsDecoded(g, r, W, n)
<1> DEFINE T == {k \in Nat : \E g : IsDecoded(g, r, W, k)}
<1>1. 0 \in T
  <2> DEFINE g == [i \in 0 .. 0 |-> Decoded(r, <<>>)]
  <2>1. \A i \in 0 .. 0 : i = 0
    OBVIOUS
  <2>2. g = [i \in 0 .. 0 |-> IF i = 0 THEN Decoded(r, <<>>) ELSE DecodePacket(g[i - 1], W[i])]
    BY <2>1, Zenon
  <2>3. QED
    BY <2>2, Zenon DEF IsDecoded
<1>2. ASSUME NEW k \in Nat, k \in T PROVE k + 1 \in T
  <2>1. PICK g : IsDecoded(g, r, W, k)
    BY <1>2
  <2> DEFINE h == [i \in 0 .. k + 1 |-> IF i <= k THEN g[i] ELSE DecodePacket(g[k], W[k + 1])]
  <2>2. ASSUME NEW i \in 0 .. k + 1
        PROVE  h[i] = IF i = 0 THEN Decoded(r, <<>>) ELSE DecodePacket(h[i - 1], W[i])
    <3>1. \A l \in 0 .. k : g[l] = IF l = 0 THEN Decoded(r, <<>>) ELSE DecodePacket(g[l - 1], W[l])
      <4>1. g = [l \in 0 .. k |-> IF l = 0 THEN Decoded(r, <<>>) ELSE DecodePacket(g[l - 1], W[l])]
        BY <2>1 DEF IsDecoded
      <4>2. QED
        BY <4>1, Zenon
    <3>2. CASE i <= k
      <4>1. i \in 0 .. k /\ h[i] = g[i] /\ (i # 0 => h[i - 1] = g[i - 1])
        BY <3>2
      <4>2. QED
        BY <3>1, <4>1
    <3>3. CASE ~(i <= k)
      <4>1. i = k + 1 /\ i # 0 /\ i - 1 = k /\ h[i] = DecodePacket(g[k], W[k + 1]) /\ h[k] = g[k]
        BY <3>3
      <4>2. QED
        BY <4>1
    <3>4. QED
      BY <3>2, <3>3
  <2>3. h = [i \in 0 .. k + 1 |-> IF i = 0 THEN Decoded(r, <<>>) ELSE DecodePacket(h[i - 1], W[i])]
    BY <2>2, Zenon
  <2>4. IsDecoded(h, r, W, k + 1)
    BY <2>3, Zenon DEF IsDecoded
  <2> HIDE DEF h
  <2>5. QED
    BY <2>4
<1> HIDE DEF T
<1>3. Nat \subseteq T
  BY <1>1, <1>2, Induct
<1>4. QED
  BY <1>3 DEF T

LEMMA DecodedIs ==
    ASSUME NEW r, NEW bytes, NEW W, W = Packets(bytes), Len(W) \in Nat
    PROVE  \E g : /\ DecodeMidi(r, bytes) = g[Len(W)] /\ g[0] = Decoded(r, <<>>)
                  /\ \A i \in 1 .. Len(W) : g[i] = DecodePacket(g[i - 1], W[i])
<1> DEFINE n == Len(W)
           g == CHOOSE g : IsDecoded(g, r, W, n)
<1>1. IsDecoded(g, r, W, n)
  <2>1. \E f : IsDecoded(f, r, W, n)
    BY DecodedExists
  <2>2. QED
    BY <2>1, Zenon
<1>2. DecodeMidi(r, bytes) = g[n]
  BY Zenon DEF DecodeMidi, IsDecoded
<1> HIDE DEF g
<1>3. g = [i \in 0 .. n |-> IF i = 0 THEN Decoded(r, <<>>) ELSE DecodePacket(g[i - 1], W[i])]
  BY <1>1 DEF IsDecoded
<1>4. 0 \in 0 .. n /\ \A i \in 1 .. n : i \in 0 .. n /\ i # 0
  OBVIOUS
<1> HIDE DEF n
<1>5. g[0] = Decoded(r, <<>>) /\ \A i \in 1 .. n : g[i] = DecodePacket(g[i - 1], W[i])
  BY <1>3, <1>4, Zenon
<1>6. QED
  BY <1>2, <1>5 DEF n

\* The messages from k + 1 to l.
Between(B, k, l) == SubSeq(B, k + 1, l)

LEMMA BetweenGrows ==
    ASSUME NEW S, NEW B \in Seq(S), NEW k \in Nat, NEW l \in Nat, k <= l, l < Len(B)
    PROVE  Append(Between(B, k, l), B[l + 1]) = Between(B, k, l + 1)
  BY DEF Between

LEMMA BetweenSame ==
    ASSUME NEW S, NEW B \in Seq(S), NEW k \in Nat, k <= Len(B)
    PROVE  Between(B, k, k) = <<>>
  BY DEF Between

\* What a transfer of the packets V in front of U does.
LEMMA MidiTransfer ==
    ASSUME NEW B \in Seq(Messages), NEW k, NEW r, NEW V \in Seq(Fours), NEW U \in Seq(Fours),
           MidiAt(B, k, r, V \o U), NEW bytes, Packets(bytes) = V
    PROVE  \E l \in k .. Len(B) :
               /\ MidiAt(B, l, DecodeMidi(r, bytes).rest, U)
               /\ DecodeMidi(r, bytes).messages = Between(B, k, l)
<1> DEFINE n == Len(V)
           W == V \o U
<1>1. n \in Nat /\ W \in Seq(Fours) /\ Len(W) = n + Len(U) /\ Len(U) \in Nat
      /\ (\A i \in 1 .. n : W[i] = V[i]) /\ k \in 0 .. Len(B) /\ Len(B) \in Nat
  BY ConcatProperties DEF MidiAt
<1>2. PICK g : /\ DecodeMidi(r, bytes) = g[n] /\ g[0] = Decoded(r, <<>>)
               /\ \A i \in 1 .. n : g[i] = DecodePacket(g[i - 1], V[i])
  BY <1>1, DecodedIs
<1> DEFINE Good(i) == \E l \in k .. Len(B) :
                          g[i] = Decoded(g[i].rest, Between(B, k, l))
                          /\ MidiAt(B, l, g[i].rest, From(W, i))
           T == {i \in Nat : i <= n => Good(i)}
<1>3. 0 \in T
  <2>1. g[0].rest = r
    BY <1>2 DEF Decoded
  <2>2. From(W, 0) = W
    BY <1>1 DEF From
  <2>3. Between(B, k, k) = <<>>
    BY <1>1, BetweenSame
  <2>4. k \in k .. Len(B)
    BY <1>1
  <2> HIDE DEF W
  <2>5. Good(0)
    BY <1>2, <2>1, <2>2, <2>3, <2>4 DEF W
  <2>6. QED
    BY <2>5
<1>4. ASSUME NEW i \in Nat, i \in T PROVE i + 1 \in T
  <2> SUFFICES ASSUME i + 1 <= n PROVE Good(i + 1)
    OBVIOUS
  <2> DEFINE X == From(W, i)
             q == g[i].rest
  <2>1. PICK l \in k .. Len(B) : g[i] = Decoded(q, Between(B, k, l)) /\ MidiAt(B, l, q, X)
    BY <1>4
  <2>2. g[i + 1] = DecodePacket(g[i], V[i + 1]) /\ i + 1 \in 1 .. n
    BY <1>2
  <2>3. X # <<>> /\ X[1] = V[i + 1] /\ From(X, 1) = From(W, i + 1)
    <3>1. i < Len(W)
      BY <1>1, <2>2
    <3>2. X = <<W[i + 1]>> \o From(W, i + 1) /\ W[i + 1] \in Fours /\ From(W, i + 1) \in Seq(Fours)
      BY <1>1, <3>1, FromHead
    <3> HIDE DEF X
    <3>3. X[1] = W[i + 1] /\ From(X, 1) = From(W, i + 1)
      BY <3>2, FirstOff
    <3>4. X # <<>>
      BY <3>2
    <3>5. QED
      BY <1>1, <2>2, <3>3, <3>4
  <2> DEFINE d == DecodePacket(Decoded(q, Between(B, k, l)), X[1])
  <2>4. d = g[i + 1]
    BY <2>1, <2>2, <2>3
  <2>5. \/ MidiAt(B, l, d.rest, From(X, 1)) /\ d.messages = Between(B, k, l)
        \/ /\ l < Len(B) /\ MidiAt(B, l + 1, d.rest, From(X, 1))
           /\ d.messages = Append(Between(B, k, l), B[l + 1])
    <3> HIDE DEF X, q
    <3>1. QED
      BY <2>1, <2>3, MidiStep
  <2>6. d = Decoded(d.rest, d.messages)
    BY DEF DecodePacket, Decoded
  <2> HIDE DEF d, X
  <2>7. CASE MidiAt(B, l, d.rest, From(X, 1)) /\ d.messages = Between(B, k, l)
    BY <2>3, <2>4, <2>6, <2>7
  <2>8. CASE /\ l < Len(B) /\ MidiAt(B, l + 1, d.rest, From(X, 1))
             /\ d.messages = Append(Between(B, k, l), B[l + 1])
    <3>1. d.messages = Between(B, k, l + 1) /\ l + 1 \in k .. Len(B)
      BY <1>1, <2>1, <2>8, BetweenGrows
    <3>2. QED
      BY <2>3, <2>4, <2>6, <2>8, <3>1
  <2>9. QED
    BY <2>5, <2>7, <2>8
<1> HIDE DEF T
<1>5. Nat \subseteq T
  BY <1>3, <1>4, Induct
<1>6. Good(n)
  BY <1>1, <1>5 DEF T
<1>7. From(W, n) = U
  BY <1>1, LastPart DEF From
<1> HIDE DEF W
<1>8. PICK l \in k .. Len(B) : g[n] = Decoded(g[n].rest, Between(B, k, l))
                               /\ MidiAt(B, l, g[n].rest, U)
  BY <1>6, <1>7
<1>9. g[n].messages = Between(B, k, l)
  BY <1>8 DEF Decoded
<1>10. QED
  BY <1>2, <1>8, <1>9

-----------------------------------------------------------------------------
(* The framer of a PODxt.                                                  *)

LEMMA MinIs ==
    ASSUME NEW I \in SUBSET Nat, I # {}
    PROVE  Min(I) \in I /\ \A i \in I : Min(I) <= i
<1>1. \E x \in I : \A y \in I : x <= y
  BY Least
<1>2. QED
  BY <1>1 DEF Min

\* Where the message at p ends.
LEMMA MessageEndIs ==
    ASSUME NEW s \in Seq(Nat), NEW p \in 1 .. Len(s)
    PROVE  /\ Command(s[p]) # 240 => MessageEnd(s, p) = Len(s)
           /\ MessageEnd(s, p) \in {0} \cup p .. Len(s)
           /\ Command(s[p]) = 240 =>
                  /\ (\A i \in p .. Len(s) : s[i] # 247) => MessageEnd(s, p) = 0
                  /\ \A e \in p .. Len(s) :
                         s[e] = 247 /\ (\A i \in p .. e - 1 : s[i] # 247) => MessageEnd(s, p) = e
<1> DEFINE I == {i \in p .. Len(s) : s[i] = 247}
<1>1. I \in SUBSET Nat /\ Len(s) \in Nat /\ p \in Nat
  OBVIOUS
<1>2. Command(s[p]) = 240 => MessageEnd(s, p) = IF I # {} THEN Min(I) ELSE 0
  BY DEF MessageEnd, SelectInSubSeq
<1>3. Command(s[p]) # 240 => MessageEnd(s, p) = Len(s)
  BY DEF MessageEnd
<1>4. I # {} => Min(I) \in I /\ \A i \in I : Min(I) <= i
  <2> HIDE DEF I
  <2>1. QED
    BY <1>1, MinIs
<1> DEFINE m == Min(I)
<1> HIDE DEF m
<1>5. Command(s[p]) = 240 => MessageEnd(s, p) = IF I # {} THEN m ELSE 0
  BY <1>2 DEF m
<1>6. I # {} => m \in I /\ \A i \in I : m <= i
  BY <1>4 DEF m
<1> DEFINE f == MessageEnd(s, p)
           c == Command(s[p])
<1> HIDE DEF f, c
<1>7. CASE c # 240
  <2>1. f = Len(s)
    BY <1>3, <1>7 DEF f, c
  <2>2. QED
    BY <1>1, <1>7, <2>1 DEF f, c
<1>8. CASE c = 240
  <2>1. f = IF I # {} THEN m ELSE 0
    BY <1>5, <1>8 DEF f, c
  <2>2. f \in {0} \cup p .. Len(s)
    BY <1>1, <1>6, <2>1
  <2>3. (\A i \in p .. Len(s) : s[i] # 247) => f = 0
    BY <1>1, <1>6, <2>1
  <2>4. ASSUME NEW e \in p .. Len(s), s[e] = 247, \A i \in p .. e - 1 : s[i] # 247
        PROVE  f = e
    <3>1. e \in I /\ m \in I /\ m <= e /\ f = m
      BY <1>6, <2>1, <2>4
    <3>2. ~(m < e)
      BY <1>1, <2>4, <3>1
    <3>3. QED
      BY <1>1, <3>1, <3>2
  <2>5. QED
    BY <1>8, <2>2, <2>3, <2>4 DEF f, c
<1>9. QED
  BY <1>7, <1>8

IsFrom(g, s, q) ==
    g = [p \in q .. Len(s) + 1 |->
            IF p > Len(s) THEN Decoded(<<>>, <<>>)
            ELSE LET end == MessageEnd(s, p)
                 IN IF end = 0 THEN Decoded(Corrected(SubSeq(s, p, Len(s))), <<>>)
                    ELSE [g[end + 1] EXCEPT !.messages =
                             <<Corrected(SubSeq(s, p, end))>> \o @]]

LEMMA FromStep ==
    ASSUME NEW s \in Seq(Nat), NEW q \in 1 .. Len(s), NEW g, IsFrom(g, s, q + 1)
    PROVE  \E h : IsFrom(h, s, q)
<1> DEFINE n == Len(s)
           V(f, p) == IF p > n THEN Decoded(<<>>, <<>>)
                      ELSE LET end == MessageEnd(s, p)
                           IN IF end = 0 THEN Decoded(Corrected(SubSeq(s, p, n)), <<>>)
                              ELSE [f[end + 1] EXCEPT !.messages =
                                       <<Corrected(SubSeq(s, p, end))>> \o @]
           h == [p \in q .. n + 1 |-> IF p = q THEN V(g, q) ELSE g[p]]
<1>1. n \in Nat /\ q \in Nat /\ 1 <= q /\ q <= n
  OBVIOUS
<1>2. \A p \in q + 1 .. n + 1 : g[p] = V(g, p)
  <2>1. g = [p \in q + 1 .. n + 1 |-> V(g, p)]
    BY Zenon DEF IsFrom
  <2> HIDE DEF V
  <2>2. QED
    BY <2>1, Zenon
<1>3. \A p \in q .. n : MessageEnd(s, p) \in {0} \cup p .. n
  <2>1. \A p \in q .. n : p \in 1 .. n
    BY <1>1
  <2>2. QED
    BY <2>1, MessageEndIs
<1>4. ASSUME NEW p \in q .. n + 1 PROVE V(h, p) = V(g, p)
  <2>1. CASE p > n
    BY <2>1
  <2>2. CASE ~(p > n)
    <3> DEFINE end == MessageEnd(s, p)
    <3>1. p \in q .. n /\ end \in {0} \cup p .. n
      <4>1. p \in q .. n
        BY <1>1, <2>2
      <4>2. QED
        BY <1>3, <4>1
    <3>2. CASE end = 0
      BY <3>2
    <3>3. CASE end # 0
      <4>1. end + 1 \in q .. n + 1 /\ end + 1 # q
        BY <1>1, <3>1, <3>3
      <4> HIDE DEF end
      <4>2. h[end + 1] = g[end + 1]
        BY <4>1
      <4> HIDE DEF h
      <4>3. QED
        BY <4>2, Zenon DEF end
    <3>4. QED
      BY <3>2, <3>3
  <2>3. QED
    BY <2>1, <2>2
<1> HIDE DEF V, h
<1>5. ASSUME NEW p \in q .. n + 1 PROVE h[p] = V(h, p)
  <2>1. CASE p = q
    BY <1>4, <2>1 DEF h
  <2>2. CASE p # q
    <3>1. p \in q + 1 .. n + 1
      BY <1>1, <2>2
    <3>2. h[p] = g[p]
      BY <2>2 DEF h
    <3>3. QED
      BY <1>2, <1>4, <3>1, <3>2
  <2>3. QED
    BY <2>1, <2>2
<1>6. h = [p \in q .. n + 1 |-> V(h, p)]
  <2>1. h = [p \in q .. n + 1 |-> h[p]]
    BY DEF h
  <2>2. QED
    BY <1>5, <2>1, Zenon
<1>7. IsFrom(h, s, q)
  BY <1>6, Zenon DEF IsFrom, V
<1>8. QED
  BY <1>7

LEMMA FromExists ==
    ASSUME NEW s \in Seq(Nat)
    PROVE  \E g : IsFrom(g, s, 1)
<1> DEFINE n == Len(s)
           T == {k \in Nat : k <= n => \E g : IsFrom(g, s, n + 1 - k)}
<1>1. n \in Nat
  OBVIOUS
<1>2. 0 \in T
  <2> DEFINE g == [p \in n + 1 .. n + 1 |-> Decoded(<<>>, <<>>)]
  <2>1. \A p \in n + 1 .. n + 1 : p > n
    BY <1>1
  <2>2. IsFrom(g, s, n + 1)
    <3> DEFINE W(p) == LET end == MessageEnd(s, p)
                       IN IF end = 0 THEN Decoded(Corrected(SubSeq(s, p, n)), <<>>)
                          ELSE [g[end + 1] EXCEPT !.messages =
                                   <<Corrected(SubSeq(s, p, end))>> \o @]
    <3> HIDE DEF W
    <3>1. g = [p \in n + 1 .. n + 1 |-> IF p > n THEN Decoded(<<>>, <<>>) ELSE W(p)]
      BY <2>1, Zenon
    <3>2. QED
      BY <3>1, Zenon DEF IsFrom, W
  <2> HIDE DEF g
  <2>3. n + 1 - 0 = n + 1
    BY <1>1
  <2>4. QED
    BY <2>2, <2>3
<1>3. ASSUME NEW k \in Nat, k \in T PROVE k + 1 \in T
  <2> SUFFICES ASSUME k + 1 <= n PROVE \E g : IsFrom(g, s, n + 1 - (k + 1))
    OBVIOUS
  <2>1. PICK g : IsFrom(g, s, n + 1 - k)
    BY <1>1, <1>3
  <2> DEFINE q == n + 1 - (k + 1)
  <2>2. q \in 1 .. n /\ q + 1 = n + 1 - k
    BY <1>1
  <2> HIDE DEF q, n
  <2>3. q \in 1 .. Len(s) /\ IsFrom(g, s, q + 1)
    BY <2>1, <2>2 DEF n
  <2>4. \E h : IsFrom(h, s, q)
    BY <2>3, FromStep
  <2>5. QED
    BY <2>4 DEF q
<1> HIDE DEF T
<1>4. Nat \subseteq T
  BY <1>2, <1>3, Induct
<1>5. \E g : IsFrom(g, s, n + 1 - n)
  BY <1>1, <1>4 DEF T
<1>6. n + 1 - n = 1
  BY <1>1
<1>7. QED
  BY <1>5, <1>6

IsXt(g, s) ==
    /\ g[Len(s) + 1] = Decoded(<<>>, <<>>)
    /\ \A p \in 1 .. Len(s) :
           g[p] = IF MessageEnd(s, p) = 0
                  THEN Decoded(Corrected(SubSeq(s, p, Len(s))), <<>>)
                  ELSE [g[MessageEnd(s, p) + 1] EXCEPT !.messages =
                           <<Corrected(SubSeq(s, p, MessageEnd(s, p)))>> \o @]

LEMMA XtDecodedIs ==
    ASSUME NEW r \in Seq(Nat), NEW w \in Seq(Nat), NEW s, s = r \o w
    PROVE  \E g : DecodeXt(r, w) = g[1] /\ IsXt(g, s)
<1>1. s \in Seq(Nat) /\ Len(s) \in Nat
  BY ConcatProperties
<1> DEFINE g == CHOOSE g : IsFrom(g, s, 1)
<1>2. IsFrom(g, s, 1)
  <2>1. \E f : IsFrom(f, s, 1)
    BY <1>1, FromExists
  <2>2. QED
    BY <2>1, Zenon
<1>3. DecodeXt(r, w) = g[1]
  BY Zenon DEF DecodeXt, IsFrom
<1> HIDE DEF g
<1> DEFINE W(p) == IF MessageEnd(s, p) = 0
                   THEN Decoded(Corrected(SubSeq(s, p, Len(s))), <<>>)
                   ELSE [g[MessageEnd(s, p) + 1] EXCEPT !.messages =
                            <<Corrected(SubSeq(s, p, MessageEnd(s, p)))>> \o @]
<1>4. g = [p \in 1 .. Len(s) + 1 |-> IF p > Len(s) THEN Decoded(<<>>, <<>>) ELSE W(p)]
  BY <1>2, Zenon DEF IsFrom
<1> HIDE DEF W
<1>5. Len(s) + 1 > Len(s) /\ Len(s) + 1 \in 1 .. Len(s) + 1
      /\ \A p \in 1 .. Len(s) : p \in 1 .. Len(s) + 1 /\ ~(p > Len(s))
  BY <1>1
<1>6. g[Len(s) + 1] = Decoded(<<>>, <<>>) /\ \A p \in 1 .. Len(s) : g[p] = W(p)
  BY <1>4, <1>5, Zenon
<1>7. QED
  BY <1>3, <1>6, Zenon DEF W, IsXt

-----------------------------------------------------------------------------
(* The PODxt's messages in their stream.                                   *)

LEMMA CommandIs ==
    ASSUME NEW b \in Messages, NEW c, c = DeviceCommand(b)
    PROVE  /\ c \in Seq(Nat) /\ Len(c) = Len(b) /\ c[1] = b[1] + 2
           /\ \A i \in 2 .. Len(b) : c[i] = b[i]
           /\ Corrected(c) = b
<1>1. b \in Seq(Nat) /\ Len(b) \in Nat \ {0} /\ (Sysex(b) \/ Change(b))
  BY WholeEncoded
<1>2. b[1] \in {176, 192, 240}
  BY <1>1 DEF Sysex, Change
<1>3. c = [b EXCEPT ![1] = b[1] + 2]
  BY <1>2 DEF DeviceCommand
<1>4. /\ c \in Seq(Nat) /\ Len(c) = Len(b) /\ c[1] = b[1] + 2
      /\ \A i \in 2 .. Len(b) : c[i] = b[i]
  BY <1>1, <1>2, <1>3
<1>5. Corrected(c) = b
  <2>1. Command(c[1]) = b[1]
    BY <1>2, <1>4 DEF Command
  <2>2. Corrected(c) = [c EXCEPT ![1] = b[1]]
    BY <2>1 DEF Corrected
  <2>3. QED
    BY <1>1, <1>3, <1>4, <2>2
<1>6. QED
  BY <1>4, <1>5

LEMMA FromIs ==
    ASSUME NEW S, NEW s \in Seq(S), NEW j \in Nat, j <= Len(s)
    PROVE  /\ From(s, j) \in Seq(S) /\ Len(From(s, j)) = Len(s) - j
           /\ \A i \in 1 .. Len(s) - j : From(s, j)[i] = s[j + i]
           /\ SubSeq(s, 1, j) \in Seq(S) /\ Len(SubSeq(s, 1, j)) = j
           /\ \A i \in 1 .. j : SubSeq(s, 1, j)[i] = s[i]
           /\ s = SubSeq(s, 1, j) \o From(s, j)
<1>1. From(s, j) \in Seq(S) /\ Len(From(s, j)) = Len(s) - j
  BY DEF From
<1>2. \A i \in 1 .. Len(s) - j : From(s, j)[i] = s[j + i]
  BY DEF From
<1>3. SubSeq(s, 1, j) \in Seq(S) /\ Len(SubSeq(s, 1, j)) = j
      /\ \A i \in 1 .. j : SubSeq(s, 1, j)[i] = s[i]
  OBVIOUS
<1>4. s = SubSeq(s, 1, j) \o From(s, j)
  <2> DEFINE n == Len(s)
  <2>1. 1 \in 1 .. Len(s) + 1 /\ j \in 1 - 1 .. Len(s) /\ n \in j .. Len(s)
    OBVIOUS
  <2> HIDE DEF n
  <2>2. SubSeq(s, 1, j) \o SubSeq(s, j + 1, n) = SubSeq(s, 1, n)
    BY <2>1, ConcatAdjacentSubSeq
  <2>3. SubSeq(s, 1, n) = s
    BY SubSeqFull DEF n
  <2>4. QED
    BY <2>2, <2>3 DEF From, n
<1>5. QED
  BY <1>1, <1>2, <1>3, <1>4

\* Two ways to cut a sequence.
LEMMA Cuts ==
    ASSUME NEW S, NEW x \in Seq(S), NEW u \in Seq(S), NEW c \in Seq(S), NEW t \in Seq(S),
           x \o u = c \o t, Len(c) <= Len(x)
    PROVE  SubSeq(x, 1, Len(c)) = c /\ From(x, Len(c)) \o u = t
<1> DEFINE l == Len(c)
           a == SubSeq(x, 1, l)
           f == From(x, l)
           v == f \o u
<1>1. l \in Nat /\ a \in Seq(S) /\ Len(a) = l /\ f \in Seq(S) /\ x = a \o f
  BY FromIs
<1> HIDE DEF a, f, l
<1>2. v \in Seq(S) /\ x \o u = a \o v
  <2>1. a \in Seq(S) /\ f \in Seq(S)
    BY <1>1
  <2>2. v \in Seq(S)
    BY <2>1, ConcatProperties
  <2>3. (a \o f) \o u = a \o (f \o u)
    BY <2>1, ConcatAssociative
  <2>4. QED
    BY <1>1, <2>2, <2>3
<1> HIDE DEF v
<1>3. a \o v = c \o t
  BY <1>2
<1>4. a = SubSeq(a \o v, 1, l) /\ c = SubSeq(c \o t, 1, l)
  <2>1. Len(c) = l
    BY DEF l
  <2>2. a = SubSeq(a \o v, 1, Len(a))
    BY <1>1, <1>2, FirstPart
  <2>3. c = SubSeq(c \o t, 1, Len(c))
    BY FirstPart
  <2>4. QED
    BY <1>1, <2>1, <2>2, <2>3
<1>5. Len(v) = Len(t) /\ Len(v) \in Nat
  <2>1. a \in Seq(S) /\ v \in Seq(S)
    BY <1>1, <1>2
  <2>2. Len(a \o v) = Len(a) + Len(v) /\ Len(c \o t) = Len(c) + Len(t)
    BY <2>1, ConcatProperties
  <2>3. Len(t) \in Nat /\ Len(v) \in Nat
    BY <2>1
  <2>4. Len(c) = l
    BY DEF l
  <2>5. QED
    BY <1>1, <1>3, <2>2, <2>3, <2>4
<1>6. v = SubSeq(a \o v, l + 1, l + Len(v)) /\ t = SubSeq(c \o t, l + 1, l + Len(t))
  <2>1. Len(c) = l
    BY DEF l
  <2>2. v = SubSeq(a \o v, Len(a) + 1, Len(a) + Len(v))
    BY <1>1, <1>2, LastPart
  <2>3. t = SubSeq(c \o t, Len(c) + 1, Len(c) + Len(t))
    BY LastPart
  <2>4. QED
    BY <1>1, <2>1, <2>2, <2>3
<1>7. a = c /\ v = t
  BY <1>3, <1>4, <1>5, <1>6
<1>8. QED
  BY <1>7 DEF a, v, f, l

CommandsOf(B) == [i \in 1 .. Len(B) |-> DeviceCommand(B[i])]

LEMMA CommandsTyped ==
    ASSUME NEW B \in Seq(Messages)
    PROVE  /\ CommandsOf(B) \in Seq(Seq(Nat)) /\ Len(CommandsOf(B)) = Len(B)
           /\ \A i \in 1 .. Len(B) : CommandsOf(B)[i] = DeviceCommand(B[i])
<1>1. ASSUME NEW i \in 1 .. Len(B) PROVE DeviceCommand(B[i]) \in Seq(Nat)
  <2>1. B[i] \in Messages
    OBVIOUS
  <2>2. QED
    BY <2>1, CommandIs
<1>2. Len(B) \in Nat
  OBVIOUS
<1>3. QED
  BY <1>1, <1>2 DEF CommandsOf

\* The bytes t come next, and k messages were received before.
XtAt(B, k, r, t) ==
    /\ k \in 0 .. Len(B)
    /\ \/ k = Len(B) /\ r = <<>> /\ t = <<>>
       \/ k < Len(B) /\ \E j \in Nat :
              /\ j < Len(B[k + 1]) /\ (j = 0 \/ Sysex(B[k + 1]))
              /\ r = SubSeq(B[k + 1], 1, j)
              /\ t = From(DeviceCommand(B[k + 1]), j) \o Stream(CommandsOf(B), k + 1)

\* Between two messages.
LEMMA XtBetween ==
    ASSUME NEW B \in Seq(Messages), NEW k \in 0 .. Len(B)
    PROVE  XtAt(B, k, <<>>, Stream(CommandsOf(B), k))
<1> DEFINE D == CommandsOf(B)
<1>1. D \in Seq(Seq(Nat)) /\ Len(D) = Len(B)
      /\ \A i \in 1 .. Len(B) : D[i] = DeviceCommand(B[i])
  BY CommandsTyped
<1> HIDE DEF D
<1>2. CASE k = Len(B)
  <2>1. Stream(D, k) = <<>>
    BY <1>1, <1>2, StreamEnd
  <2>2. QED
    BY <1>2, <2>1 DEF XtAt, D
<1>3. CASE k < Len(B)
  <2> DEFINE b == B[k + 1]
             c == DeviceCommand(b)
  <2>1. k \in Nat /\ k + 1 \in 1 .. Len(B) /\ b \in Messages
    BY <1>3
  <2>2. Len(b) \in Nat \ {0} /\ b \in Seq(Nat) /\ c \in Seq(Nat)
    BY <2>1, WholeEncoded, CommandIs
  <2>3. Stream(D, k) = D[k + 1] \o Stream(D, k + 1)
    BY <1>1, <1>3, <2>1, StreamHead
  <2>4. D[k + 1] = c
    BY <1>1, <2>1
  <2> HIDE DEF c, b
  <2>5. From(c, 0) = c /\ SubSeq(b, 1, 0) = <<>> /\ 0 < Len(b) /\ 0 \in Nat
    BY <2>2 DEF From
  <2>6. QED
    BY <1>3, <2>3, <2>4, <2>5 DEF XtAt, D, c, b
<1>4. QED
  BY <1>2, <1>3

-----------------------------------------------------------------------------
\* From p on, the message after l comes, perhaps with its first part in the
\* framer's buffer r.
Aligned(B, r, s, u, p, l) ==
    /\ l \in 0 .. Len(B) /\ p \in 1 .. Len(s) + 1
    /\ \/ l = Len(B) /\ From(s, p - 1) \o u = <<>>
       \/ l < Len(B) /\ \E c \in Seq(Nat) :
              /\ From(s, p - 1) \o u = c \o Stream(CommandsOf(B), l + 1)
              /\ \/ c = DeviceCommand(B[l + 1]) /\ p > Len(r)
                 \/ c = B[l + 1] /\ Sysex(c) /\ p = 1 /\ r # <<>> /\ Len(r) < Len(c)

LEMMA AlignedBetween ==
    ASSUME NEW B \in Seq(Messages), NEW r, NEW s, NEW u, NEW p \in 1 .. Len(s) + 1, p > Len(r),
           NEW l \in 0 .. Len(B), From(s, p - 1) \o u = Stream(CommandsOf(B), l)
    PROVE  Aligned(B, r, s, u, p, l)
<1> DEFINE D == CommandsOf(B)
<1>1. D \in Seq(Seq(Nat)) /\ Len(D) = Len(B)
      /\ \A i \in 1 .. Len(B) : D[i] = DeviceCommand(B[i])
  BY CommandsTyped
<1> HIDE DEF D
<1>2. CASE l = Len(B)
  <2>1. Stream(D, l) = <<>>
    BY <1>1, <1>2, StreamEnd
  <2>2. QED
    BY <1>2, <2>1 DEF Aligned, D
<1>3. CASE l < Len(B)
  <2>1. l \in Nat /\ l + 1 \in 1 .. Len(B)
    BY <1>3
  <2>2. Stream(D, l) = D[l + 1] \o Stream(D, l + 1) /\ D[l + 1] \in Seq(Nat)
    BY <1>1, <1>3, <2>1, StreamHead
  <2>3. D[l + 1] = DeviceCommand(B[l + 1])
    BY <1>1, <2>1
  <2>4. QED
    BY <1>3, <2>2, <2>3 DEF Aligned, D
<1>4. QED
  BY <1>2, <1>3

LEMMA Joined ==
    ASSUME NEW S, NEW x \in Seq(S), NEW y \in Seq(S), NEW z \in Seq(S)
    PROVE  x \o (y \o z) = (x \o y) \o z
  BY ConcatAssociative

LEMMA AlignedStart ==
    ASSUME NEW B \in Seq(Messages), NEW k, NEW r \in Seq(Nat), NEW w \in Seq(Nat),
           NEW u \in Seq(Nat), XtAt(B, k, r, w \o u), NEW s, s = r \o w
    PROVE  Aligned(B, r, s, u, 1, k)
<1>1. k \in 0 .. Len(B) /\ Len(B) \in Nat
  BY DEF XtAt
<1>2. s \in Seq(Nat) /\ s \o u = r \o (w \o u) /\ From(s, 1 - 1) = s /\ 1 \in 1 .. Len(s) + 1
  <2>1. s \in Seq(Nat)
    BY ConcatProperties
  <2>2. QED
    BY <2>1, ConcatAssociative DEF From
<1>3. CASE k = Len(B) /\ r = <<>> /\ w \o u = <<>>
  <2>1. s \o u = <<>>
    BY <1>2, <1>3
  <2>2. QED
    BY <1>1, <1>2, <1>3, <2>1 DEF Aligned
<1>4. ASSUME k < Len(B), NEW j \in Nat, j < Len(B[k + 1]), j = 0 \/ Sysex(B[k + 1]),
             r = SubSeq(B[k + 1], 1, j),
             w \o u = From(DeviceCommand(B[k + 1]), j) \o Stream(CommandsOf(B), k + 1)
      PROVE  Aligned(B, r, s, u, 1, k)
  <2> DEFINE b == B[k + 1]
             c == DeviceCommand(b)
             t == Stream(CommandsOf(B), k + 1)
  <2>1. b \in Messages /\ b \in Seq(Nat) /\ Len(b) \in Nat
    <3>1. b \in Messages
      BY <1>1, <1>4
    <3> HIDE DEF b
    <3>2. QED
      BY <3>1, WholeEncoded
  <2>2. c \in Seq(Nat) /\ Len(c) = Len(b) /\ \A i \in 2 .. Len(b) : c[i] = b[i]
    <3> HIDE DEF b
    <3>1. QED
      BY <2>1, CommandIs
  <2>3. t \in Seq(Nat)
    BY <1>1, CommandsTyped, StreamType
  <2> HIDE DEF b, c, t
  <2>4. s \o u = r \o (From(c, j) \o t)
    BY <1>2, <1>4 DEF b, c, t
  <2>5. j \in Nat /\ j < Len(b) /\ r = SubSeq(b, 1, j) /\ j <= Len(b) /\ j <= Len(c)
    BY <1>4, <2>1, <2>2 DEF b
  <2>6. CASE j = 0
    <3>1. r = <<>> /\ From(c, j) = c
      BY <2>2, <2>5, <2>6 DEF From
    <3>2. s \o u = c \o t
      BY <2>2, <2>3, <2>4, <3>1
    <3>3. 1 > Len(r)
      BY <3>1
    <3>4. QED
      BY <1>1, <1>2, <1>4, <2>2, <3>2, <3>3 DEF Aligned, b, c, t
  <2>7. CASE j # 0
    <3>1. From(c, j) = From(b, j) /\ From(b, j) \in Seq(Nat)
      <4>1. /\ From(c, j) \in Seq(Nat) /\ Len(From(c, j)) = Len(c) - j
            /\ \A i \in 1 .. Len(c) - j : From(c, j)[i] = c[j + i]
        BY <2>2, <2>5, FromIs
      <4>2. /\ From(b, j) \in Seq(Nat) /\ Len(From(b, j)) = Len(b) - j
            /\ \A i \in 1 .. Len(b) - j : From(b, j)[i] = b[j + i]
        BY <2>1, <2>5, FromIs
      <4> DEFINE fc == From(c, j)
                 fb == From(b, j)
                 m == Len(b) - j
      <4> HIDE DEF fc, fb
      <4>3. /\ fc \in Seq(Nat) /\ Len(fc) = m /\ (\A i \in 1 .. m : fc[i] = c[j + i])
            /\ fb \in Seq(Nat) /\ Len(fb) = m /\ (\A i \in 1 .. m : fb[i] = b[j + i])
        BY <2>2, <4>1, <4>2 DEF fc, fb
      <4>6. ASSUME NEW i \in 1 .. m PROVE fc[i] = fb[i]
        <5>1. j + i \in 2 .. Len(b)
          BY <2>1, <2>5, <2>7
        <5>2. c[j + i] = b[j + i]
          BY <2>2, <5>1
        <5>3. QED
          BY <4>3, <5>2
      <4>7. fc = fb
        <5> HIDE DEF m
        <5>1. QED
          BY <4>3, <4>6, SeqEqual
      <4>4. From(c, j) = From(b, j)
        BY <4>7 DEF fc, fb
      <4>5. QED
        BY <4>2, <4>4
    <3>2. r \in Seq(Nat) /\ Len(r) = j /\ b = r \o From(b, j)
      BY <2>1, <2>5, FromIs
    <3>3. s \o u = b \o t
      <4> DEFINE f == From(b, j)
      <4> HIDE DEF f
      <4>1. f \in Seq(Nat) /\ r \in Seq(Nat) /\ b = r \o f /\ s \o u = r \o (f \o t)
        BY <2>4, <3>1, <3>2 DEF f
      <4>2. r \o (f \o t) = (r \o f) \o t
        <5>1. r \in Seq(Nat) /\ f \in Seq(Nat) /\ t \in Seq(Nat)
          BY <2>3, <4>1
        <5>2. QED
          BY ONLY <5>1, Joined, SMTT(30)
      <4>3. QED
        BY <4>1, <4>2
    <3>4. Sysex(b) /\ Len(r) < Len(b) /\ r # <<>>
      <4>1. Sysex(b)
        BY <1>4, <2>7 DEF b
      <4>2. Len(r) # 0 /\ Len(r) < Len(b)
        BY <2>5, <2>7, <3>2
      <4>3. r # <<>>
        BY <4>2
      <4>4. QED
        BY <4>1, <4>2, <4>3
    <3>5. QED
      BY <1>1, <1>2, <1>4, <2>1, <3>3, <3>4 DEF Aligned, b, t
  <2>8. QED
    BY <2>6, <2>7
<1>5. \/ k = Len(B) /\ r = <<>> /\ w \o u = <<>>
      \/ k < Len(B) /\ \E j \in Nat :
              /\ j < Len(B[k + 1]) /\ (j = 0 \/ Sysex(B[k + 1]))
              /\ r = SubSeq(B[k + 1], 1, j)
              /\ w \o u = From(DeviceCommand(B[k + 1]), j) \o Stream(CommandsOf(B), k + 1)
  BY DEF XtAt
<1>6. QED
  BY <1>3, <1>4, <1>5

-----------------------------------------------------------------------------
(* Two ways to cut the same bytes.                                         *)

\* The first part of the shorter of two cuts is common.
LEMMA CutsAgree ==
    ASSUME NEW S, NEW x \in Seq(S), NEW u \in Seq(S), NEW c \in Seq(S), NEW t \in Seq(S),
           x \o u = c \o t, NEW i \in 1 .. Len(x), i <= Len(c)
    PROVE  x[i] = c[i]
<1>1. (x \o u)[i] = x[i]
  BY ConcatProperties
<1>2. (c \o t)[i] = c[i]
  <2>1. i \in 1 .. Len(c)
    OBVIOUS
  <2>2. QED
    BY <2>1, ConcatProperties
<1>3. QED
  BY <1>1, <1>2

LEMMA CutsNonempty ==
    ASSUME NEW S, NEW x \in Seq(S), NEW u \in Seq(S), Len(x) > 0
    PROVE  x \o u # <<>>
<1>1. Len(x \o u) = Len(x) + Len(u) /\ Len(u) \in Nat /\ Len(x) \in Nat
  BY ConcatProperties
<1>2. Len(x \o u) # 0
  BY <1>1
<1>3. QED
  BY <1>2

\* A message as it lies before the framer: with the device's command, or with
\* its own, when the framer corrected it already.
LEMMA LyingIs ==
    ASSUME NEW b \in Messages, NEW c,
           c = DeviceCommand(b) \/ (c = b /\ Sysex(b))
    PROVE  /\ c \in Seq(Nat) /\ Len(c) = Len(b) /\ Len(b) \in Nat /\ b \in Seq(Nat)
           /\ \A i \in 2 .. Len(b) : c[i] = b[i]
           /\ Corrected(c) = b /\ Command(c[1]) = b[1] /\ c[1] \in {b[1], b[1] + 2}
           /\ (Sysex(b) \/ Change(b)) /\ Len(b) >= 2
<1>1. b \in Seq(Nat) /\ Len(b) \in Nat \ {0} /\ (Sysex(b) \/ Change(b))
  BY WholeEncoded
<1>2. Len(b) >= 2 /\ b[1] \in {176, 192, 240}
  <2>1. CASE Sysex(b)
    BY ONLY <2>1 DEF Sysex
  <2>2. CASE Change(b)
    BY ONLY <2>2 DEF Change
  <2>3. QED
    BY <1>1, <2>1, <2>2
<1>3. CASE c = DeviceCommand(b)
  <2>1. /\ c \in Seq(Nat) /\ Len(c) = Len(b) /\ c[1] = b[1] + 2
        /\ \A i \in 2 .. Len(b) : c[i] = b[i]
        /\ Corrected(c) = b
    BY <1>3, CommandIs
  <2>2. Command(c[1]) = b[1]
    BY <1>2, <2>1 DEF Command
  <2>3. QED
    BY <1>1, <1>2, <2>1, <2>2
<1>4. CASE c = b /\ Sysex(b)
  <2>1. c[1] = 240 /\ Command(c[1]) = c[1]
    BY <1>4 DEF Sysex, Command
  <2>2. Corrected(c) = b
    BY <1>1, <1>4, <2>1 DEF Corrected
  <2>3. QED
    BY <1>1, <1>2, <1>4, <2>1, <2>2
<1>5. QED
  BY <1>3, <1>4

\* Behind its first byte it is the message.
LEMMA TailSame ==
    ASSUME NEW b \in Seq(Nat), NEW c \in Seq(Nat), Len(c) = Len(b),
           \A i \in 2 .. Len(b) : c[i] = b[i], NEW j \in Nat \ {0}, j <= Len(b)
    PROVE  From(c, j) = From(b, j)
<1> DEFINE x == From(c, j)
           y == From(b, j)
           m == Len(b) - j
<1>1. x \in Seq(Nat) /\ Len(x) = m /\ \A i \in 1 .. m : x[i] = c[j + i]
  BY FromIs
<1>2. y \in Seq(Nat) /\ Len(y) = m /\ \A i \in 1 .. m : y[i] = b[j + i]
  BY FromIs
<1>3. \A i \in 1 .. m : j + i \in 2 .. Len(b)
  OBVIOUS
<1> HIDE DEF x, y, m
<1>4. \A i \in 1 .. m : x[i] = y[i]
  BY <1>1, <1>2, <1>3
<1>5. x = y
  BY <1>1, <1>2, <1>4, SeqEqual
<1>6. QED
  BY <1>5 DEF x, y

\* Correcting a part of it.
LEMMA HeadCorrected ==
    ASSUME NEW b \in Seq(Nat), NEW c \in Seq(Nat), Len(c) = Len(b),
           \A i \in 2 .. Len(b) : c[i] = b[i], Command(c[1]) = b[1],
           NEW j \in Nat \ {0}, j <= Len(b)
    PROVE  Corrected(SubSeq(c, 1, j)) = SubSeq(b, 1, j)
<1> DEFINE x == SubSeq(c, 1, j)
           z == Corrected(x)
           y == SubSeq(b, 1, j)
<1>1. x \in Seq(Nat) /\ Len(x) = j /\ \A i \in 1 .. j : x[i] = c[i]
  OBVIOUS
<1>2. y \in Seq(Nat) /\ Len(y) = j /\ \A i \in 1 .. j : y[i] = b[i]
  OBVIOUS
<1>3. b[1] \in Nat /\ 1 \in 1 .. j
  OBVIOUS
<1>4. Command(x[1]) = b[1]
  BY <1>1, <1>3
<1> HIDE DEF x, y
<1>5. z = [x EXCEPT ![1] = b[1]]
  BY <1>4 DEF Corrected
<1>6. z \in Seq(Nat) /\ Len(z) = j /\ z[1] = b[1] /\ \A i \in 2 .. j : z[i] = x[i]
  BY <1>1, <1>3, <1>5
<1> HIDE DEF z
<1>7. \A i \in 1 .. j : z[i] = y[i]
  <2> TAKE i \in 1 .. j
  <2>1. CASE i = 1
    BY <1>2, <1>6, <2>1
  <2>2. CASE i # 1
    <3>1. i \in 2 .. j /\ i \in 2 .. Len(b)
      BY <2>2
    <3>2. QED
      BY <1>1, <1>2, <1>6, <3>1
  <2>3. QED
    BY <2>1, <2>2
<1>8. z = y
  BY <1>2, <1>6, <1>7, SeqEqual
<1>9. QED
  BY <1>8 DEF x, y, z

LEMMA FromAt ==
    ASSUME NEW S, NEW s \in Seq(S), NEW j \in Nat, j <= Len(s)
    PROVE  /\ From(s, j) \in Seq(S) /\ Len(From(s, j)) = Len(s) - j
           /\ \A i \in 1 .. Len(s) - j : From(s, j)[i] = s[j + i]
  BY FromIs

\* A part of a part.
LEMMA PartOfRest ==
    ASSUME NEW S, NEW s \in Seq(S), NEW q \in Nat, NEW e \in Nat, q <= e, e <= Len(s)
    PROVE  SubSeq(From(s, q), 1, e - q) = SubSeq(s, q + 1, e)
<1> DEFINE x == From(s, q)
           y == SubSeq(s, q + 1, e)
           z == SubSeq(x, 1, e - q)
           n == Len(s)
           m == e - q
<1>1. n \in Nat /\ m \in Nat /\ m <= n - q /\ n - q \in Nat
  OBVIOUS
<1>2. x \in Seq(S) /\ Len(x) = n - q /\ \A i \in 1 .. n - q : x[i] = s[q + i]
  <2>1. q <= Len(s)
    BY <1>1
  <2>2. QED
    BY <2>1, FromAt
<1>3. y \in Seq(S) /\ Len(y) = m /\ \A i \in 1 .. m : y[i] = s[q + i]
  BY PartAt
<1> HIDE DEF x, y, n
<1>4. m <= Len(x) /\ 0 <= m
  BY <1>1, <1>2
<1> HIDE DEF m
<1>5. z \in Seq(S) /\ Len(z) = m /\ \A i \in 1 .. m : z[i] = x[i]
  BY <1>1, <1>2, <1>4 DEF m
<1> HIDE DEF z
<1>6. \A i \in 1 .. m : i \in 1 .. n - q
  BY <1>1
<1>7. \A i \in 1 .. m : y[i] = z[i]
  BY <1>2, <1>3, <1>5, <1>6
<1>8. y = z
  BY <1>3, <1>5, <1>7, SeqEqual
<1>9. QED
  BY <1>8 DEF x, y, z, m

LEMMA RestOfRest ==
    ASSUME NEW S, NEW s \in Seq(S), NEW q \in Nat, NEW e \in Nat, q <= e, e <= Len(s)
    PROVE  From(From(s, q), e - q) = From(s, e)
<1> DEFINE x == From(s, q)
           y == From(s, e)
           z == From(x, e - q)
           n == Len(s)
           k == e - q
           m == n - e
<1>1. n \in Nat /\ m \in Nat /\ k \in Nat /\ n - q = k + m
  OBVIOUS
<1>2. x \in Seq(S) /\ Len(x) = n - q /\ \A i \in 1 .. n - q : x[i] = s[q + i]
  <2>1. q <= Len(s)
    BY <1>1
  <2>2. QED
    BY <2>1, FromAt
<1>3. y \in Seq(S) /\ Len(y) = m /\ \A i \in 1 .. m : y[i] = s[e + i]
  BY FromAt
<1>4. \A i \in 1 .. m : k + i \in 1 .. n - q /\ q + (k + i) = e + i
  OBVIOUS
<1> HIDE DEF x, y, n, k, m
<1>5. z \in Seq(S) /\ Len(z) = Len(x) - k /\ \A i \in 1 .. Len(x) - k : z[i] = x[k + i]
  <2>1. x \in Seq(S) /\ k \in Nat /\ k <= Len(x)
    BY <1>1, <1>2
  <2>2. z = From(x, k)
    BY DEF k
  <2> HIDE DEF z
  <2>3. QED
    BY <2>1, <2>2, FromAt
<1> HIDE DEF z
<1>6. \A i \in 1 .. m : y[i] = z[i]
  <2>1. Len(x) - k = m
    BY <1>1, <1>2
  <2>2. QED
    BY <1>2, <1>3, <1>4, <1>5, <2>1
<1>7. y = z
  BY <1>1, <1>2, <1>3, <1>5, <1>6, SeqEqual
<1>8. QED
  BY <1>7 DEF x, y, z, k

-----------------------------------------------------------------------------
(* A step of the PODxt's framer.                                           *)

LEMMA StreamOfCommands ==
    ASSUME NEW B \in Seq(Messages), NEW l \in Nat
    PROVE  Stream(CommandsOf(B), l + 1) \in Seq(Nat)
<1>1. CommandsOf(B) \in Seq(Seq(Nat)) /\ l + 1 \in Nat
  BY CommandsTyped
<1>2. QED
  BY <1>1, StreamType

\* The bytes c are next, and the messages behind l + 1 follow them.
Lies(B, s, u, q, l, c) == From(s, q) \o u = c \o Stream(CommandsOf(B), l + 1)

\* A step of the framer behind q bytes: the message there is complete, or it is
\* the last and its first part stays.
LEMMA StepComplete ==
    ASSUME NEW B \in Seq(Messages), NEW r \in Seq(Nat), NEW s \in Seq(Nat), NEW u \in Seq(Nat),
           NEW q \in Nat, q < Len(s), NEW l \in Nat, l < Len(B), NEW c \in Seq(Nat),
           Lies(B, s, u, q, l, c), NEW b, b = B[l + 1], Corrected(c) = b,
           NEW e \in Nat, e = q + Len(c), e <= Len(s), e + 1 > Len(r),
           NEW p, p = q + 1, NEW f, f = e + 1, NEW k, k = l + 1
    PROVE  Corrected(SubSeq(s, p, e)) = b /\ Aligned(B, r, s, u, f, k)
<1> DEFINE x == From(s, q)
           t == Stream(CommandsOf(B), l + 1)
<1>1. t \in Seq(Nat) /\ Len(B) \in Nat
  BY StreamOfCommands
<1>2. x \in Seq(Nat) /\ Len(x) = Len(s) - q
  <2>1. s \in Seq(Nat) /\ q \in Nat /\ q <= Len(s)
    OBVIOUS
  <2>2. QED
    BY ONLY <2>1, FromAt
<1>3. Len(c) \in Nat /\ q <= e /\ Len(c) = e - q /\ Len(c) <= Len(x)
  <2>1. Len(c) \in Nat /\ Len(s) \in Nat /\ q \in Nat /\ e = q + Len(c) /\ e <= Len(s)
    OBVIOUS
  <2> HIDE DEF x
  <2>2. QED
    BY ONLY <1>2, <2>1
<1>4. SubSeq(x, 1, Len(c)) = c /\ From(x, Len(c)) \o u = t
  <2> HIDE DEF x, t
  <2>1. x \o u = c \o t
    BY DEF x, t, Lies
  <2>2. QED
    BY <1>1, <1>2, <1>3, <2>1, Cuts
<1>5. SubSeq(s, q + 1, e) = c
  <2>1. SubSeq(x, 1, e - q) = SubSeq(s, q + 1, e)
    BY <1>3, PartOfRest
  <2>2. QED
    BY <1>3, <1>4, <2>1
<1>6. From(s, e) \o u = t
  <2>1. From(x, e - q) = From(s, e)
    BY <1>3, RestOfRest
  <2>2. QED
    BY <1>3, <1>4, <2>1
<1> HIDE DEF t
<1>7. From(s, (e + 1) - 1) \o u = t
  <2>1. (e + 1) - 1 = e
    OBVIOUS
  <2>2. QED
    BY <1>6, <2>1
<1>8. l + 1 \in 0 .. Len(B) /\ e + 1 \in 1 .. Len(s) + 1
  BY <1>1
<1>9. Aligned(B, r, s, u, e + 1, l + 1)
  BY <1>7, <1>8, AlignedBetween DEF t
<1>10. QED
  BY <1>5, <1>9

LEMMA StepPartial ==
    ASSUME NEW B \in Seq(Messages), NEW s \in Seq(Nat), NEW u \in Seq(Nat),
           NEW q \in Nat, q < Len(s), NEW l \in Nat, l < Len(B), NEW c \in Seq(Nat),
           From(s, q) \o u = c \o Stream(CommandsOf(B), l + 1), Sysex(B[l + 1]),
           c = DeviceCommand(B[l + 1]) \/ c = B[l + 1], Len(s) - q < Len(c)
    PROVE  XtAt(B, l, Corrected(SubSeq(s, q + 1, Len(s))), u)
<1> DEFINE b == B[l + 1]
           x == From(s, q)
           t == Stream(CommandsOf(B), l + 1)
           m == Len(s) - q
           d == DeviceCommand(b)
<1>1. b \in Messages /\ Len(B) \in Nat
  OBVIOUS
<1>2. t \in Seq(Nat)
  BY StreamOfCommands
<1>3. x \in Seq(Nat) /\ Len(x) = m
  BY FromAt
<1>4. m \in Nat \ {0} /\ m < Len(c)
  OBVIOUS
<1>5. x = SubSeq(s, q + 1, Len(s))
  BY DEF From
<1> HIDE DEF b, x, t
<1>6. x \o u = c \o t
  BY DEF x, t
<1>7. SubSeq(c, 1, m) = x /\ From(c, m) \o t = u
  <2>1. Len(x) <= Len(c) /\ c \o t = x \o u
    BY <1>3, <1>4, <1>6
  <2>2. SubSeq(c, 1, Len(x)) = x /\ From(c, Len(x)) \o t = u
    BY <1>2, <1>3, <2>1, Cuts
  <2>3. QED
    BY <1>3, <2>2
<1>8. /\ c \in Seq(Nat) /\ Len(c) = Len(b) /\ Len(b) \in Nat /\ b \in Seq(Nat)
      /\ \A i \in 2 .. Len(b) : c[i] = b[i]
      /\ Command(c[1]) = b[1]
  <2>1. c = DeviceCommand(b) \/ (c = b /\ Sysex(b))
    BY DEF b
  <2>2. QED
    BY <1>1, <2>1, LyingIs
<1>9. /\ d \in Seq(Nat) /\ Len(d) = Len(b) /\ \A i \in 2 .. Len(b) : d[i] = b[i]
  <2>1. d = DeviceCommand(b)
    OBVIOUS
  <2> HIDE DEF d
  <2>2. QED
    BY <1>1, <2>1, LyingIs
<1> HIDE DEF d, m
<1>10. m <= Len(b) /\ m \in Nat \ {0}
  BY <1>4, <1>8
<1>11. From(c, m) = From(b, m) /\ From(d, m) = From(b, m)
  <2>1. From(c, m) = From(b, m)
    BY <1>8, <1>10, TailSame
  <2>2. From(d, m) = From(b, m)
    BY <1>8, <1>9, <1>10, TailSame
  <2>3. QED
    BY <2>1, <2>2
<1>12. Corrected(x) = SubSeq(b, 1, m)
  <2>1. Corrected(SubSeq(c, 1, m)) = SubSeq(b, 1, m)
    BY <1>8, <1>10, HeadCorrected
  <2>2. QED
    BY <1>7, <2>1
<1>13. u = From(d, m) \o t
  BY <1>7, <1>11
<1>14. Sysex(b) /\ l < Len(B) /\ l \in 0 .. Len(B) /\ m \in Nat /\ m < Len(b)
  BY <1>1, <1>4, <1>8 DEF b
<1>15. XtAt(B, l, Corrected(x), u)
  BY <1>12, <1>13, <1>14 DEF XtAt, b, d, t
<1>16. QED
  BY <1>5, <1>15

\* A control or a program change of a PODxt is the last of its transfer.
LastIsShort(w) == \A a \in 1 .. Len(w) :
               w[a] \in {178, 194} => Len(w) = a + (IF w[a] = 178 THEN 2 ELSE 1)

\* The end of a message is the first end mark from its start on; without one the
\* message is incomplete.
LEMMA EndAt ==
    ASSUME NEW s \in Seq(Nat), NEW p \in 1 .. Len(s), Command(s[p]) = 240,
           NEW e \in p .. Len(s), s[e] = 247, \A i \in p .. e - 1 : s[i] # 247
    PROVE  MessageEnd(s, p) = e
  BY MessageEndIs

LEMMA EndMissing ==
    ASSUME NEW s \in Seq(Nat), NEW p \in 1 .. Len(s), Command(s[p]) = 240,
           \A i \in p .. Len(s) : s[i] # 247
    PROVE  MessageEnd(s, p) = 0
  BY MessageEndIs

LEMMA EndOfSysex ==
    ASSUME NEW s \in Seq(Nat), NEW q \in Nat, q < Len(s), NEW b \in Seq(Nat), Sysex(b),
           NEW c \in Seq(Nat), Len(c) = Len(b), \A i \in 2 .. Len(b) : c[i] = b[i],
           Command(c[1]) = 240, c[1] \in {240, 242},
           \A i \in 1 .. Len(s) - q : i <= Len(c) => s[q + i] = c[i]
    PROVE  MessageEnd(s, q + 1) = IF q + Len(c) <= Len(s) THEN q + Len(c) ELSE 0
<1> DEFINE p == q + 1
           n == Len(s)
           m == Len(b)
<1>0. s \in Seq(Nat)
  OBVIOUS
<1>1. p \in 1 .. n /\ n \in Nat /\ m \in Nat /\ m >= 2 /\ Len(c) = m
  BY DEF Sysex
<1>2. b[m] = 247 /\ \A i \in 2 .. m - 1 : b[i] # 247
  BY DEF Sysex
<1>3. \A i \in 1 .. n - q : i <= m => s[q + i] = c[i]
  OBVIOUS
<1> HIDE DEF m
<1>4. c[m] = 247 /\ c[1] # 247 /\ \A i \in 2 .. m - 1 : c[i] # 247
  <2>6. \A i \in 2 .. m : c[i] = b[i]
    BY DEF m
  <2>7. c[m] = b[m]
    <3>1. m \in 2 .. m
      BY ONLY <1>1
    <3>2. QED
      BY ONLY <2>6, <3>1
  <2>8. \A i \in 2 .. m - 1 : c[i] = b[i]
    <3> TAKE i \in 2 .. m - 1
    <3>1. i \in 2 .. m
      BY ONLY <1>1
    <3>2. QED
      BY ONLY <2>6, <3>1
  <2>1. c[m] = b[m] /\ (\A i \in 2 .. m - 1 : c[i] = b[i]) /\ c[1] \in {240, 242}
    BY <2>7, <2>8
  <2>2. c[1] # 247
    <3> DEFINE z == c[1]
    <3>1. z \in {240, 242}
      BY <2>1
    <3> HIDE DEF z
    <3>2. z # 247
      BY ONLY <3>1
    <3>3. QED
      BY <3>2 DEF z
  <2>3. c[m] = 247
    BY ONLY <1>2, <2>1
  <2>5. \A i \in 2 .. m - 1 : c[i] # 247
    <3> TAKE i \in 2 .. m - 1
    <3>1. c[i] = b[i]
      BY ONLY <2>1
    <3>2. b[i] # 247
      BY ONLY <1>2
    <3>3. QED
      BY ONLY <3>1, <3>2
  <2>4. QED
    BY <2>2, <2>3, <2>5
<1>5. s[p] = c[1]
  BY <1>1, <1>3
<1>6. ASSUME NEW i \in p .. n, i < q + m PROVE s[i] # 247
  <2>1. i - q \in 1 .. n - q /\ i - q <= m /\ q + (i - q) = i /\ (i - q = 1 \/ i - q \in 2 .. m - 1)
    BY <1>1, <1>6
  <2>2. s[i] = c[i - q]
    BY <1>3, <2>1
  <2>3. QED
    BY <1>4, <2>1, <2>2
<1>7. CASE q + m <= n
  <2>1. m \in 1 .. n - q /\ q + m \in p .. n
    BY <1>1, <1>7
  <2>2. s[q + m] = 247
    BY <1>3, <1>4, <2>1
  <2>3. \A i \in p .. (q + m) - 1 : s[i] # 247
    BY <1>1, <1>6, <1>7
  <2>4. MessageEnd(s, p) = q + m
    <3> DEFINE e == q + m
    <3> HIDE DEF e, p
    <3>1. e \in p .. Len(s) /\ s[e] = 247 /\ \A i \in p .. e - 1 : s[i] # 247
      BY <2>1, <2>2, <2>3 DEF e
    <3>2. p \in 1 .. Len(s) /\ Command(s[p]) = 240
      BY <1>1, <1>5
    <3>3. MessageEnd(s, p) = e
      BY ONLY <1>0, <3>1, <3>2, EndAt
    <3>4. QED
      BY <3>3 DEF e
  <2>5. QED
    BY <1>1, <1>7, <2>4 DEF m
<1>8. CASE ~(q + m <= n)
  <2>1. \A i \in p .. n : s[i] # 247
    BY <1>1, <1>6, <1>8
  <2>2. MessageEnd(s, p) = 0
    <3> HIDE DEF p
    <3>1. p \in 1 .. Len(s) /\ Command(s[p]) = 240 /\ \A i \in p .. Len(s) : s[i] # 247
      BY <1>1, <1>5, <2>1
    <3>2. QED
      BY ONLY <1>0, <3>1, EndMissing
  <2>3. QED
    BY <1>1, <1>8, <2>2 DEF m
<1>9. QED
  BY <1>7, <1>8

\* After a step at p: the message is complete, or it is the last and its first
\* part stays.
AfterStep(B, r, s, u, p, l) ==
    /\ l \in Nat /\ l < Len(B)
    /\ \/ \E e \in p .. Len(s) :
              /\ MessageEnd(s, p) = e /\ Corrected(SubSeq(s, p, e)) = B[l + 1]
              /\ Aligned(B, r, s, u, e + 1, l + 1)
       \/ MessageEnd(s, p) = 0 /\ XtAt(B, l, Corrected(SubSeq(s, p, Len(s))), u)

LEMMA AlignedStep ==
    ASSUME NEW B \in Seq(Messages), NEW r \in Seq(Nat), NEW w \in Seq(Nat), NEW u \in Seq(Nat),
           LastIsShort(w), NEW s, s = r \o w, NEW q \in Nat, q < Len(s), NEW l,
           NEW p, p = q + 1, Aligned(B, r, s, u, p, l)
    PROVE  AfterStep(B, r, s, u, p, l)
<1> DEFINE x == From(s, q)
           n == Len(s)
<1>1. /\ s \in Seq(Nat) /\ n = Len(r) + Len(w) /\ Len(r) \in Nat /\ Len(w) \in Nat
      /\ \A i \in 1 .. Len(w) : s[Len(r) + i] = w[i]
  BY ConcatProperties
<1>2. /\ x \in Seq(Nat) /\ Len(x) = n - q /\ \A i \in 1 .. n - q : x[i] = s[q + i]
  <2>1. s \in Seq(Nat) /\ q <= Len(s)
    BY <1>1
  <2>2. QED
    BY ONLY <2>1, q \in Nat, FromAt
<1>3. n \in Nat /\ Len(x) > 0
  BY <1>1, <1>2
<1>4. l \in 0 .. Len(B) /\ Len(B) \in Nat
  BY DEF Aligned
<1>5. From(s, (q + 1) - 1) = x
  <2>1. (q + 1) - 1 = q
    OBVIOUS
  <2>2. QED
    BY <2>1
<1>6. x \o u # <<>>
  <2> HIDE DEF x
  <2>1. QED
    BY <1>2, <1>3, CutsNonempty
<1>7. PICK c \in Seq(Nat) :
          /\ l < Len(B)
          /\ x \o u = c \o Stream(CommandsOf(B), l + 1)
          /\ \/ c = DeviceCommand(B[l + 1]) /\ q + 1 > Len(r)
             \/ c = B[l + 1] /\ Sysex(c) /\ q + 1 = 1 /\ r # <<>> /\ Len(r) < Len(c)
  <2> HIDE DEF x
  <2>1. QED
    BY <1>5, <1>6 DEF Aligned
<1> DEFINE b == B[l + 1]
           t == Stream(CommandsOf(B), l + 1)
<1>8. l \in Nat /\ l < Len(B) /\ b \in Messages /\ t \in Seq(Nat)
  BY <1>4, <1>7, StreamOfCommands
<1>9. /\ Len(c) = Len(b) /\ Len(b) \in Nat /\ b \in Seq(Nat)
      /\ \A i \in 2 .. Len(b) : c[i] = b[i]
      /\ Corrected(c) = b /\ Command(c[1]) = b[1] /\ c[1] \in {b[1], b[1] + 2}
      /\ (Sysex(b) \/ Change(b)) /\ Len(b) >= 2
  <2>1. c = DeviceCommand(b) \/ (c = b /\ Sysex(b))
    BY <1>7
  <2> HIDE DEF b
  <2>2. QED
    BY <1>8, <2>1, LyingIs
<1>10. q + Len(c) + 1 > Len(r)
  <2>1. q + 1 > Len(r) \/ (q + 1 = 1 /\ Len(r) < Len(c))
    BY <1>7
  <2>2. Len(c) \in Nat /\ Len(r) \in Nat /\ q \in Nat
    BY <1>1, <1>9
  <2>3. QED
    BY ONLY <2>1, <2>2
<1>11. ASSUME NEW i \in 1 .. n - q, i <= Len(c) PROVE s[q + i] = c[i]
  <2> HIDE DEF x, t
  <2>1. i \in 1 .. Len(x) /\ x \o u = c \o t
    BY <1>2, <1>7 DEF t
  <2>2. x[i] = c[i]
    BY <1>2, <1>8, <1>11, <2>1, CutsAgree
  <2>3. QED
    BY <1>2, <2>2
<1> HIDE DEF b
<1>12. ASSUME q + Len(c) <= n, MessageEnd(s, q + 1) = q + Len(c)
       PROVE  \E e \in q + 1 .. n :
                     /\ MessageEnd(s, q + 1) = e /\ Corrected(SubSeq(s, q + 1, e)) = b
                     /\ Aligned(B, r, s, u, e + 1, l + 1)
  <2> DEFINE e == q + Len(c)
  <2>1. e \in q + 1 .. n /\ e \in Nat /\ e = q + Len(c) /\ e <= Len(s) /\ e + 1 > Len(r)
    BY <1>3, <1>9, <1>10, <1>12
  <2> HIDE DEF e
  <2>2. Lies(B, s, u, q, l, c) /\ Corrected(c) = b
    BY <1>7, <1>9 DEF Lies
  <2>3. Corrected(SubSeq(s, q + 1, e)) = b /\ Aligned(B, r, s, u, e + 1, l + 1)
    <3> DEFINE a == q + 1
               f == e + 1
               k == l + 1
    <3>1. /\ B \in Seq(Messages) /\ r \in Seq(Nat) /\ s \in Seq(Nat) /\ u \in Seq(Nat)
          /\ q \in Nat /\ q < Len(s) /\ l \in Nat /\ l < Len(B) /\ c \in Seq(Nat)
          /\ Lies(B, s, u, q, l, c) /\ b = B[l + 1] /\ Corrected(c) = b
          /\ e \in Nat /\ e = q + Len(c) /\ e <= Len(s) /\ e + 1 > Len(r)
          /\ a = q + 1 /\ f = e + 1 /\ k = l + 1
      BY <1>1, <1>8, <2>1, <2>2 DEF b
    <3> HIDE DEF a, f, k
    <3>2. Corrected(SubSeq(s, a, e)) = b /\ Aligned(B, r, s, u, f, k)
      BY ONLY <3>1, StepComplete, SMTT(30)
    <3>3. QED
      BY <3>2 DEF a, f, k
  <2>4. QED
    BY <1>12, <2>1, <2>3 DEF b, e
<1> DEFINE Goal == \/ \E e \in q + 1 .. n :
                         /\ MessageEnd(s, q + 1) = e /\ Corrected(SubSeq(s, q + 1, e)) = b
                         /\ Aligned(B, r, s, u, e + 1, l + 1)
                    \/ /\ MessageEnd(s, q + 1) = 0
                       /\ XtAt(B, l, Corrected(SubSeq(s, q + 1, n)), u)
<1>13. ASSUME Sysex(b) PROVE Goal
  <2>1. b[1] = 240
    BY <1>13 DEF Sysex
  <2>2. MessageEnd(s, q + 1) = IF q + Len(c) <= Len(s) THEN q + Len(c) ELSE 0
    <3>1. Command(c[1]) = 240 /\ c[1] \in {240, 242}
      BY <1>9, <2>1
    <3>2. \A i \in 1 .. Len(s) - q : i <= Len(c) => s[q + i] = c[i]
      BY <1>11
    <3>3. QED
      <4>1. /\ s \in Seq(Nat) /\ q \in Nat /\ q < Len(s) /\ b \in Seq(Nat) /\ Sysex(b)
            /\ c \in Seq(Nat) /\ Len(c) = Len(b) /\ \A i \in 2 .. Len(b) : c[i] = b[i]
        BY <1>1, <1>9, <1>13
      <4>2. QED
        BY ONLY <4>1, <3>1, <3>2, EndOfSysex
  <2>3. CASE q + Len(c) <= n
    BY <1>8, <1>12, <2>2, <2>3 DEF b
  <2>4. CASE ~(q + Len(c) <= n)
    <3>1. MessageEnd(s, q + 1) = 0
      BY <2>2, <2>4
    <3>2. Len(s) - q < Len(c)
      BY <1>3, <1>9, <2>4
    <3>3. c = DeviceCommand(B[l + 1]) \/ c = B[l + 1]
      BY <1>7
    <3>4. XtAt(B, l, Corrected(SubSeq(s, q + 1, Len(s))), u)
      BY <1>1, <1>7, <1>8, <1>13, <3>2, <3>3, StepPartial DEF b
    <3>5. QED
      BY <1>8, <3>1, <3>4
  <2>5. QED
    BY <2>3, <2>4
<1>14. ASSUME Change(b), ~Sysex(b) PROVE Goal
  <2>1. q + 1 > Len(r) /\ c = DeviceCommand(b)
    BY <1>7, <1>14 DEF b
  <2> DEFINE a == q + 1 - Len(r)
  <2>2. a \in 1 .. Len(w) /\ Len(r) + a = q + 1
    BY <1>1, <2>1
  <2>3. w[a] = c[1]
    <3>1. w[a] = s[q + 1]
      BY <1>1, <2>2
    <3>2. 1 \in 1 .. n - q /\ 1 <= Len(c)
      BY <1>3, <1>9
    <3>3. s[q + 1] = c[1]
      BY <1>11, <3>2
    <3>4. QED
      BY <3>1, <3>3
  <2>4. c[1] = b[1] + 2
    <3>1. b \in Messages
      BY <1>8
    <3>2. QED
      BY ONLY <3>1, <2>1, CommandIs
  <2>5. \/ b[1] = 176 /\ Len(b) = 3
        \/ b[1] = 192 /\ Len(b) = 2
    BY <1>14 DEF Change
  <2> HIDE DEF a
  <2>6. Len(w) = a + (Len(b) - 1)
    <3>1. w[a] \in {178, 194} => Len(w) = a + (IF w[a] = 178 THEN 2 ELSE 1)
      BY ONLY <2>2, LastIsShort(w) DEF LastIsShort
    <3>2. a \in Nat
      BY <2>2
    <3>3. QED
      <4> DEFINE y == w[a]
                 z == b[1]
                 lb == Len(b)
                 lw == Len(w)
      <4>1. y = z + 2 /\ ((z = 176 /\ lb = 3) \/ (z = 192 /\ lb = 2))
        BY ONLY <2>3, <2>4, <2>5
      <4>2. y \in {178, 194} => lw = a + (IF y = 178 THEN 2 ELSE 1)
        BY ONLY <3>1
      <4> HIDE DEF y, z, lb, lw
      <4>3. lw = a + (lb - 1)
        BY ONLY <3>2, <4>1, <4>2
      <4>4. QED
        BY <4>3 DEF lb, lw
  <2>7. n = q + Len(c)
    <3>1. n = Len(r) + Len(w) /\ Len(r) \in Nat /\ Len(c) = Len(b) /\ Len(b) \in Nat
          /\ Len(r) + a = q + 1 /\ a \in Nat /\ q \in Nat
      BY <1>1, <1>9, <2>2
    <3>2. QED
      <4> DEFINE lr == Len(r)
                 lw == Len(w)
                 lb == Len(b)
                 lc == Len(c)
                 ls == Len(s)
      <4>1. /\ ls = lr + lw /\ lr \in Nat /\ lc = lb /\ lb \in Nat
            /\ lr + a = q + 1 /\ a \in Nat /\ q \in Nat /\ lw = a + (lb - 1)
        BY <3>1, <2>6
      <4> HIDE DEF lr, lw, lb, lc, ls
      <4>2. ls = q + lc
        BY ONLY <4>1
      <4>3. QED
        BY <4>2 DEF ls, lc
  <2>8. Command(s[q + 1]) # 240
    <3>1. s[q + 1] = c[1]
      BY <1>1, <2>2, <2>3
    <3>2. QED
      <4> DEFINE z == b[1]
      <4>1. Command(c[1]) = z
        BY <1>9
      <4>2. z = 176 \/ z = 192
        BY ONLY <2>5
      <4> HIDE DEF z
      <4>3. z # 240
        BY ONLY <4>2
      <4>4. QED
        BY ONLY <3>1, <4>1, <4>3
  <2>9. MessageEnd(s, q + 1) = n
    <3>1. q + 1 \in 1 .. Len(s)
      BY <1>3
    <3>2. s \in Seq(Nat)
      BY <1>1
    <3>3. QED
      BY ONLY <2>8, <3>1, <3>2, MessageEndIs
  <2>10. q + Len(c) <= n /\ MessageEnd(s, q + 1) = q + Len(c)
    BY <1>3, <2>7, <2>9
  <2>11. QED
    BY <1>8, <1>12, <2>10 DEF b
<1>15. Goal
  BY <1>9, <1>13, <1>14
<1>16. QED
  BY <1>8, <1>15, Zenon DEF AfterStep, b

-----------------------------------------------------------------------------
(* A transfer of the PODxt.                                                *)

LEMMA BetweenCons ==
    ASSUME NEW S, NEW B \in Seq(S), NEW k \in Nat, NEW l \in Nat, k < l, l <= Len(B)
    PROVE  Between(B, k, l) = <<B[k + 1]>> \o Between(B, k + 1, l)
  BY DEF Between

\* At the end of a transfer.
LEMMA AlignedEnd ==
    ASSUME NEW B \in Seq(Messages), NEW r \in Seq(Nat), NEW s \in Seq(Nat), NEW u \in Seq(Nat),
           Len(r) <= Len(s), NEW l, Aligned(B, r, s, u, Len(s) + 1, l)
    PROVE  XtAt(B, l, <<>>, u)
<1> DEFINE n == Len(s)
<1>1. n \in Nat /\ Len(r) \in Nat /\ (n + 1) - 1 = n
  OBVIOUS
<1>2. From(s, (n + 1) - 1) = <<>>
  BY <1>1, FromEnd
<1>3. <<>> \o u = u
  OBVIOUS
<1>4. l \in 0 .. Len(B) /\ Len(B) \in Nat
  BY DEF Aligned
<1>5. \/ l = Len(B) /\ u = <<>>
      \/ l < Len(B) /\ \E c \in Seq(Nat) :
              /\ u = c \o Stream(CommandsOf(B), l + 1)
              /\ \/ c = DeviceCommand(B[l + 1]) /\ n + 1 > Len(r)
                 \/ c = B[l + 1] /\ Sysex(c) /\ n + 1 = 1 /\ r # <<>> /\ Len(r) < Len(c)
  BY <1>2, <1>3 DEF Aligned
<1>6. CASE l = Len(B) /\ u = <<>>
  BY <1>4, <1>6 DEF XtAt
<1>7. ASSUME l < Len(B), u = DeviceCommand(B[l + 1]) \o Stream(CommandsOf(B), l + 1)
      PROVE  XtAt(B, l, <<>>, u)
  <2> DEFINE b == B[l + 1]
             c == DeviceCommand(b)
  <2>1. b \in Messages
    BY <1>4, <1>7
  <2> HIDE DEF b, c
  <2>2. Len(b) \in Nat \ {0} /\ b \in Seq(Nat) /\ c \in Seq(Nat)
    BY <2>1, WholeEncoded, CommandIs DEF c
  <2>3. From(c, 0) = c /\ SubSeq(b, 1, 0) = <<>> /\ 0 < Len(b) /\ 0 \in Nat
    BY <2>2 DEF From
  <2>4. QED
    BY <1>4, <1>7, <2>3 DEF XtAt, c, b
<1>8. ~(n + 1 = 1 /\ r # <<>>)
  BY <1>1
<1>9. QED
  BY <1>5, <1>6, <1>7, <1>8

LEMMA AlignedStepAt ==
    ASSUME NEW B \in Seq(Messages), NEW r \in Seq(Nat), NEW w \in Seq(Nat), NEW u \in Seq(Nat),
           LastIsShort(w), NEW s, s = r \o w, NEW p \in 1 .. Len(s), NEW l, Aligned(B, r, s, u, p, l)
    PROVE  AfterStep(B, r, s, u, p, l)
<1> DEFINE q == p - 1
<1>1. s \in Seq(Nat) /\ Len(s) \in Nat
  BY ConcatProperties
<1>2. q \in Nat /\ q < Len(s) /\ p = q + 1
  <2> DEFINE n == Len(s)
  <2>1. n \in Nat /\ p \in 1 .. n
    BY <1>1
  <2> HIDE DEF n
  <2>2. q \in Nat /\ q < n /\ p = q + 1
    BY ONLY <2>1
  <2>3. QED
    BY <2>2 DEF n
<1> HIDE DEF q
<1>3. QED
  BY <1>2, AlignedStep

LEMMA DecodedCons ==
    ASSUME NEW x, NEW ms, NEW y
    PROVE  [Decoded(x, ms) EXCEPT !.messages = y] = Decoded(x, y)
  BY DEF Decoded

LEMMA BetweenConsAt ==
    ASSUME NEW S, NEW B \in Seq(S), NEW i \in Nat, NEW j, j = i + 1, i < Len(B), NEW k \in j .. Len(B)
    PROVE  <<B[j]>> \o Between(B, j, k) = Between(B, i, k) /\ k \in i .. Len(B)
<1>1. j \in Nat /\ k \in Nat /\ i < k /\ k <= Len(B) /\ k \in i .. Len(B)
  OBVIOUS
<1>2. Between(B, i, k) = <<B[i + 1]>> \o Between(B, i + 1, k)
  BY <1>1, BetweenCons
<1>3. QED
  BY <1>1, <1>2

LEMMA XtLast ==
    ASSUME NEW s, NEW g, IsXt(g, s), NEW p \in 1 .. Len(s), MessageEnd(s, p) = 0
    PROVE  g[p] = Decoded(Corrected(SubSeq(s, p, Len(s))), <<>>)
  BY Zenon DEF IsXt

LEMMA Prepended ==
    ASSUME NEW x, NEW ms, NEW m
    PROVE  [Decoded(x, ms) EXCEPT !.messages = <<m>> \o @] = Decoded(x, <<m>> \o ms)
<1>1. Decoded(x, ms).messages = ms
  BY DEF Decoded
<1> DEFINE y == <<m>> \o ms
<1>2. [Decoded(x, ms) EXCEPT !.messages = y] = Decoded(x, y)
  <2> HIDE DEF y
  <2>1. QED
    BY DecodedCons
<1>3. QED
  BY <1>1, <1>2, Zenon

\* What the framer makes of the bytes from p on.
Good(B, u, g, p, i) ==
    \E k \in i .. Len(B) : \E x : g[p] = Decoded(x, Between(B, i, k)) /\ XtAt(B, k, x, u)

LEMMA XtFrom ==
    ASSUME NEW B \in Seq(Messages), NEW r \in Seq(Nat), NEW w \in Seq(Nat), NEW u \in Seq(Nat),
           LastIsShort(w), NEW s, s = r \o w, NEW g, IsXt(g, s),
           NEW q \in 1 .. Len(s) + 1, NEW l, Aligned(B, r, s, u, q, l)
    PROVE  Good(B, u, g, q, l)
<1> DEFINE n == Len(s)
           T == {d \in Nat : \A p \in 1 .. n + 1, i \in 0 .. Len(B) :
                        (n + 1 - p <= d /\ Aligned(B, r, s, u, p, i)) => Good(B, u, g, p, i)}
<1>1. s \in Seq(Nat) /\ n \in Nat /\ Len(B) \in Nat /\ Len(r) <= n
  BY ConcatProperties
<1>2. ASSUME NEW i \in 0 .. Len(B), NEW p, p = n + 1, Aligned(B, r, s, u, p, i)
      PROVE  Good(B, u, g, p, i)
  <2>1. XtAt(B, i, <<>>, u)
    BY <1>1, <1>2, AlignedEnd
  <2>2. Between(B, i, i) = <<>> /\ i \in i .. Len(B)
    BY <1>1, BetweenSame
  <2>3. g[p] = Decoded(<<>>, <<>>)
    BY <1>2 DEF IsXt
  <2>4. QED
    BY <2>1, <2>2, <2>3 DEF Good
<1>3. ASSUME NEW d \in Nat, d \in T PROVE d + 1 \in T
  <2> SUFFICES ASSUME NEW p \in 1 .. n + 1, NEW i \in 0 .. Len(B), n + 1 - p <= d + 1,
                      Aligned(B, r, s, u, p, i)
               PROVE  Good(B, u, g, p, i)
    OBVIOUS
  <2>1. CASE p = n + 1
    BY <1>2, <2>1
  <2>2. CASE p # n + 1
    <3>1. p \in 1 .. n
      <4>1. n \in Nat /\ p \in 1 .. n + 1
        BY <1>1
      <4> HIDE DEF n
      <4>2. QED
        BY ONLY <2>2, <4>1
    <3>2. /\ i \in Nat /\ i < Len(B)
          /\ \/ \E e \in p .. Len(s) :
                    /\ MessageEnd(s, p) = e /\ Corrected(SubSeq(s, p, e)) = B[i + 1]
                    /\ Aligned(B, r, s, u, e + 1, i + 1)
             \/ MessageEnd(s, p) = 0 /\ XtAt(B, i, Corrected(SubSeq(s, p, Len(s))), u)
      <4>1. AfterStep(B, r, s, u, p, i)
        BY <3>1, AlignedStepAt
      <4>2. QED
        BY <4>1 DEF AfterStep
    <3>3. ASSUME NEW e \in p .. Len(s), MessageEnd(s, p) = e, Corrected(SubSeq(s, p, e)) = B[i + 1],
                 Aligned(B, r, s, u, e + 1, i + 1)
          PROVE  Good(B, u, g, p, i)
      <4> DEFINE f == e + 1
                 j == i + 1
      <4>1. e # 0 /\ f \in 1 .. n + 1 /\ n + 1 - f <= d /\ j \in 0 .. Len(B)
        <5>1. /\ e \in p .. n /\ p \in 1 .. n /\ n + 1 - p <= d + 1 /\ d \in Nat /\ n \in Nat
              /\ i \in Nat /\ i < Len(B) /\ Len(B) \in Nat
          BY <1>1, <3>1, <3>2
        <5> HIDE DEF n
        <5>2. QED
          BY ONLY <5>1
      <4>2. Aligned(B, r, s, u, f, j)
        BY <3>3
      <4> HIDE DEF f, j
      <4>3. Good(B, u, g, f, j)
        BY <1>3, <4>1, <4>2
      <4>k. PICK k \in j .. Len(B) : \E x : g[f] = Decoded(x, Between(B, j, k)) /\ XtAt(B, k, x, u)
        BY <4>3, Zenon DEF Good
      <4>4. PICK x : g[f] = Decoded(x, Between(B, j, k)) /\ XtAt(B, k, x, u)
        BY <4>k
      <4>5. g[p] = Decoded(x, <<B[j]>> \o Between(B, j, k))
        <5> DEFINE m == B[j]
                   ms == Between(B, j, k)
        <5>1. /\ IsXt(g, s) /\ p \in 1 .. Len(s) /\ e # 0 /\ MessageEnd(s, p) = e /\ f = e + 1
              /\ m = Corrected(SubSeq(s, p, e)) /\ g[f] = Decoded(x, ms)
          BY <3>1, <3>3, <4>1, <4>4 DEF f, j
        <5> HIDE DEF m, ms
        <5>2. g[p] = Decoded(x, <<m>> \o ms)
          <6>1. g[p] = [Decoded(x, ms) EXCEPT !.messages = <<m>> \o @]
            BY ONLY <5>1, Zenon DEF IsXt
          <6>2. [Decoded(x, ms) EXCEPT !.messages = <<m>> \o @] = Decoded(x, <<m>> \o ms)
            BY ONLY Prepended
          <6>3. QED
            BY ONLY <6>1, <6>2, Zenon
        <5>3. QED
          BY <5>2 DEF m, ms
      <4>6. <<B[j]>> \o Between(B, j, k) = Between(B, i, k) /\ k \in i .. Len(B)
        <5>1. j = i + 1 /\ i \in Nat /\ i < Len(B)
          BY <3>2 DEF j
        <5>2. QED
          BY ONLY <5>1, B \in Seq(Messages), k \in j .. Len(B), BetweenConsAt
      <4>7. QED
        BY <4>4, <4>5, <4>6 DEF Good
    <3>4. ASSUME MessageEnd(s, p) = 0, XtAt(B, i, Corrected(SubSeq(s, p, Len(s))), u)
          PROVE  Good(B, u, g, p, i)
      <4>1. g[p] = Decoded(Corrected(SubSeq(s, p, Len(s))), <<>>)
        BY <3>1, <3>4, XtLast
      <4>2. Between(B, i, i) = <<>> /\ i \in i .. Len(B)
        BY <1>1, <3>2, BetweenSame
      <4>3. QED
        BY <3>4, <4>1, <4>2 DEF Good
    <3>5. QED
      BY <3>2, <3>3, <3>4
  <2>3. QED
    BY <2>1, <2>2
<1>4. 0 \in T
  <2> SUFFICES ASSUME NEW p \in 1 .. n + 1, NEW i \in 0 .. Len(B), n + 1 - p <= 0,
                      Aligned(B, r, s, u, p, i)
               PROVE  Good(B, u, g, p, i)
    OBVIOUS
  <2>1. p = n + 1
    <3>1. n \in Nat /\ p \in 1 .. n + 1 /\ n + 1 - p <= 0
      BY <1>1
    <3> HIDE DEF n
    <3>2. QED
      BY ONLY <3>1
  <2>2. QED
    BY <1>2, <2>1
<1> HIDE DEF T
<1>5. Nat \subseteq T
  BY <1>3, <1>4, Induct
<1> DEFINE d == n + 1 - q
<1>6. d \in Nat /\ n + 1 - q <= d
  BY <1>1
<1>7. l \in 0 .. Len(B)
  BY DEF Aligned
<1> HIDE DEF d
<1>8. d \in T
  BY <1>5, <1>6
<1>9. \A p \in 1 .. n + 1, i \in 0 .. Len(B) :
          (n + 1 - p <= d /\ Aligned(B, r, s, u, p, i)) => Good(B, u, g, p, i)
  BY <1>8 DEF T
<1>10. QED
  BY <1>6, <1>7, <1>9

\* A transfer of the bytes w in front of u.
LEMMA XtTransfer ==
    ASSUME NEW B \in Seq(Messages), NEW k, NEW r \in Seq(Nat), NEW w \in Seq(Nat),
           NEW u \in Seq(Nat), XtAt(B, k, r, w \o u), LastIsShort(w)
    PROVE  \E l \in k .. Len(B) :
               /\ XtAt(B, l, DecodeXt(r, w).rest, u)
               /\ DecodeXt(r, w).messages = Between(B, k, l)
<1> DEFINE s == r \o w
<1>1. s \in Seq(Nat) /\ Len(s) \in Nat /\ s = r \o w
  BY ConcatProperties
<1> HIDE DEF s
<1>2. Aligned(B, r, s, u, 1, k)
  BY <1>1, AlignedStart
<1>3. \E g : DecodeXt(r, w) = g[1] /\ IsXt(g, s)
  BY <1>1, XtDecodedIs
<1>4. PICK g : DecodeXt(r, w) = g[1] /\ IsXt(g, s)
  BY <1>3
<1>5. 1 \in 1 .. Len(s) + 1
  BY <1>1
<1>6. Good(B, u, g, 1, k)
  BY <1>1, <1>2, <1>4, <1>5, XtFrom
<1>l. PICK l \in k .. Len(B) : \E x : g[1] = Decoded(x, Between(B, k, l)) /\ XtAt(B, l, x, u)
  BY <1>6, Zenon DEF Good
<1>7. PICK x : g[1] = Decoded(x, Between(B, k, l)) /\ XtAt(B, l, x, u)
  BY <1>l
<1>8. g[1].rest = x /\ g[1].messages = Between(B, k, l)
  BY <1>7 DEF Decoded
<1>9. QED
  BY <1>4, <1>7, <1>8

-----------------------------------------------------------------------------
(* The device sends a message more.                                        *)

LEMMA JoinedFours ==
    \A x, y, z \in Seq(Fours) : (x \o y) \o z = x \o (y \o z)
<1>1. SUFFICES ASSUME NEW x \in Seq(Fours), NEW y \in Seq(Fours), NEW z \in Seq(Fours)
               PROVE  (x \o y) \o z = x \o (y \o z)
  OBVIOUS
<1>2. QED
  BY Joined

LEMMA JoinedBytes ==
    \A x, y, z \in Seq(Nat) : (x \o y) \o z = x \o (y \o z)
<1>1. SUFFICES ASSUME NEW x \in Seq(Nat), NEW y \in Seq(Nat), NEW z \in Seq(Nat)
               PROVE  (x \o y) \o z = x \o (y \o z)
  OBVIOUS
<1>2. QED
  BY Joined, SMTT(30)

\* Another message behind the others.
LEMMA MessagesMore ==
    ASSUME NEW B \in Seq(Messages), NEW b \in Messages
    PROVE  LET C == Append(B, b)
           IN /\ C \in Seq(Messages) /\ Len(C) = Len(B) + 1 /\ Len(B) \in Nat
              /\ \A i \in 1 .. Len(B) : C[i] = B[i]
              /\ C[Len(B) + 1] = b
  BY AppendProperties

LEMMA PacketsMore ==
    ASSUME NEW B \in Seq(Messages), NEW b \in Messages
    PROVE  PacketsOf(Append(B, b)) = Append(PacketsOf(B), EncodeMidi(b) \o <<Null>>)
<1> DEFINE C == Append(B, b)
           n == Len(B)
           d == EncodeMidi(b) \o <<Null>>
           D == PacketsOf(B)
           E == PacketsOf(C)
           F == Append(D, d)
<1>1. C \in Seq(Messages) /\ Len(C) = n + 1 /\ n \in Nat /\ (\A i \in 1 .. n : C[i] = B[i])
      /\ C[n + 1] = b
  BY MessagesMore
<1> HIDE DEF C
<1>2. /\ D \in Seq(Seq(Fours)) /\ Len(D) = n
      /\ \A i \in 1 .. n : D[i] = EncodeMidi(B[i]) \o <<Null>>
  BY PacketsTyped
<1>3. /\ E \in Seq(Seq(Fours)) /\ Len(E) = n + 1
      /\ \A i \in 1 .. n + 1 : E[i] = EncodeMidi(C[i]) \o <<Null>>
  BY <1>1, PacketsTyped
<1>4. d \in Seq(Fours)
  <2>1. EncodeMidi(b) \in Seq(Fours)
    BY WholeEncoded
  <2>2. QED
    BY <2>1, NullIs, ConcatProperties
<1> HIDE DEF D, E, n
<1>5. /\ F \in Seq(Seq(Fours)) /\ Len(F) = n + 1 /\ F[n + 1] = d
      /\ \A i \in 1 .. n : F[i] = D[i]
  <2> HIDE DEF d
  <2>1. QED
    BY <1>2, <1>4, AppendProperties
<1> HIDE DEF F
<1>6. ASSUME NEW i \in 1 .. n + 1 PROVE E[i] = F[i]
  <2>1. CASE i = n + 1
    BY <1>1, <1>3, <1>5, <2>1
  <2>2. CASE i # n + 1
    <3>1. i \in 1 .. n
      BY <1>1, <2>2
    <3>2. E[i] = EncodeMidi(C[i]) \o <<Null>> /\ C[i] = B[i]
      BY <1>1, <1>3, <3>1
    <3>3. F[i] = EncodeMidi(B[i]) \o <<Null>>
      BY <1>2, <1>5, <3>1
    <3>4. QED
      BY <3>2, <3>3
  <2>3. QED
    BY <2>1, <2>2
<1>7. E = F
  BY <1>3, <1>5, <1>6, SeqEqual
<1>8. QED
  BY <1>7 DEF E, F, D, d, C

LEMMA CommandsMore ==
    ASSUME NEW B \in Seq(Messages), NEW b \in Messages
    PROVE  CommandsOf(Append(B, b)) = Append(CommandsOf(B), DeviceCommand(b))
<1> DEFINE C == Append(B, b)
           n == Len(B)
           d == DeviceCommand(b)
           D == CommandsOf(B)
           E == CommandsOf(C)
           F == Append(D, d)
<1>1. C \in Seq(Messages) /\ Len(C) = n + 1 /\ n \in Nat /\ (\A i \in 1 .. n : C[i] = B[i])
      /\ C[n + 1] = b
  BY MessagesMore
<1> HIDE DEF C
<1>2. /\ D \in Seq(Seq(Nat)) /\ Len(D) = n
      /\ \A i \in 1 .. n : D[i] = DeviceCommand(B[i])
  BY CommandsTyped
<1>3. /\ E \in Seq(Seq(Nat)) /\ Len(E) = n + 1
      /\ \A i \in 1 .. n + 1 : E[i] = DeviceCommand(C[i])
  BY <1>1, CommandsTyped
<1>4. d \in Seq(Nat)
  <2>1. d = DeviceCommand(b)
    OBVIOUS
  <2> HIDE DEF d
  <2>2. QED
    BY <2>1, CommandIs
<1> HIDE DEF D, E, n
<1>5. /\ F \in Seq(Seq(Nat)) /\ Len(F) = n + 1 /\ F[n + 1] = d
      /\ \A i \in 1 .. n : F[i] = D[i]
  <2> HIDE DEF d
  <2>1. QED
    BY <1>2, <1>4, AppendProperties
<1> HIDE DEF F
<1>6. ASSUME NEW i \in 1 .. n + 1 PROVE E[i] = F[i]
  <2>1. CASE i = n + 1
    BY <1>1, <1>3, <1>5, <2>1
  <2>2. CASE i # n + 1
    <3>1. i \in 1 .. n
      BY <1>1, <2>2
    <3>2. E[i] = DeviceCommand(C[i]) /\ C[i] = B[i]
      BY <1>1, <1>3, <3>1
    <3>3. F[i] = DeviceCommand(B[i])
      BY <1>2, <1>5, <3>1
    <3>4. QED
      BY <3>2, <3>3
  <2>3. QED
    BY <2>1, <2>2
<1>7. E = F
  BY <1>3, <1>5, <1>6, SeqEqual
<1>8. QED
  BY <1>7 DEF E, F, D, d, C

LEMMA MidiMore ==
    ASSUME NEW B \in Seq(Messages), NEW b \in Messages, NEW k, NEW r, NEW W, MidiAt(B, k, r, W)
    PROVE  MidiAt(Append(B, b), k, r, W \o (EncodeMidi(b) \o <<Null>>))
<1> DEFINE C == Append(B, b)
           n == Len(B)
           d == EncodeMidi(b) \o <<Null>>
           D == PacketsOf(B)
           E == PacketsOf(C)
<1>1. /\ C \in Seq(Messages) /\ Len(C) = n + 1 /\ n \in Nat /\ \A i \in 1 .. n : C[i] = B[i]
  BY MessagesMore
<1>2. d \in Seq(Fours)
  <2>1. EncodeMidi(b) \in Seq(Fours)
    BY WholeEncoded
  <2>2. QED
    BY <2>1, NullIs, ConcatProperties
<1>3. D \in Seq(Seq(Fours)) /\ Len(D) = n
  BY PacketsTyped
<1>4. E = Append(D, d)
  BY PacketsMore
<1> HIDE DEF C, d, D, E, n
<1>5. \A i \in 0 .. n : Stream(E, i) = Stream(D, i) \o d /\ Stream(D, i) \in Seq(Fours)
  <2>1. \A i \in 0 .. n : i \in Nat /\ i <= Len(D)
    BY <1>1, <1>3
  <2>2. QED
    BY <1>2, <1>3, <1>4, <2>1, StreamAppend, StreamType
<1>6. k \in 0 .. n /\ k \in 0 .. Len(C)
  BY <1>1 DEF MidiAt, n
<1>7. ASSUME NEW s \in Seq(Fours) PROVE (<<Null>> \o s) \o d = <<Null>> \o (s \o d)
  <2>1. <<Null>> \in Seq(Fours)
    BY NullIs
  <2>2. QED
    BY ONLY <1>2, <1>7, <2>1, Joined
<1>8. CASE k = n /\ r = <<>> /\ W = <<>>
  <2>1. Stream(D, k) = <<>>
    BY <1>3, <1>8, StreamEnd
  <2>2. Stream(E, k) = W \o d
    BY <1>5, <1>6, <1>8, <2>1
  <2>3. MidiAt(C, k, <<>>, Stream(E, k))
    BY <1>1, <1>6, MidiBetween DEF E
  <2>4. QED
    BY <1>8, <2>2, <2>3 DEF C, d
<1>9. CASE r = <<>> /\ W = <<Null>> \o Stream(D, k)
  <2>1. W \o d = <<Null>> \o Stream(E, k)
    BY <1>5, <1>6, <1>7, <1>9
  <2>2. MidiAt(C, k, r, W \o d)
    BY <1>6, <1>9, <2>1 DEF MidiAt, E
  <2>3. QED
    BY <2>2 DEF C, d
<1>10. ASSUME k < n, NEW j \in Nat, 3 * j < Len(B[k + 1]), j = 0 \/ Sysex(B[k + 1]),
              r = SubSeq(B[k + 1], 1, 3 * j), W = Remaining(B, k, j)
       PROVE  MidiAt(C, k, r, W \o d)
  <2> DEFINE x == B[k + 1]
             e == From(EncodeMidi(x), j)
             s == Stream(D, k + 1)
             N == <<Null>>
  <2>1. k + 1 \in 1 .. n /\ k + 1 \in 0 .. n
    BY <1>1, <1>6, <1>10
  <2>2. x \in Messages /\ C[k + 1] = x
    BY <1>1, <2>1 DEF n
  <2>3. EncodeMidi(x) \in Seq(Fours)
    <3> HIDE DEF x
    <3>1. QED
      BY <2>2, WholeEncoded
  <2>4. e \in Seq(Fours)
    <3> HIDE DEF x
    <3>1. QED
      BY <1>10, <2>3 DEF From
  <2>5. s \in Seq(Fours) /\ Stream(E, k + 1) = s \o d
    BY <1>5, <2>1
  <2>6. N \in Seq(Fours)
    BY NullIs
  <2>7. W = e \o (N \o s)
    BY <1>10 DEF Remaining, D
  <2>8. W \o d = e \o (N \o (s \o d))
    <3> HIDE DEF e, s, N
    <3>1. N \o s \in Seq(Fours)
      BY <2>5, <2>6, ConcatProperties
    <3>2. (e \o (N \o s)) \o d = e \o ((N \o s) \o d)
      BY ONLY <1>2, <2>4, <3>1, JoinedFours, Zenon
    <3>3. (N \o s) \o d = N \o (s \o d)
      BY ONLY <1>2, <2>5, <2>6, JoinedFours, Zenon
    <3>4. QED
      BY <2>7, <3>2, <3>3
  <2>9. W \o d = Remaining(C, k, j)
    BY <2>2, <2>5, <2>8 DEF Remaining, E
  <2>10. k < Len(C)
    BY <1>1, <1>10, <1>6
  <2>11. 3 * j < Len(C[k + 1]) /\ (j = 0 \/ Sysex(C[k + 1])) /\ r = SubSeq(C[k + 1], 1, 3 * j)
    BY <1>10, <2>2
  <2>12. QED
    BY <1>6, <1>10, <2>9, <2>10, <2>11 DEF MidiAt
<1>11. MidiAt(B, k, r, W)
  OBVIOUS
<1>12. QED
  BY <1>8, <1>9, <1>10, <1>11 DEF MidiAt, C, d, D, n

LEMMA XtMoreMessages ==
    ASSUME NEW B \in Seq(Messages), NEW b \in Messages, NEW k, NEW r, NEW t, XtAt(B, k, r, t)
    PROVE  XtAt(Append(B, b), k, r, t \o DeviceCommand(b))
<1> DEFINE C == Append(B, b)
           n == Len(B)
           d == DeviceCommand(b)
           D == CommandsOf(B)
           E == CommandsOf(C)
<1>1. /\ C \in Seq(Messages) /\ Len(C) = n + 1 /\ n \in Nat /\ \A i \in 1 .. n : C[i] = B[i]
  BY MessagesMore
<1>2. d \in Seq(Nat)
  <2>1. d = DeviceCommand(b)
    OBVIOUS
  <2> HIDE DEF d
  <2>2. QED
    BY <2>1, CommandIs
<1>3. D \in Seq(Seq(Nat)) /\ Len(D) = n
  BY CommandsTyped
<1>4. E = Append(D, d)
  BY CommandsMore
<1> HIDE DEF C, d, D, E, n
<1>5. \A i \in 0 .. n : Stream(E, i) = Stream(D, i) \o d /\ Stream(D, i) \in Seq(Nat)
  <2>1. \A i \in 0 .. n : i \in Nat /\ i <= Len(D)
    BY <1>1, <1>3
  <2>2. QED
    BY <1>2, <1>3, <1>4, <2>1, StreamAppend, StreamType
<1>6. k \in 0 .. n /\ k \in 0 .. Len(C)
  BY <1>1 DEF XtAt, n
<1>8. CASE k = n /\ r = <<>> /\ t = <<>>
  <2>1. Stream(D, k) = <<>>
    BY <1>3, <1>8, StreamEnd
  <2>2. Stream(E, k) = t \o d
    BY <1>5, <1>6, <1>8, <2>1
  <2>3. XtAt(C, k, <<>>, Stream(E, k))
    BY <1>1, <1>6, XtBetween DEF E
  <2>4. QED
    BY <1>8, <2>2, <2>3 DEF C, d
<1>10. ASSUME k < n, NEW j \in Nat, j < Len(B[k + 1]), j = 0 \/ Sysex(B[k + 1]),
              r = SubSeq(B[k + 1], 1, j),
              t = From(DeviceCommand(B[k + 1]), j) \o Stream(CommandsOf(B), k + 1)
       PROVE  XtAt(C, k, r, t \o d)
  <2> DEFINE x == B[k + 1]
             y == DeviceCommand(x)
             e == From(y, j)
             s == Stream(D, k + 1)
  <2>1. k + 1 \in 1 .. n /\ k + 1 \in 0 .. n
    BY <1>1, <1>6, <1>10
  <2>2. x \in Messages /\ C[k + 1] = x
    BY <1>1, <2>1 DEF n
  <2>3. y \in Seq(Nat)
    <3>1. y = DeviceCommand(x)
      OBVIOUS
    <3> HIDE DEF x, y
    <3>2. QED
      BY <2>2, <3>1, CommandIs
  <2>4. e \in Seq(Nat)
    <3> HIDE DEF y
    <3>1. QED
      BY <1>10, <2>3 DEF From
  <2>5. s \in Seq(Nat) /\ Stream(E, k + 1) = s \o d
    BY <1>5, <2>1
  <2>7. t = e \o s
    BY <1>10 DEF D
  <2>8. t \o d = e \o (s \o d)
    <3> HIDE DEF e, s
    <3>1. (e \o s) \o d = e \o (s \o d)
      BY ONLY <1>2, <2>4, <2>5, JoinedBytes, Zenon
    <3>2. QED
      BY <2>7, <3>1
  <2>9. t \o d = From(DeviceCommand(C[k + 1]), j) \o Stream(CommandsOf(C), k + 1)
    BY <2>2, <2>5, <2>8 DEF E
  <2>10. k < Len(C)
    BY <1>1, <1>10, <1>6
  <2>11. j < Len(C[k + 1]) /\ (j = 0 \/ Sysex(C[k + 1])) /\ r = SubSeq(C[k + 1], 1, j)
    BY <1>10, <2>2
  <2>12. QED
    BY <1>6, <1>10, <2>9, <2>10, <2>11 DEF XtAt
<1>11. XtAt(B, k, r, t)
  OBVIOUS
<1>12. QED
  BY <1>8, <1>10, <1>11 DEF XtAt, C, d, D, n

-----------------------------------------------------------------------------
(* The end of a transfer.                                                  *)

\* The device's packets are not split by a transfer.
LEMMA PacketsSplit ==
    ASSUME NEW W \in Seq(Fours), NEW t, t = FlattenSeq(W), NEW n \in Nat, n <= Len(t), n % 4 = 0
    PROVE  \E V, U \in Seq(Fours) :
               /\ W = V \o U /\ Packets(SubSeq(t, 1, n)) = V
               /\ From(t, n) = FlattenSeq(U)
<1> DEFINE m == n \div 4
           V == SubSeq(W, 1, m)
           U == From(W, m)
           f == FlattenSeq(V)
           h == FlattenSeq(U)
<1>1. t \in Seq(Nat) /\ Len(t) = 4 * Len(W) /\ Len(W) \in Nat
  BY FoursComeBack
<1>2. m \in Nat /\ n = 4 * m
  BY SMTT(20)
<1> HIDE DEF m
<1>3. m <= Len(W)
  <2> DEFINE lw == Len(W)
             lt == Len(t)
  <2>1. lt = 4 * lw /\ lw \in Nat /\ n <= lt
    BY <1>1
  <2> HIDE DEF lw, lt
  <2>2. m <= lw
    BY ONLY <1>2, <2>1
  <2>3. QED
    BY <2>2 DEF lw
<1>4. V \in Seq(Fours) /\ U \in Seq(Fours) /\ W = V \o U /\ Len(V) = m
  BY <1>2, <1>3, FromIs
<1> HIDE DEF V, U
<1>5. t = f \o h
  <2>1. \A s \in Seq(Fours) : s \in Seq(Seq(Nat))
    BY DEF Fours
  <2>2. V \in Seq(Seq(Nat)) /\ U \in Seq(Seq(Nat))
    BY <1>4, <2>1
  <2>3. FlattenSeq(V \o U) = FlattenSeq(V) \o FlattenSeq(U)
    BY <2>2, FlatConcat
  <2>4. QED
    BY <1>4, <2>3
<1>6. f \in Seq(Nat) /\ Len(f) = n /\ Packets(f) = V
  BY <1>2, <1>4, FoursComeBack
<1>7. h \in Seq(Nat) /\ Len(h) \in Nat
  BY <1>4, FoursComeBack
<1> HIDE DEF f, h
<1>8. SubSeq(t, 1, n) = f
  BY <1>5, <1>6, <1>7, FirstPart
<1>9. From(t, n) = h
  <2>1. SubSeq(f \o h, Len(f) + 1, Len(f) + Len(h)) = h
    BY <1>6, <1>7, LastPart
  <2>2. Len(t) = n + Len(h)
    BY <1>5, <1>6, <1>7, ConcatProperties
  <2>3. From(t, n) = SubSeq(f \o h, Len(f) + 1, Len(f) + Len(h))
    BY <1>5, <1>6, <2>2 DEF From
  <2>4. QED
    BY <2>1, <2>3
<1>10. QED
  BY <1>4, <1>6, <1>8, <1>9 DEF h

\* What stays in a framer is a part of the message that comes.
LEMMA RestIs ==
    ASSUME NEW B \in Seq(Messages), NEW k, NEW r,
           (\E W : MidiAt(B, k, r, W)) \/ (\E t : XtAt(B, k, r, t))
    PROVE  r \in Seq(Nat) /\ (r = <<>> \/ (k < Len(B) /\ k + 1 \in 1 .. Len(B) /\ Len(r) <= Len(B[k + 1])))
<1>1. k \in 0 .. Len(B) /\ Len(B) \in Nat
  BY DEF MidiAt, XtAt
<1>2. ASSUME NEW j \in Nat, k < Len(B), j < Len(B[k + 1]), r = SubSeq(B[k + 1], 1, j)
      PROVE  r \in Seq(Nat) /\ k + 1 \in 1 .. Len(B) /\ Len(r) <= Len(B[k + 1])
  <2> DEFINE b == B[k + 1]
  <2>1. k + 1 \in 1 .. Len(B) /\ b \in Messages
    BY <1>1, <1>2
  <2> HIDE DEF b
  <2>2. b \in Seq(Nat) /\ Len(b) \in Nat
    BY <2>1, WholeEncoded
  <2>3. j < Len(b) /\ r = SubSeq(b, 1, j)
    BY <1>2 DEF b
  <2>4. r \in Seq(Nat) /\ Len(r) = j
    BY ONLY <2>2, <2>3, j \in Nat
  <2>5. Len(r) <= Len(b)
    BY <2>2, <2>3, <2>4
  <2>6. QED
    BY <2>1, <2>4, <2>5 DEF b
<1>3. <<>> \in Seq(Nat)
  OBVIOUS
<1>4. CASE \E W : MidiAt(B, k, r, W)
  <2>1. PICK W : MidiAt(B, k, r, W)
    BY <1>4
  <2>2. \/ r = <<>>
        \/ k < Len(B) /\ \E j \in Nat : 3 * j < Len(B[k + 1]) /\ r = SubSeq(B[k + 1], 1, 3 * j)
    BY <2>1 DEF MidiAt
  <2>3. \/ r = <<>>
        \/ k < Len(B) /\ \E j \in Nat : j < Len(B[k + 1]) /\ r = SubSeq(B[k + 1], 1, j)
    BY <2>2
  <2>4. QED
    BY <1>2, <1>3, <2>3
<1>5. CASE \E t : XtAt(B, k, r, t)
  <2>1. PICK t : XtAt(B, k, r, t)
    BY <1>5
  <2>2. \/ r = <<>>
        \/ k < Len(B) /\ \E j \in Nat : j < Len(B[k + 1]) /\ r = SubSeq(B[k + 1], 1, j)
    BY <2>1 DEF XtAt
  <2>3. QED
    BY <1>2, <1>3, <2>2
<1>6. QED
  BY <1>4, <1>5

\* When all bytes were transferred, all messages were received.
LEMMA MidiAll ==
    ASSUME NEW B \in Seq(Messages), NEW k, NEW r, MidiAt(B, k, r, <<>>)
    PROVE  k = Len(B) /\ r = <<>>
<1>1. k \in 0 .. Len(B) /\ Len(B) \in Nat
  BY DEF MidiAt
<1>2. \A i \in Nat : Stream(PacketsOf(B), i) \in Seq(Fours)
  BY PacketsTyped, StreamType
<1>3. \A s \in Seq(Fours) : <<Null>> \o s # <<>> /\ <<Null>> \o s \in Seq(Fours)
  <2> TAKE s \in Seq(Fours)
  <2>1. <<Null>> \in Seq(Fours) /\ Len(<<Null>>) > 0
    BY NullIs
  <2>2. <<Null>> \o s # <<>>
    BY <2>1, CutsNonempty
  <2>3. <<Null>> \o s \in Seq(Fours)
    BY <2>1, ConcatProperties
  <2>4. QED
    BY <2>2, <2>3
<1>4. ~(<<>> = <<Null>> \o Stream(PacketsOf(B), k))
  <2>1. k \in Nat
    BY <1>1
  <2> DEFINE s == Stream(PacketsOf(B), k)
  <2>2. s \in Seq(Fours)
    BY <1>2, <2>1
  <2> HIDE DEF s
  <2>3. ~(<<>> = <<Null>> \o s)
    BY <1>3, <2>2
  <2>4. QED
    BY <2>3 DEF s
<1>5. ASSUME k < Len(B), NEW j \in Nat, 3 * j < Len(B[k + 1]), <<>> = Remaining(B, k, j)
      PROVE  FALSE
  <2> DEFINE e == From(EncodeMidi(B[k + 1]), j)
             t == <<Null>> \o Stream(PacketsOf(B), k + 1)
  <2>1. k + 1 \in Nat /\ B[k + 1] \in Messages
    BY <1>1, <1>5
  <2>2. t \in Seq(Fours) /\ t # <<>>
    BY <1>2, <1>3, <2>1
  <2>3. e \in Seq(Fours)
    <3>1. EncodeMidi(B[k + 1]) \in Seq(Fours)
      BY <2>1, WholeEncoded
    <3>2. QED
      BY <1>5, <3>1 DEF From
  <2>4. e \o t = <<>>
    BY <1>5 DEF Remaining
  <2> HIDE DEF e, t
  <2>5. Len(e \o t) = Len(e) + Len(t) /\ Len(e) \in Nat /\ Len(t) \in Nat
    BY <2>2, <2>3, ConcatProperties
  <2>6. Len(t) # 0
    BY <2>2
  <2>7. QED
    BY <2>4, <2>5, <2>6
<1>6. QED
  BY <1>4, <1>5 DEF MidiAt

LEMMA XtAll ==
    ASSUME NEW B \in Seq(Messages), NEW k, NEW r, XtAt(B, k, r, <<>>)
    PROVE  k = Len(B) /\ r = <<>>
<1>1. k \in 0 .. Len(B) /\ Len(B) \in Nat
  BY DEF XtAt
<1>2. ASSUME k < Len(B), NEW j \in Nat, j < Len(B[k + 1]),
             <<>> = From(DeviceCommand(B[k + 1]), j) \o Stream(CommandsOf(B), k + 1)
      PROVE  FALSE
  <2> DEFINE b == B[k + 1]
             c == DeviceCommand(b)
             e == From(c, j)
             t == Stream(CommandsOf(B), k + 1)
  <2>1. k \in Nat /\ b \in Messages
    BY <1>1, <1>2
  <2>2. t \in Seq(Nat)
    BY <2>1, StreamOfCommands
  <2>3. c \in Seq(Nat) /\ Len(c) = Len(b)
    <3>1. c = DeviceCommand(b)
      OBVIOUS
    <3> HIDE DEF b, c
    <3>2. QED
      BY <2>1, <3>1, CommandIs
  <2>4. e \in Seq(Nat) /\ Len(e) > 0
    <3>1. c \in Seq(Nat) /\ j < Len(c) /\ j \in Nat /\ Len(c) \in Nat
      BY <1>2, <2>3
    <3> HIDE DEF c
    <3>2. From(c, j) \in Seq(Nat) /\ Len(From(c, j)) = Len(c) - j
      <4>1. j <= Len(c)
        BY <3>1
      <4>2. QED
        BY ONLY <3>1, <4>1, FromAt
    <3>3. QED
      BY <3>1, <3>2
  <2>5. e \o t = <<>>
    BY <1>2
  <2> HIDE DEF e, t
  <2>6. QED
    BY <2>2, <2>4, <2>5, CutsNonempty
<1>3. QED
  BY <1>2 DEF XtAt

-----------------------------------------------------------------------------
(* The stream of either framer.                                            *)

\* The bytes t come next, k of the messages B were received, and the framer f
\* keeps r.
At(f, B, k, r, t) ==
    IF f = "midi" THEN \E W \in Seq(Fours) : t = FlattenSeq(W) /\ MidiAt(B, k, r, W)
                  ELSE XtAt(B, k, r, t)

\* What the device sends for the bytes b of a message.
Devices(f, b) ==
    IF f = "midi" THEN FlattenSeq(EncodeMidi(b) \o <<Null>>) ELSE DeviceCommand(b)

\* Before any message.
LEMMA AtStart ==
    ASSUME NEW f
    PROVE  At(f, <<>>, 0, <<>>, <<>>)
<1>1. Len(<<>>) = 0 /\ <<>> \in Seq(Fours)
  OBVIOUS
<1>2. MidiAt(<<>>, 0, <<>>, <<>>) /\ XtAt(<<>>, 0, <<>>, <<>>)
  BY <1>1 DEF MidiAt, XtAt
<1>3. QED
  BY <1>1, <1>2, FlatEmpty DEF At

LEMMA DevicesTyped ==
    ASSUME NEW f, NEW b \in Messages
    PROVE  Devices(f, b) \in Seq(Nat)
<1>1. EncodeMidi(b) \o <<Null>> \in Seq(Fours)
  BY WholeEncoded, NullIs, ConcatProperties
<1>2. FlattenSeq(EncodeMidi(b) \o <<Null>>) \in Seq(Nat)
  BY <1>1, FoursComeBack
<1>3. DeviceCommand(b) \in Seq(Nat)
  BY CommandIs
<1>4. QED
  BY <1>2, <1>3 DEF Devices

\* The device sends a message more.
LEMMA AtMore ==
    ASSUME NEW f, NEW B \in Seq(Messages), NEW b \in Messages, NEW k, NEW r, NEW t,
           At(f, B, k, r, t)
    PROVE  At(f, Append(B, b), k, r, t \o Devices(f, b))
<1>1. CASE f = "midi"
  <2> DEFINE d == EncodeMidi(b) \o <<Null>>
  <2>1. PICK W \in Seq(Fours) : t = FlattenSeq(W) /\ MidiAt(B, k, r, W)
    BY <1>1 DEF At
  <2>2. MidiAt(Append(B, b), k, r, W \o d)
    BY <2>1, MidiMore
  <2>3. d \in Seq(Fours) /\ Devices(f, b) = FlattenSeq(d)
    BY <1>1, WholeEncoded, NullIs, ConcatProperties DEF Devices
  <2> HIDE DEF d
  <2>4. W \o d \in Seq(Fours)
    BY <2>1, <2>3, ConcatProperties
  <2>5. FlattenSeq(W \o d) = FlattenSeq(W) \o FlattenSeq(d)
    <3>1. \A s \in Seq(Fours) : s \in Seq(Seq(Nat))
      BY DEF Fours
    <3>2. W \in Seq(Seq(Nat)) /\ d \in Seq(Seq(Nat))
      BY <2>1, <2>3, <3>1
    <3>3. QED
      BY <3>2, FlatConcat
  <2>6. t \o Devices(f, b) = FlattenSeq(W \o d)
    BY <2>1, <2>3, <2>5
  <2>7. QED
    BY <1>1, <2>2, <2>4, <2>6 DEF At
<1>2. CASE f # "midi"
  BY <1>2, XtMoreMessages DEF At, Devices
<1>3. QED
  BY <1>1, <1>2

\* A transfer of n bytes, which are w; d is what the framer makes of them.
MayTransfer(f, B, k, r, t, n, w) ==
    /\ B \in Seq(Messages) /\ t \in Seq(Nat) /\ At(f, B, k, r, t)
    /\ n \in Nat /\ n <= Len(t) /\ w = SubSeq(t, 1, n)
    /\ f = "midi" => n % 4 = 0
    /\ f # "midi" => LastIsShort(w)
Transferred(f, B, k, l, d, u) ==
    l \in k .. Len(B) /\ At(f, B, l, d.rest, u) /\ d.messages = Between(B, k, l)

\* A transfer: the framer decodes messages that follow in the stream, and keeps
\* what it has of the next.
LEMMA AtTransferred ==
    \A f, B, k, r, t, n, w : MayTransfer(f, B, k, r, t, n, w) =>
        \E l : Transferred(f, B, k, l, DecodeIncoming(f, r, w), From(t, n))
<1> SUFFICES ASSUME NEW f, NEW B, NEW k, NEW r, NEW t, NEW n, NEW w,
                    MayTransfer(f, B, k, r, t, n, w)
             PROVE  \E l : Transferred(f, B, k, l, DecodeIncoming(f, r, w), From(t, n))
  OBVIOUS
<1>0. /\ B \in Seq(Messages) /\ t \in Seq(Nat) /\ At(f, B, k, r, t)
      /\ n \in Nat /\ n <= Len(t) /\ w = SubSeq(t, 1, n)
      /\ f = "midi" => n % 4 = 0
      /\ f # "midi" => LastIsShort(w)
  BY DEF MayTransfer
<1>1. CASE f = "midi"
  <2>1. PICK W \in Seq(Fours) : t = FlattenSeq(W) /\ MidiAt(B, k, r, W)
    BY <1>0, <1>1 DEF At
  <2>2. PICK V \in Seq(Fours), U \in Seq(Fours) :
            W = V \o U /\ Packets(w) = V /\ From(t, n) = FlattenSeq(U)
    BY <1>0, <1>1, <2>1, PacketsSplit
  <2>3. MidiAt(B, k, r, V \o U)
    BY <2>1, <2>2
  <2>4. PICK l \in k .. Len(B) :
            MidiAt(B, l, DecodeMidi(r, w).rest, U) /\ DecodeMidi(r, w).messages = Between(B, k, l)
    <3>1. Packets(w) = V
      BY <2>2
    <3>2. B \in Seq(Messages)
      BY <1>0
    <3>3. QED
      BY ONLY <2>3, <3>1, <3>2, MidiTransfer
  <2>5. QED
    BY <1>1, <2>2, <2>4 DEF At, DecodeIncoming, Transferred
<1>2. CASE f # "midi"
  <2> DEFINE u == From(t, n)
  <2>1. XtAt(B, k, r, t)
    BY <1>0, <1>2 DEF At
  <2>2. w \in Seq(Nat) /\ u \in Seq(Nat) /\ t = w \o u
    BY <1>0, FromIs
  <2>3. r \in Seq(Nat)
    BY <1>0, <2>1, RestIs
  <2> HIDE DEF u
  <2>4. XtAt(B, k, r, w \o u)
    BY <2>1, <2>2
  <2>5. LastIsShort(w) /\ B \in Seq(Messages)
    BY <1>0, <1>2
  <2>6. PICK l \in k .. Len(B) :
            XtAt(B, l, DecodeXt(r, w).rest, u) /\ DecodeXt(r, w).messages = Between(B, k, l)
    BY ONLY <2>2, <2>3, <2>4, <2>5, XtTransfer
  <2>7. QED
    BY <1>2, <2>6 DEF At, DecodeIncoming, Transferred, u
<1>3. QED
  BY <1>1, <1>2

\* All bytes were transferred.
LEMMA AtAll ==
    ASSUME NEW f, NEW B \in Seq(Messages), NEW k, NEW r, At(f, B, k, r, <<>>)
    PROVE  k = Len(B) /\ r = <<>>
<1>1. CASE f = "midi"
  <2>1. PICK W \in Seq(Fours) : <<>> = FlattenSeq(W) /\ MidiAt(B, k, r, W)
    BY <1>1 DEF At
  <2>2. W = <<>>
    <3>1. Len(<<>>) = 4 * Len(W) /\ Len(W) \in Nat
      BY <2>1, FoursComeBack
    <3>2. Len(W) = 0
      BY <3>1
    <3>3. QED
      BY <3>2, EmptySeq
  <2>3. QED
    BY <2>1, <2>2, MidiAll
<1>2. CASE f # "midi"
  BY <1>2, XtAll DEF At
<1>3. QED
  BY <1>1, <1>2

\* What the framer keeps.
LEMMA AtRest ==
    ASSUME NEW f, NEW B \in Seq(Messages), NEW k, NEW r, NEW t, At(f, B, k, r, t)
    PROVE  /\ k \in 0 .. Len(B) /\ r \in Seq(Nat)
           /\ r = <<>> \/ (k < Len(B) /\ k + 1 \in 1 .. Len(B) /\ Len(r) <= Len(B[k + 1]))
<1>1. (\E W : MidiAt(B, k, r, W)) \/ XtAt(B, k, r, t)
  BY DEF At
<1>2. k \in 0 .. Len(B)
  BY <1>1 DEF MidiAt, XtAt
<1>3. QED
  BY <1>1, <1>2, RestIs

-----------------------------------------------------------------------------
(* Received in order.                                                      *)

BytesOf(ms)   == [i \in 1 .. Len(ms) |-> ToBytes(ms[i])]
Parsed(ms, k) == [i \in 1 .. k |-> FromBytes(ToBytes(ms[i]))]

ParsedAll(d)  == [i \in DOMAIN d |-> FromBytes(d[i])]

LEMMA BytesTyped ==
    ASSUME WholeMessages, NEW ms \in Seq(Incoming \cup Outgoing)
    PROVE  /\ BytesOf(ms) \in Seq(Messages) /\ Len(BytesOf(ms)) = Len(ms)
           /\ \A i \in 1 .. Len(ms) : BytesOf(ms)[i] = ToBytes(ms[i])
<1> DEFINE n == Len(ms)
           S == Incoming \cup Outgoing
<1>1. n \in Nat /\ \A i \in 1 .. n : ms[i] \in S
  OBVIOUS
<1>2. \A m \in S : ToBytes(m) \in Messages
  <2> TAKE m \in S
  <2>1. Whole(ToBytes(m))
    BY DEF WholeMessages
  <2>2. QED
    BY <2>1, Zenon DEF Messages, Whole
<1>3. BytesOf(ms) = [i \in 1 .. n |-> ToBytes(ms[i])]
  BY DEF BytesOf
<1> HIDE DEF n, S
<1>4. \A i \in 1 .. n : ToBytes(ms[i]) \in Messages
  BY <1>1, <1>2
<1>5. BytesOf(ms) \in Seq(Messages) /\ Len(BytesOf(ms)) = n
  BY <1>1, <1>3, <1>4
<1>6. \A i \in 1 .. n : BytesOf(ms)[i] = ToBytes(ms[i])
  BY <1>3
<1>7. QED
  BY <1>5, <1>6 DEF n

LEMMA BytesMore ==
    ASSUME WholeMessages, NEW ms \in Seq(Incoming \cup Outgoing), NEW m \in Incoming \cup Outgoing
    PROVE  ToBytes(m) \in Messages /\ BytesOf(Append(ms, m)) = Append(BytesOf(ms), ToBytes(m))
<1> DEFINE S == Incoming \cup Outgoing
           more == Append(ms, m)
           b == ToBytes(m)
           B == BytesOf(ms)
           C == BytesOf(more)
           n == Len(ms)
<1>1. b \in Messages
  <2>1. Whole(b)
    BY DEF WholeMessages
  <2>2. QED
    BY <2>1, Zenon DEF Messages, Whole
<1>2. /\ more \in Seq(S) /\ Len(more) = n + 1 /\ n \in Nat
      /\ \A i \in 1 .. n : more[i] = ms[i]
      /\ more[n + 1] = m
  OBVIOUS
<1>3. B \in Seq(Messages) /\ Len(B) = n /\ \A i \in 1 .. n : B[i] = ToBytes(ms[i])
  BY BytesTyped
<1>4. C \in Seq(Messages) /\ Len(C) = n + 1 /\ \A i \in 1 .. n + 1 : C[i] = ToBytes(more[i])
  BY <1>2, BytesTyped
<1> HIDE DEF S, more, B, C, n
<1>5. \A i \in 1 .. n : C[i] = B[i]
  BY <1>2, <1>3, <1>4
<1>6. C[n + 1] = b
  <2>1. n + 1 \in 1 .. n + 1
    BY <1>2
  <2>2. C[n + 1] = ToBytes(more[n + 1])
    BY <1>4, <2>1
  <2>3. QED
    BY <1>2, <2>2
<1> HIDE DEF b
<1>7. C = Append(B, b)
  <2>1. /\ Append(B, b) \in Seq(Messages) /\ Len(Append(B, b)) = n + 1
        /\ \A i \in 1 .. n : Append(B, b)[i] = B[i]
        /\ Append(B, b)[n + 1] = b
    BY ONLY <1>1, <1>3, AppendProperties
  <2>2. \A i \in 1 .. n + 1 : C[i] = Append(B, b)[i]
    <3>1. \A i \in 1 .. n + 1 : i \in 1 .. n \/ i = n + 1
      BY ONLY <1>2
    <3>2. QED
      BY <1>5, <1>6, <2>1, <3>1
  <2>3. QED
    BY <1>4, <2>1, <2>2, SeqEqual
<1>8. QED
  BY <1>1, <1>7 DEF b, B, C, more

\* The bytes B of the messages ms; those between k and l are d.
IsBetween(ms, B, k, l, d) ==
    /\ B \in Seq(Messages) /\ Len(ms) \in Nat /\ Len(B) = Len(ms)
    /\ \A i \in 1 .. Len(ms) : B[i] = ToBytes(ms[i])
    /\ k \in Nat /\ l \in Nat /\ k <= l /\ l <= Len(B)
    /\ d = Between(B, k, l)

\* The messages that a framer took out of the bytes are parsed in their order.
LEMMA ParsedMore ==
    \A ms, B, k, l, d : IsBetween(ms, B, k, l, d) =>
        Parsed(ms, k) \o ParsedAll(d) = Parsed(ms, l)
<1> SUFFICES ASSUME NEW ms, NEW B, NEW k, NEW l, NEW d, IsBetween(ms, B, k, l, d)
             PROVE  Parsed(ms, k) \o ParsedAll(d) = Parsed(ms, l)
  OBVIOUS
<1> DEFINE F(i) == FromBytes(ToBytes(ms[i]))
           S == {F(i) : i \in 1 .. Len(ms)}
           x == Parsed(ms, k)
           y == ParsedAll(d)
           z == Parsed(ms, l)
           n == Len(ms)
<1>0. /\ B \in Seq(Messages) /\ Len(ms) \in Nat /\ Len(B) = Len(ms)
      /\ \A i \in 1 .. Len(ms) : B[i] = ToBytes(ms[i])
      /\ k \in Nat /\ l \in Nat /\ k <= l /\ l <= Len(B)
      /\ d = Between(B, k, l)
  BY Zenon DEF IsBetween
<1>00. k \in Nat /\ l \in Nat /\ k <= l
  BY <1>0
<1>1. x = [i \in 1 .. k |-> F(i)] /\ z = [i \in 1 .. l |-> F(i)]
  BY DEF Parsed
<1>2. n \in Nat /\ k <= n /\ l <= n /\ \A i \in 1 .. n : F(i) \in S
  BY <1>0
<1>3. DOMAIN d = 1 .. l - k /\ \A i \in 1 .. l - k : d[i] = B[k + i]
  <2>1. d \in Seq(Messages) /\ Len(d) = l - k /\ \A i \in 1 .. l - k : d[i] = B[k + i]
    BY <1>0, PartAt DEF Between
  <2>2. QED
    BY <2>1, <1>00
<1>4. \A i \in 1 .. l - k : FromBytes(d[i]) = F(k + i)
  <2> TAKE i \in 1 .. l - k
  <2>1. k + i \in 1 .. n
    BY <1>2, <1>00
  <2>2. B[k + i] = ToBytes(ms[k + i])
    BY <1>0, <2>1
  <2>3. QED
    BY <1>3, <2>2
<1>5. y = [i \in 1 .. l - k |-> F(k + i)]
  BY <1>3, <1>4 DEF ParsedAll
<1> HIDE DEF F, S, x, y, z, n
<1>6. x \in Seq(S) /\ Len(x) = k /\ \A i \in 1 .. k : x[i] = F(i)
  BY ONLY <1>1, <1>2, <1>00
<1>7. z \in Seq(S) /\ Len(z) = l /\ \A i \in 1 .. l : z[i] = F(i)
  BY ONLY <1>1, <1>2, <1>00
<1>8. y \in Seq(S) /\ Len(y) = l - k /\ \A i \in 1 .. l - k : y[i] = F(k + i)
  <2>1. \A i \in 1 .. l - k : k + i \in 1 .. n /\ l - k \in Nat
    BY ONLY <1>2, <1>00
  <2>2. l - k \in Nat
    BY ONLY <1>00
  <2>3. \A i \in 1 .. l - k : F(k + i) \in S
    BY <1>2, <2>1
  <2>4. QED
    BY ONLY <1>5, <2>2, <2>3
<1>9. x \o y = z
  <2>1. /\ x \o y \in Seq(S) /\ Len(x \o y) = l
        /\ \A i \in 1 .. k : (x \o y)[i] = x[i]
        /\ \A i \in 1 .. l - k : (x \o y)[k + i] = y[i]
    <3>1. /\ x \o y \in Seq(S) /\ Len(x \o y) = k + (l - k)
          /\ \A i \in 1 .. k : (x \o y)[i] = x[i]
          /\ \A i \in 1 .. l - k : (x \o y)[k + i] = y[i]
      <4>1. x \in Seq(S) /\ y \in Seq(S)
        BY <1>6, <1>8
      <4>2. /\ x \o y \in Seq(S) /\ Len(x \o y) = Len(x) + Len(y)
            /\ \A i \in 1 .. Len(x) : (x \o y)[i] = x[i]
            /\ \A i \in 1 .. Len(y) : (x \o y)[Len(x) + i] = y[i]
        BY ONLY <4>1, ConcatProperties
      <4>3. Len(x) = k /\ Len(y) = l - k
        BY <1>6, <1>8
      <4>4. QED
        BY ONLY <4>2, <4>3, Zenon
    <3>2. k + (l - k) = l
      BY ONLY <1>00
    <3>3. QED
      BY <3>1, <3>2
  <2>2. \A i \in 1 .. k : (x \o y)[i] = z[i]
    <3> TAKE i \in 1 .. k
    <3>1. i \in 1 .. l
      BY ONLY i \in 1 .. k, <1>00
    <3>2. QED
      BY <3>1, <1>6, <1>7, <2>1
  <2>3. \A j \in 1 .. l - k : k + j \in 1 .. l /\ (x \o y)[k + j] = z[k + j]
    <3> TAKE j \in 1 .. l - k
    <3>1. k + j \in 1 .. l
      BY ONLY j \in 1 .. l - k, <1>00
    <3>2. (x \o y)[k + j] = y[j] /\ y[j] = F(k + j)
      BY ONLY <1>8, <2>1, j \in 1 .. l - k, Zenon
    <3>3. z[k + j] = F(k + j)
      BY ONLY <3>1, <1>7
    <3>4. QED
      BY <3>1, <3>2, <3>3
  <2>4. \A i \in 1 .. l : \/ i \in 1 .. k
                         \/ \E j \in 1 .. l - k : i = k + j
    <3> TAKE i \in 1 .. l
    <3>1. CASE i <= k
      BY ONLY <3>1, i \in 1 .. l, <1>00
    <3>2. CASE k < i
      <4>1. i - k \in 1 .. l - k /\ i = k + (i - k)
        BY ONLY <3>2, i \in 1 .. l, <1>00
      <4>2. \E j \in 1 .. l - k : i = k + j
        BY ONLY <4>1, Zenon
      <4>3. QED
        BY ONLY <4>2
    <3>3. QED
      BY ONLY <3>1, <3>2, i \in 1 .. l, <1>00
  <2>5. \A i \in 1 .. l : (x \o y)[i] = z[i]
    BY ONLY <2>2, <2>3, <2>4, Zenon
  <2>6. QED
    BY <1>7, <2>1, <2>5, SeqEqual
<1>10. QED
  BY <1>9 DEF x, y, z

\* The inductive invariant: the messages received are the first of those sent,
\* and the stream continues with the others, behind the part that a framer keeps.
PathInv ==
    /\ framer \in Framers /\ sent \in Seq(Incoming) /\ wire \in Seq(Nat)
    /\ \E k \in 0 .. Len(sent) :
           /\ received = Parsed(sent, k)
           /\ At(framer, BytesOf(sent), k, rest, wire)

LEMMA PathStart == ASSUME Init PROVE PathInv
<1>1. framer \in Framers /\ sent = <<>> /\ wire = <<>> /\ rest = <<>> /\ received = <<>>
  BY DEF Init
<1>2. Len(<<>>) = 0 /\ <<>> \in Seq(Incoming) /\ <<>> \in Seq(Nat)
  OBVIOUS
<1>3. BytesOf(<<>>) = <<>> /\ Parsed(<<>>, 0) = <<>>
  BY <1>2 DEF BytesOf, Parsed
<1>4. At(framer, BytesOf(sent), 0, rest, wire)
  BY <1>1, <1>3, AtStart
<1>5. 0 \in 0 .. Len(sent) /\ received = Parsed(sent, 0)
  BY <1>1, <1>2, <1>3
<1>6. QED
  BY <1>1, <1>2, <1>4, <1>5 DEF PathInv

LEMMA DeviceSendsKeeps ==
    ASSUME WholeMessages, PathInv, NEW m \in Incoming, DeviceSends(m)
    PROVE  PathInv'
<1> DEFINE b == ToBytes(m)
           B == BytesOf(sent)
<1>1. framer \in Framers /\ sent \in Seq(Incoming) /\ wire \in Seq(Nat)
  BY DEF PathInv
<1>2. PICK k \in 0 .. Len(sent) : received = Parsed(sent, k) /\ At(framer, B, k, rest, wire)
  BY DEF PathInv
<1>3. /\ sent' = Append(sent, m) /\ wire' = wire \o DeviceBytes(m)
      /\ framer' = framer /\ rest' = rest /\ received' = received
  BY DEF DeviceSends
<1>4. sent \in Seq(Incoming \cup Outgoing) /\ m \in Incoming \cup Outgoing
  BY <1>1
<1>5. b \in Messages /\ BytesOf(Append(sent, m)) = Append(B, b) /\ B \in Seq(Messages)
  BY <1>4, BytesMore, BytesTyped
<1>6. DeviceBytes(m) = Devices(framer, b)
  BY DEF DeviceBytes, Devices, Null
<1> HIDE DEF b, B
<1>7. At(framer, Append(B, b), k, rest, wire \o Devices(framer, b))
  BY <1>2, <1>5, AtMore
<1>8. At(framer, BytesOf(sent), k, rest, wire)'
  BY <1>3, <1>5, <1>6, <1>7
<1>9. wire' \in Seq(Nat)
  <2>1. Devices(framer, b) \in Seq(Nat)
    BY <1>5, DevicesTyped
  <2>2. QED
    BY <1>1, <1>3, <1>6, <2>1, ConcatProperties
<1>10. sent' \in Seq(Incoming) /\ k \in 0 .. Len(sent') /\ \A i \in 1 .. k : sent'[i] = sent[i]
  <2>1. sent' \in Seq(Incoming) /\ Len(sent') = Len(sent) + 1
        /\ \A i \in 1 .. Len(sent) : sent'[i] = sent[i]
    BY <1>1, <1>3
  <2>2. Len(sent) \in Nat
    BY <1>1
  <2>3. k \in 0 .. Len(sent) + 1 /\ \A i \in 1 .. k : i \in 1 .. Len(sent)
    BY ONLY <2>2, k \in 0 .. Len(sent)
  <2>4. QED
    BY <2>1, <2>3
<1>11. Parsed(sent', k) = Parsed(sent, k)
  <2>1. \A i \in 1 .. k : FromBytes(ToBytes(sent'[i])) = FromBytes(ToBytes(sent[i]))
    BY <1>10, Zenon
  <2>2. QED
    BY <2>1, Zenon DEF Parsed
<1>12. received' = Parsed(sent', k)
  BY <1>2, <1>3, <1>11
<1>13. framer' \in Framers
  BY <1>1, <1>3
<1>14. QED
  BY <1>8, <1>9, <1>10, <1>12, <1>13 DEF PathInv

LEMMA TransferKeeps ==
    ASSUME WholeMessages, PathInv, NEW n \in 1 .. PacketSize, MidiPathAssumption, Transfer(n)
    PROVE  PathInv'
<1> DEFINE B == BytesOf(sent)
           w == SubSeq(wire, 1, n)
           d == DecodeIncoming(framer, rest, w)
<1>1. framer \in Framers /\ sent \in Seq(Incoming) /\ wire \in Seq(Nat)
  BY DEF PathInv
<1>2. PICK k \in 0 .. Len(sent) : received = Parsed(sent, k) /\ At(framer, B, k, rest, wire)
  BY DEF PathInv
<1>3. /\ n <= Len(wire) /\ TransferEnds(n)
      /\ wire' = From(wire, n) /\ rest' = d.rest
      /\ received' = received \o ParsedAll(d.messages)
      /\ framer' = framer /\ sent' = sent
  BY DEF Transfer, From, ParsedAll
<1>4. n \in Nat
  BY DEF MidiPathAssumption
<1>5. sent \in Seq(Incoming \cup Outgoing)
  BY <1>1
<1>6. /\ B \in Seq(Messages) /\ Len(B) = Len(sent)
      /\ \A i \in 1 .. Len(sent) : B[i] = ToBytes(sent[i])
  BY <1>5, BytesTyped
<1>7. framer = "midi" => n % 4 = 0
  BY <1>3 DEF TransferEnds
<1>8. framer # "midi" => LastIsShort(w)
  <2> SUFFICES ASSUME framer # "midi" PROVE LastIsShort(w)
    OBVIOUS
  <2>1. Len(w) = n /\ \A a \in 1 .. n : w[a] = wire[a]
    BY <1>1, <1>3, <1>4, FromIs
  <2>2. \A a \in 1 .. n : wire[a] \in {178, 194} => n = a + (IF wire[a] = 178 THEN 2 ELSE 1)
    BY <1>3 DEF TransferEnds
  <2> HIDE DEF w
  <2>3. QED
    BY <2>1, <2>2 DEF LastIsShort
<1> HIDE DEF w, B
<1>9. PICK l \in k .. Len(B) :
          At(framer, B, l, d.rest, From(wire, n)) /\ d.messages = Between(B, k, l)
  <2>0. d = DecodeIncoming(framer, rest, w)
    BY DEF d
  <2> HIDE DEF d
  <2>1. w = SubSeq(wire, 1, n)
    BY DEF w
  <2>2. /\ B \in Seq(Messages) /\ wire \in Seq(Nat) /\ At(framer, B, k, rest, wire)
        /\ n \in Nat /\ n <= Len(wire) /\ w = SubSeq(wire, 1, n)
        /\ framer = "midi" => n % 4 = 0
        /\ framer # "midi" => LastIsShort(w)
    BY <1>1, <1>2, <1>3, <1>4, <1>6, <1>7, <1>8, <2>1
  <2>3. MayTransfer(framer, B, k, rest, wire, n, w)
    BY <2>2 DEF MayTransfer
  <2>4. \E l : Transferred(framer, B, k, l, d, From(wire, n))
    BY ONLY <2>0, <2>3, AtTransferred, Zenon
  <2>5. QED
    BY <2>4, Zenon DEF Transferred
<1>10. wire' \in Seq(Nat)
  BY <1>1, <1>3, <1>4, FromIs
<1>11. k \in Nat /\ l \in Nat /\ k <= l /\ l <= Len(B) /\ Len(sent) \in Nat /\ l \in 0 .. Len(sent)
  <2>1. Len(sent) \in Nat
    BY <1>1
  <2>2. QED
    BY ONLY <2>1, <1>6, k \in 0 .. Len(sent), l \in k .. Len(B)
<1> HIDE DEF d
<1>12. received' = Parsed(sent, l)
  <2>1. Parsed(sent, k) \o ParsedAll(d.messages) = Parsed(sent, l)
    <3>1. IsBetween(sent, B, k, l, d.messages)
      BY ONLY <1>6, <1>9, <1>11 DEF IsBetween
    <3>2. QED
      BY ONLY <3>1, ParsedMore
  <2>2. QED
    BY <1>2, <1>3, <2>1
<1>13. /\ framer' \in Framers /\ sent' \in Seq(Incoming) /\ l \in 0 .. Len(sent')
       /\ received' = Parsed(sent', l)
  BY <1>1, <1>3, <1>11, <1>12
<1>14. At(framer, BytesOf(sent), l, rest, wire)'
  BY <1>3, <1>9 DEF B
<1>15. QED
  BY <1>10, <1>13, <1>14 DEF PathInv

\* A message of the application, or no step.
LEMMA OtherKeeps ==
    ASSUME PathInv, UNCHANGED <<framer, sent, wire, rest, received>>
    PROVE  PathInv'
  BY DEF PathInv

\* The bytes of a device continue the messages received, wherever transfers cut
\* them.
THEOREM PathInductive == Spec => []PathInv
<1>0. WholeMessages
  BY MessagesAssumption
<1>1. Init => PathInv
  BY PathStart
<1>2. PathInv /\ [Next]_pathVars => PathInv'
  <2> SUFFICES ASSUME PathInv, [Next]_pathVars PROVE PathInv'
    OBVIOUS
  <2>1. CASE \E m \in Incoming : DeviceSends(m)
    BY <1>0, <2>1, DeviceSendsKeeps
  <2>2. CASE \E n \in 1 .. PacketSize : Transfer(n)
    BY <1>0, <2>2, TransferKeeps, MidiPathAssumption
  <2>3. CASE \E m \in Outgoing : AppSends(m)
    <3>1. UNCHANGED <<framer, sent, wire, rest, received>>
      BY <2>3 DEF AppSends
    <3>2. QED
      BY <3>1, OtherKeeps
  <2>4. CASE UNCHANGED pathVars
    <3>1. UNCHANGED <<framer, sent, wire, rest, received>>
      BY <2>4 DEF pathVars
    <3>2. QED
      BY <3>1, OtherKeeps
  <2>5. QED
    BY <2>1, <2>2, <2>3, <2>4 DEF Next
<1>3. QED
  BY <1>1, <1>2, PTL DEF Spec

LEMMA FirstParsed ==
    ASSUME ParsedBack, NEW s \in Seq(Incoming), NEW k \in 0 .. Len(s)
    PROVE  Parsed(s, k) = SubSeq(s, 1, k) /\ Len(SubSeq(s, 1, k)) = k /\ SubSeq(s, 1, k) \in Seq(Incoming)
<1> DEFINE n == Len(s)
           F(i) == FromBytes(ToBytes(s[i]))
<1>1. n \in Nat /\ k \in Nat /\ k <= n /\ \A i \in 1 .. n : s[i] \in Incoming
  OBVIOUS
<1>2. \A i \in 1 .. n : F(i) = s[i]
  BY <1>1, Zenon DEF ParsedBack
<1>3. Parsed(s, k) = [i \in 1 .. k |-> F(i)]
  BY DEF Parsed
<1>4. SubSeq(s, 1, k) \in Seq(Incoming) /\ Len(SubSeq(s, 1, k)) = k
      /\ \A i \in 1 .. k : SubSeq(s, 1, k)[i] = s[i]
  BY <1>1, FromIs
<1> DEFINE p == SubSeq(s, 1, k)
<1>5. p = [i \in 1 .. k |-> p[i]]
  BY <1>4
<1> HIDE DEF n, F, p
<1>6. \A i \in 1 .. k : F(i) = s[i]
  BY <1>1, <1>2
<1>7. \A i \in 1 .. k : F(i) = p[i]
  BY <1>4, <1>6 DEF p
<1>8. Parsed(s, k) = p
  BY ONLY <1>3, <1>5, <1>7, Zenon
<1>9. QED
  BY <1>4, <1>8 DEF p

LEMMA InOrder == ASSUME WholeMessages, ParsedBack, PathInv PROVE ReceivedInOrder
<1> DEFINE B == BytesOf(sent)
<1>1. sent \in Seq(Incoming) /\ sent \in Seq(Incoming \cup Outgoing) /\ Len(sent) \in Nat
  BY DEF PathInv
<1>2. PICK k \in 0 .. Len(sent) : received = Parsed(sent, k) /\ At(framer, B, k, rest, wire)
  BY DEF PathInv
<1>3. B \in Seq(Messages) /\ Len(B) = Len(sent)
  BY <1>1, BytesTyped
<1> HIDE DEF B
<1>4. received = SubSeq(sent, 1, k) /\ Len(received) = k /\ received \in Seq(Incoming)
  BY <1>1, <1>2, FirstParsed
<1>5. IsPrefix(received, sent)
  <2>1. Len(received) <= Len(sent)
    BY <1>1, <1>4
  <2>2. SubSeq(received, 1, Len(received)) = received
    <3>1. \A s \in Seq(Incoming) : SubSeq(s, 1, Len(s)) = s
      OBVIOUS
    <3>2. QED
      BY <1>4, <3>1
  <2>3. SubSeq(received, 1, Len(received)) = SubSeq(sent, 1, Len(received))
    BY <1>4, <2>2
  <2>4. QED
    BY <2>1, <2>3, Zenon DEF IsPrefix
<1>6. ASSUME wire = <<>> PROVE received = sent /\ rest = <<>>
  <2>1. k = Len(B) /\ rest = <<>>
    BY <1>2, <1>3, <1>6, AtAll
  <2>2. SubSeq(sent, 1, Len(sent)) = sent
    BY <1>1
  <2>3. QED
    BY <1>3, <1>4, <2>1, <2>2
<1>7. QED
  BY <1>5, <1>6 DEF ReceivedInOrder

\* However transfers cut the bytes of a device, the application parses the
\* messages it sent, in their order, and all of them once the bytes were
\* transferred, if each message alone is parsed as it was written.
THEOREM MessagesInOrder == ParsedBack => (Spec => []ReceivedInOrder)
<1> SUFFICES ASSUME ParsedBack PROVE Spec => []ReceivedInOrder
  OBVIOUS
<1>1. Spec => []PathInv
  BY PathInductive
<1>2. PathInv => ReceivedInOrder
  BY MessagesAssumption, InOrder
<1>3. QED
  BY <1>1, <1>2, PTL

LEMMA Suffices == ASSUME WholeMessages, MidiPathAssumption, PathInv PROVE BufferSuffices
<1> DEFINE B == BytesOf(sent)
<1>1. sent \in Seq(Incoming) /\ sent \in Seq(Incoming \cup Outgoing) /\ Len(sent) \in Nat
  BY DEF PathInv
<1>2. PICK k \in 0 .. Len(sent) : At(framer, B, k, rest, wire)
  BY DEF PathInv
<1>3. /\ B \in Seq(Messages) /\ Len(B) = Len(sent)
      /\ \A i \in 1 .. Len(sent) : B[i] = ToBytes(sent[i])
  BY <1>1, BytesTyped
<1> HIDE DEF B
<1>4. /\ rest \in Seq(Nat)
      /\ rest = <<>> \/ (k + 1 \in 1 .. Len(B) /\ Len(rest) <= Len(B[k + 1]))
  BY <1>2, <1>3, AtRest
<1>5. /\ BufferSize \in Nat /\ PacketSize \in Nat /\ PacketSize <= BufferSize
      /\ \A m \in Incoming : Len(ToBytes(m)) + PacketSize <= BufferSize
  BY DEF MidiPathAssumption
<1>6. CASE rest = <<>>
  BY <1>5, <1>6 DEF BufferSuffices
<1>7. CASE k + 1 \in 1 .. Len(B) /\ Len(rest) <= Len(B[k + 1])
  <2> DEFINE b == B[k + 1]
  <2>1. b \in Messages /\ b = ToBytes(sent[k + 1]) /\ sent[k + 1] \in Incoming
    BY <1>1, <1>3, <1>7
  <2>2. Len(b) + PacketSize <= BufferSize
    BY <1>5, <2>1
  <2>3. Len(b) \in Nat
    <3> HIDE DEF b
    <3>1. QED
      BY <2>1, WholeEncoded
  <2>4. Len(rest) \in Nat /\ Len(rest) <= Len(b)
    BY <1>4, <1>7
  <2> HIDE DEF b
  <2>5. Len(rest) + PacketSize <= BufferSize
    BY ONLY <1>5, <2>2, <2>3, <2>4
  <2>6. QED
    BY <2>5 DEF BufferSuffices
<1>8. QED
  BY <1>4, <1>6, <1>7

\* A framer's buffer has room for the next transfer, if it has room for the longest
\* message and a transfer.
THEOREM BufferHasRoom == Spec => []BufferSuffices
<1>1. Spec => []PathInv
  BY PathInductive
<1>2. PathInv => BufferSuffices
  BY MessagesAssumption, Suffices, MidiPathAssumption
<1>3. QED
  BY <1>1, <1>2, PTL

-----------------------------------------------------------------------------
(* What the application sends.                                             *)

\* What the device makes of a packet, and of packets.
Items(f)   == IF f = "midi" THEN Fours ELSE Seq(Nat)
Item(f, p) == IF f = "midi" THEN PacketBytes(p) ELSE p
Mapped(f, ps) == [i \in DOMAIN ps |-> Item(f, ps[i])]

LEMMA ItemsAreBytes ==
    ASSUME NEW f
    PROVE  \A p \in Items(f) : Item(f, p) \in Seq(Nat)
<1> TAKE p \in Items(f)
<1>1. CASE f = "midi"
  <2>1. p \in Seq(Nat) /\ Len(p) = 4
    BY <1>1 DEF Items, Fours
  <2> DEFINE e == CASE p[1] \in {4, 7, 11} -> 4 [] p[1] \in {6, 12} -> 3 [] OTHER -> 2
  <2>2. e \in 2 .. 4
    BY <2>1
  <2>3. PacketBytes(p) = SubSeq(p, 2, e)
    BY DEF PacketBytes
  <2> HIDE DEF e
  <2>4. SubSeq(p, 2, e) \in Seq(Nat)
    <3>1. 1 \in Nat /\ e \in Nat /\ 1 <= e /\ e <= Len(p)
      BY ONLY <2>1, <2>2
    <3>2. SubSeq(p, 1 + 1, e) \in Seq(Nat)
      BY ONLY <2>1, <3>1, PartAt
    <3>3. QED
      BY <3>2
  <2>5. QED
    BY <1>1, <2>3, <2>4 DEF Item
<1>2. CASE f # "midi"
  BY <1>2 DEF Item, Items
<1>3. QED
  BY <1>1, <1>2

LEMMA MappedIs ==
    ASSUME NEW f, NEW ps \in Seq(Items(f))
    PROVE  /\ Mapped(f, ps) \in Seq(Seq(Nat)) /\ Len(Mapped(f, ps)) = Len(ps)
           /\ \A i \in 1 .. Len(ps) : Mapped(f, ps)[i] = Item(f, ps[i])
<1> DEFINE n == Len(ps)
           S == Items(f)
<1>1. n \in Nat /\ DOMAIN ps = 1 .. n /\ \A i \in 1 .. n : ps[i] \in S
  <2> HIDE DEF S
  <2>1. ps \in Seq(S)
    BY DEF S
  <2>2. QED
    BY <2>1
<1>2. \A p \in S : Item(f, p) \in Seq(Nat)
  BY ItemsAreBytes
<1> HIDE DEF S, n
<1>3. \A i \in 1 .. n : Item(f, ps[i]) \in Seq(Nat)
  BY <1>1, <1>2
<1>4. Mapped(f, ps) = [i \in 1 .. n |-> Item(f, ps[i])]
  BY <1>1 DEF Mapped
<1>5. QED
  BY ONLY <1>1, <1>3, <1>4 DEF n

LEMMA MappedConcat ==
    ASSUME NEW f, NEW ps \in Seq(Items(f)), NEW qs \in Seq(Items(f))
    PROVE  Mapped(f, ps \o qs) = Mapped(f, ps) \o Mapped(f, qs)
<1> DEFINE all == ps \o qs
           x == Mapped(f, ps)
           y == Mapped(f, qs)
           z == Mapped(f, all)
           n == Len(ps)
           m == Len(qs)
           S == Items(f)
<1>1. ps \in Seq(S) /\ qs \in Seq(S)
  OBVIOUS
<1>2. /\ x \in Seq(Seq(Nat)) /\ Len(x) = n
      /\ \A i \in 1 .. n : x[i] = Item(f, ps[i])
  BY MappedIs
<1>3. /\ y \in Seq(Seq(Nat)) /\ Len(y) = m
      /\ \A i \in 1 .. m : y[i] = Item(f, qs[i])
  BY MappedIs
<1> HIDE DEF S
<1>4. /\ all \in Seq(S) /\ Len(all) = n + m /\ n \in Nat /\ m \in Nat
      /\ \A i \in 1 .. n + m : all[i] = IF i <= n THEN ps[i] ELSE qs[i - n]
  BY ONLY <1>1, ConcatProperties
<1>5. /\ z \in Seq(Seq(Nat)) /\ Len(z) = n + m
      /\ \A i \in 1 .. n + m : z[i] = Item(f, all[i])
  <2>1. all \in Seq(Items(f))
    BY <1>4 DEF S
  <2> HIDE DEF all
  <2>2. /\ z \in Seq(Seq(Nat)) /\ Len(z) = Len(all)
        /\ \A i \in 1 .. Len(all) : z[i] = Item(f, all[i])
    BY <2>1, MappedIs
  <2>3. QED
    BY <1>4, <2>2 DEF all
<1> HIDE DEF x, y, z, all, n, m
<1>6. /\ x \o y \in Seq(Seq(Nat)) /\ Len(x \o y) = n + m
      /\ \A i \in 1 .. n + m : (x \o y)[i] = IF i <= n THEN x[i] ELSE y[i - n]
  BY ONLY <1>2, <1>3, ConcatProperties
<1>7. \A i \in 1 .. n + m : (x \o y)[i] = z[i]
  <2> TAKE i \in 1 .. n + m
  <2>1. CASE i <= n
    <3>1. i \in 1 .. n
      BY ONLY <1>4, <2>1, i \in 1 .. n + m
    <3>2. QED
      BY <1>2, <1>4, <1>5, <1>6, <2>1, <3>1
  <2>2. CASE ~(i <= n)
    <3>1. i - n \in 1 .. m
      BY ONLY <1>4, <2>2, i \in 1 .. n + m
    <3>2. QED
      BY <1>3, <1>4, <1>5, <1>6, <2>2, <3>1
  <2>3. QED
    BY <2>1, <2>2
<1>8. x \o y = z
  BY ONLY <1>5, <1>6, <1>7, SeqEqual
<1>9. QED
  BY <1>8 DEF x, y, z, all

\* What the packet of a chunk is read as.
LEMMA ChunkRead ==
    ASSUME NEW b \in Seq(Nat), Sysex(b), NEW j \in Nat, 3 * j < Len(b)
    PROVE  PacketBytes(PacketOf(Chunk(b, j))) = Chunk(b, j)
<1> DEFINE c == Chunk(b, j)
           p == PacketOf(c)
           l == Len(c)
           more == 3 * j + 3 < Len(b)
<1>1. /\ l \in 1 .. 3 /\ (more => l = 3)
      /\ p[1] = (IF more THEN 4 ELSE IF l = 3 THEN 7 ELSE IF l = 2 THEN 6 ELSE 5)
      /\ SubSeq(p, 2, 1 + l) = c
  BY ChunkPacket
<1> HIDE DEF c, p, l, more
<1>2. PacketBytes(p) = SubSeq(p, 2, 1 + l)
  <2>1. CASE l = 3
    BY <1>1, <2>1 DEF PacketBytes
  <2>2. CASE l = 2
    BY <1>1, <2>2 DEF PacketBytes
  <2>3. CASE l = 1
    BY <1>1, <2>3 DEF PacketBytes
  <2>4. QED
    BY <1>1, <2>1, <2>2, <2>3
<1>3. QED
  BY <1>1, <1>2 DEF p, c

LEMMA PartMore ==
    ASSUME NEW S, NEW s \in Seq(S), NEW j \in Nat, j < Len(s)
    PROVE  /\ SubSeq(s, 1, j + 1) = Append(SubSeq(s, 1, j), s[j + 1])
           /\ SubSeq(s, 1, j) \in Seq(S) /\ s[j + 1] \in S
  OBVIOUS

\* The chunks of a system exclusive message are the message.
AreChunks(M, b, m) ==
    /\ M \in Seq(Seq(Nat)) /\ Len(M) = m /\ m \in Nat \ {0}
    /\ \A j \in Nat : 3 * j < Len(b) =>
           /\ j + 1 <= m /\ M[j + 1] = Chunk(b, j)
           /\ 3 * j + 3 < Len(b) <=> j + 1 < m

LEMMA ChunksJoin ==
    ASSUME NEW b \in Seq(Nat), Sysex(b), NEW M, NEW m, AreChunks(M, b, m)
    PROVE  FlattenSeq(M) = b
<1> DEFINE n == Len(b)
           P(j) == FlattenSeq(SubSeq(M, 1, j))
           T == {j \in Nat : j < m => 3 * j < n /\ P(j) = SubSeq(b, 1, 3 * j)}
<1>1. /\ M \in Seq(Seq(Nat)) /\ Len(M) = m /\ m \in Nat \ {0}
      /\ \A j \in Nat : 3 * j < n =>
           /\ j + 1 <= m /\ M[j + 1] = Chunk(b, j)
           /\ 3 * j + 3 < n <=> j + 1 < m
  BY DEF AreChunks
<1>2. n \in Nat /\ n >= 2
  BY DEF Sysex
<1>3. ASSUME NEW j \in Nat, j < m, 3 * j < n, P(j) = SubSeq(b, 1, 3 * j)
      PROVE  P(j + 1) = SubSeq(b, 1, IF 3 * j + 3 < n THEN 3 * j + 3 ELSE n)
  <2>1. /\ SubSeq(M, 1, j + 1) = Append(SubSeq(M, 1, j), M[j + 1])
        /\ SubSeq(M, 1, j) \in Seq(Seq(Nat)) /\ M[j + 1] \in Seq(Nat)
    BY <1>1, <1>3, PartMore
  <2>2. P(j + 1) = P(j) \o M[j + 1]
    BY <2>1, FlatAppend
  <2>3. M[j + 1] = Chunk(b, j)
    BY <1>1, <1>3
  <2>4. SubSeq(b, 1, 3 * j) \o Chunk(b, j) = SubSeq(b, 1, IF 3 * j + 3 < n THEN 3 * j + 3 ELSE n)
    BY <1>3, ChunkJoins
  <2> HIDE DEF P, n
  <2>5. QED
    BY <1>3, <2>2, <2>3, <2>4
<1>4. 0 \in T
  <2>1. SubSeq(M, 1, 0) = <<>> /\ SubSeq(b, 1, 0) = <<>>
    BY <1>1
  <2>2. P(0) = <<>>
    BY <2>1, FlatEmpty
  <2>3. 3 * 0 = 0 /\ 0 < n
    BY <1>2
  <2> HIDE DEF P, n
  <2>4. QED
    BY <2>1, <2>2, <2>3
<1> HIDE DEF P, n
<1>5. \A j \in Nat : j \in T => j + 1 \in T
  <2> SUFFICES ASSUME NEW j \in Nat, j \in T, j + 1 < m
               PROVE  3 * (j + 1) < n /\ P(j + 1) = SubSeq(b, 1, 3 * (j + 1))
    OBVIOUS
  <2>1. j < m
    BY <1>1
  <2>2. 3 * j < n /\ P(j) = SubSeq(b, 1, 3 * j)
    BY <2>1
  <2>3. 3 * j + 3 < n
    BY <1>1, <2>2
  <2>4. P(j + 1) = SubSeq(b, 1, 3 * j + 3)
    BY <1>3, <2>1, <2>2, <2>3
  <2>5. 3 * (j + 1) = 3 * j + 3
    OBVIOUS
  <2>6. QED
    BY <2>3, <2>4, <2>5
<1>6. Nat \subseteq T
  <2> HIDE DEF T
  <2>1. QED
    BY <1>4, <1>5, Induct
<1>7. m - 1 \in Nat /\ m - 1 < m /\ (m - 1) + 1 = m
  BY <1>1
<1> DEFINE j == m - 1
<1>8. j \in Nat /\ j < m /\ j + 1 = m
  BY <1>7
<1> HIDE DEF j
<1>9. 3 * j < n /\ P(j) = SubSeq(b, 1, 3 * j)
  BY <1>6, <1>8
<1>10. ~(3 * j + 3 < n)
  BY <1>1, <1>8, <1>9
<1>11. P(j + 1) = SubSeq(b, 1, n)
  BY <1>3, <1>8, <1>9, <1>10
<1>12. SubSeq(b, 1, n) = b
  BY DEF n
<1>13. SubSeq(M, 1, j + 1) = M
  BY <1>1, <1>8
<1>14. QED
  BY <1>11, <1>12, <1>13 DEF P

\* What the framer makes of a message is read as the message.
LEMMA EncodedRead ==
    ASSUME NEW f, NEW b \in Messages, NEW e, e = EncodeOutgoing(f, b)
    PROVE  e \in Seq(Items(f)) /\ FlattenSeq(Mapped(f, e)) = b
<1>1. b \in Seq(Nat) /\ Len(b) \in Nat \ {0} /\ (Sysex(b) \/ Change(b))
  BY WholeEncoded
<1>2. CASE f # "midi"
  <2>1. e = <<b>> /\ Items(f) = Seq(Nat)
    BY <1>2 DEF EncodeOutgoing, Items
  <2>2. e \in Seq(Seq(Nat)) /\ DOMAIN e = 1 .. 1 /\ e[1] = b /\ Len(e) = 1
    BY <1>1, <2>1
  <2>3. Mapped(f, e) = [i \in 1 .. 1 |-> e[i]]
    BY <1>2, <2>2 DEF Mapped, Item
  <2>4. [i \in 1 .. 1 |-> e[i]] = e
    BY <2>2
  <2>5. FlattenSeq(<<b>>) = b
    BY <1>1, FlatSingle
  <2>6. QED
    BY <2>1, <2>2, <2>3, <2>4, <2>5
<1>3. CASE f = "midi"
  <2> DEFINE M == Mapped(f, e)
             m == Len(e)
  <2>1. e = EncodeMidi(b) /\ Items(f) = Fours
    BY <1>3 DEF EncodeOutgoing, Items
  <2>2. e \in Seq(Fours) /\ m \in Nat \ {0}
    BY <2>1, WholeEncoded
  <2>3. /\ M \in Seq(Seq(Nat)) /\ Len(M) = m
        /\ \A i \in 1 .. m : M[i] = PacketBytes(e[i])
    <3>1. e \in Seq(Items(f))
      BY <2>1, <2>2
    <3>2. /\ M \in Seq(Seq(Nat)) /\ Len(M) = m
          /\ \A i \in 1 .. m : M[i] = Item(f, e[i])
      BY <3>1, MappedIs
    <3> HIDE DEF M, m
    <3>3. QED
      BY <1>3, <3>2 DEF Item
  <2> HIDE DEF M
  <2>4. CASE Sysex(b)
    <3>1. \A j \in Nat : 3 * j < Len(b) =>
              /\ j + 1 <= m /\ e[j + 1] = PacketOf(Chunk(b, j))
              /\ 3 * j + 3 < Len(b) <=> j + 1 < m
      BY <1>1, <2>1, <2>4, SysexPackets
    <3> HIDE DEF m
    <3>2. ASSUME NEW j \in Nat, 3 * j < Len(b)
          PROVE  /\ j + 1 <= m /\ M[j + 1] = Chunk(b, j)
                 /\ 3 * j + 3 < Len(b) <=> j + 1 < m
      <4>1. /\ j + 1 <= m /\ e[j + 1] = PacketOf(Chunk(b, j))
            /\ 3 * j + 3 < Len(b) <=> j + 1 < m
        BY <3>1, <3>2
      <4>2. PacketBytes(PacketOf(Chunk(b, j))) = Chunk(b, j)
        BY <1>1, <2>4, <3>2, ChunkRead
      <4>3. j + 1 \in 1 .. m
        BY <2>2, <4>1
      <4>4. M[j + 1] = PacketBytes(e[j + 1])
        BY <2>3, <4>3
      <4>5. QED
        BY <4>1, <4>2, <4>4
    <3>3. AreChunks(M, b, m)
      BY <2>2, <2>3, <3>2, Zenon DEF AreChunks
    <3>4. FlattenSeq(M) = b
      BY <1>1, <2>4, <3>3, ChunksJoin
    <3>5. QED
      BY <2>1, <2>2, <3>4 DEF M
  <2>5. CASE Change(b)
    <3>1. Len(e) = 1 /\ PacketBytes(e[1]) = b
      BY <1>1, <2>1, <2>5, ChangePacket
    <3>2. M \in Seq(Seq(Nat)) /\ Len(M) = 1 /\ M[1] = b
      BY <2>3, <3>1
    <3>3. M = <<b>>
      BY <3>2
    <3>4. FlattenSeq(<<b>>) = b
      BY <1>1, FlatSingle
    <3>5. QED
      BY <2>1, <2>2, <3>3, <3>4 DEF M
  <2>6. QED
    BY <1>1, <2>4, <2>5
<1>4. QED
  BY <1>2, <1>3

\* The inductive invariant: the packets are of the framer's kind, and are read as
\* the bytes of the messages asked for.
SentInv ==
    /\ framer \in Framers /\ asked \in Seq(Outgoing) /\ packets \in Seq(Items(framer))
    /\ FlattenSeq(Mapped(framer, packets)) = FlattenSeq(BytesOf(asked))

LEMMA SentStart == ASSUME Init PROVE SentInv
<1>1. framer \in Framers /\ asked = <<>> /\ packets = <<>>
  BY DEF Init
<1>2. Len(<<>>) = 0 /\ DOMAIN <<>> = 1 .. 0 /\ <<>> \in Seq(Outgoing)
      /\ \A S : <<>> \in Seq(S)
  OBVIOUS
<1>3. BytesOf(<<>>) = [i \in 1 .. 0 |-> ToBytes(<<>>[i])]
  BY <1>2 DEF BytesOf
<1>4. BytesOf(<<>>) = <<>> /\ Mapped(framer, <<>>) = <<>>
  BY <1>2, <1>3 DEF Mapped
<1>5. <<>> \in Seq(Items(framer))
  BY <1>2, Zenon
<1>6. QED
  BY <1>1, <1>2, <1>4, <1>5 DEF SentInv

LEMMA AppSendsKeeps ==
    ASSUME WholeMessages, SentInv, NEW m \in Outgoing, AppSends(m)
    PROVE  SentInv'
<1> DEFINE f == framer
           b == ToBytes(m)
           e == EncodeOutgoing(f, b)
           B == BytesOf(asked)
<1>1. f \in Framers /\ asked \in Seq(Outgoing) /\ packets \in Seq(Items(f))
      /\ FlattenSeq(Mapped(f, packets)) = FlattenSeq(B)
  BY DEF SentInv
<1>2. asked' = Append(asked, m) /\ packets' = packets \o e /\ framer' = f
  BY DEF AppSends
<1>3. b \in Messages /\ BytesOf(Append(asked, m)) = Append(B, b) /\ B \in Seq(Messages)
  <2>1. asked \in Seq(Incoming \cup Outgoing) /\ m \in Incoming \cup Outgoing
    BY <1>1
  <2>2. QED
    BY <2>1, BytesMore, BytesTyped
<1> HIDE DEF b, B
<1>4. e \in Seq(Items(f)) /\ FlattenSeq(Mapped(f, e)) = b
  BY <1>3, EncodedRead
<1> HIDE DEF e
<1>5. packets \o e \in Seq(Items(f))
  <2> DEFINE S == Items(f)
  <2>1. packets \in Seq(S) /\ e \in Seq(S)
    BY <1>1, <1>4
  <2> HIDE DEF S
  <2>2. packets \o e \in Seq(S)
    BY ONLY <2>1, ConcatProperties
  <2>3. QED
    BY <2>2 DEF S
<1>6. FlattenSeq(Mapped(f, packets \o e)) = FlattenSeq(Mapped(f, packets)) \o FlattenSeq(Mapped(f, e))
  <2>1. Mapped(f, packets \o e) = Mapped(f, packets) \o Mapped(f, e)
    BY <1>1, <1>4, MappedConcat
  <2>2. Mapped(f, packets) \in Seq(Seq(Nat)) /\ Mapped(f, e) \in Seq(Seq(Nat))
    BY <1>1, <1>4, MappedIs
  <2>3. QED
    BY <2>1, <2>2, FlatConcat
<1>7. FlattenSeq(Append(B, b)) = FlattenSeq(B) \o b
  <2>1. B \in Seq(Seq(Nat)) /\ b \in Seq(Nat)
    <3>1. \A x \in Messages : x \in Seq(Nat)
      BY DEF Messages
    <3> HIDE DEF f
    <3>2. QED
      BY ONLY <1>3, <3>1
  <2>2. QED
    BY <2>1, FlatAppend
<1>8. FlattenSeq(Mapped(f, packets \o e)) = FlattenSeq(BytesOf(Append(asked, m)))
  BY <1>1, <1>3, <1>4, <1>6, <1>7
<1>9. asked' \in Seq(Outgoing)
  BY <1>1, <1>2
<1>10. QED
  BY <1>1, <1>2, <1>5, <1>8, <1>9 DEF SentInv

LEMMA SentKeeps ==
    ASSUME SentInv, UNCHANGED <<framer, asked, packets>>
    PROVE  SentInv'
  BY DEF SentInv

LEMMA Arrives == ASSUME SentInv PROVE SentArrives
<1>1. asked \in Seq(Outgoing) /\ FlattenSeq(Mapped(framer, packets)) = FlattenSeq(BytesOf(asked))
  BY DEF SentInv
<1>2. DOMAIN asked = 1 .. Len(asked)
  BY <1>1
<1>3. BytesOf(asked) = [i \in DOMAIN asked |-> ToBytes(asked[i])]
  BY <1>2 DEF BytesOf
<1>4. Mapped(framer, packets)
          = [i \in DOMAIN packets |-> IF framer = "midi" THEN PacketBytes(packets[i]) ELSE packets[i]]
  BY DEF Mapped, Item
<1>5. DeviceReads(packets) = FlattenSeq(Mapped(framer, packets))
  BY <1>4 DEF DeviceReads
<1>6. QED
  BY <1>1, <1>3, <1>5 DEF SentArrives

\* The device reads the bytes of the messages that the application sends, whatever
\* they are cut into.
THEOREM AppMessagesArrive == Spec => []SentArrives
<1>0. WholeMessages
  BY MessagesAssumption
<1>1. Init => SentInv
  BY SentStart
<1>2. SentInv /\ [Next]_pathVars => SentInv'
  <2> SUFFICES ASSUME SentInv, [Next]_pathVars PROVE SentInv'
    OBVIOUS
  <2>1. CASE \E m \in Incoming : DeviceSends(m)
    <3>1. UNCHANGED <<framer, asked, packets>>
      BY <2>1 DEF DeviceSends
    <3>2. QED
      BY <3>1, SentKeeps
  <2>2. CASE \E n \in 1 .. PacketSize : Transfer(n)
    <3>1. UNCHANGED <<framer, asked, packets>>
      BY <2>2 DEF Transfer
    <3>2. QED
      BY <3>1, SentKeeps
  <2>3. CASE \E m \in Outgoing : AppSends(m)
    BY <1>0, <2>3, AppSendsKeeps
  <2>4. CASE UNCHANGED pathVars
    <3>1. UNCHANGED <<framer, asked, packets>>
      BY <2>4 DEF pathVars
    <3>2. QED
      BY <3>1, SentKeeps
  <2>5. QED
    BY <2>1, <2>2, <2>3, <2>4 DEF Next
<1>3. SentInv => SentArrives
  BY Arrives
<1>4. QED
  BY <1>1, <1>2, <1>3, PTL DEF Spec
=============================================================================
