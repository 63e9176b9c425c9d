----------------------- MODULE EncryptedExchangeProofs -----------------------
(***************************************************************************)
(* Proofs about EncryptedExchange, for keys, texts, bodies and pieces of   *)
(* any length: a request arrives as it was written or not at all, what     *)
(* text() makes of a response arrives as it is, byte for byte the response *)
(* if that is UTF-8, and no request of one-byte characters is turned away. *)
(*                                                                         *)
(* The lemmas are about loops over data: FlattenSeq puts together piece by *)
(* piece, Cut is chunks(), Utf8 is a sum over the characters.  They are    *)
(* proved by induction, which is derived here from the well-foundedness of *)
(* the natural numbers in a form for sets: what is to be shown of all      *)
(* numbers is written as a set, T, and T is shown to contain them.         *)
(***************************************************************************)
EXTENDS EncryptedExchange, WellFoundedInduction, SequenceTheorems, TLAPS

-----------------------------------------------------------------------------
(* Induction, in the form of sets.                                         *)

Before == {pair \in Nat \X Nat : pair[1] < pair[2]}

LEMMA InductionOnNat ==
    ASSUME NEW S, 0 \in S, \A n \in Nat : n \in S => n + 1 \in S
    PROVE  Nat \subseteq S
<1> DEFINE T == Nat \ S
<1> SUFFICES ASSUME T # {} PROVE FALSE
  OBVIOUS
<1>1. PICK m \in T : \A k \in T : <<k, m>> \notin Before
  <2>1. IsWellFoundedOn(Before, Nat)
    BY NatLessThanWellFounded DEF OpToRel, Before
  <2>2. \A TT : TT \subseteq Nat /\ TT # {} => \E x \in TT : \A y \in TT : <<y, x>> \notin Before
    BY <2>1, WFMin
  <2>3. T \subseteq Nat
    OBVIOUS
  <2>4. QED
    BY <2>2, <2>3
<1>2. m # 0 /\ m - 1 \in Nat
  OBVIOUS
<1>3. <<m - 1, m>> \in Before
  BY <1>2 DEF Before
<1>4. m - 1 \in S
  BY <1>1, <1>2, <1>3
<1>5. QED
  BY <1>2, <1>4

\* Up to an end.
LEMMA InductionUpTo ==
    ASSUME NEW end \in Nat, NEW S, 0 \in S,
           \A n \in 0..(end - 1) : n \in S => n + 1 \in S
    PROVE  \A n \in 0..end : n \in S
<1> DEFINE T == {n \in Nat : n <= end => n \in S}
<1>1. 0 \in T
  OBVIOUS
<1>2. \A n \in Nat : n \in T => n + 1 \in T
  OBVIOUS
<1> HIDE DEF T
<1>3. Nat \subseteq T
  BY <1>1, <1>2, InductionOnNat
<1>4. QED
  BY <1>3 DEF T

-----------------------------------------------------------------------------
(* FlattenSeq, of which the definition is recursive.                       *)

\* The function it is the last value of.
Flattens(f, seqs) ==
    f = [i \in 1..Len(seqs) |-> IF i = 1 THEN seqs[i] ELSE f[i - 1] \o seqs[i]]

LEMMA FlattensExists ==
    ASSUME NEW S, NEW seqs \in Seq(Seq(S)), Len(seqs) # 0
    PROVE  \E f : Flattens(f, seqs)
<1> DEFINE Upto(f, n) == f = [i \in 1..n |-> IF i = 1 THEN seqs[i] ELSE f[i - 1] \o seqs[i]]
           T == {n \in Nat : n # 0 => \E f : Upto(f, n)}
<1>1. 0 \in T
  OBVIOUS
<1>2. ASSUME NEW n \in Nat, n \in T
      PROVE  n + 1 \in T
  <2>1. CASE n = 0
    <3>1. [i \in 1..1 |-> seqs[1]]
            = [i \in 1..1 |-> IF i = 1 THEN seqs[i] ELSE [j \in 1..1 |-> seqs[1]][i - 1] \o seqs[i]]
      OBVIOUS
    <3>2. \E f : Upto(f, 1)
      BY <3>1
    <3> HIDE DEF Upto
    <3>3. QED
      BY <2>1, <3>2
  <2>2. CASE n # 0
    <3>1. PICK f : Upto(f, n)
      BY <1>2, <2>2
    <3> DEFINE g == [i \in 1..(n + 1) |-> IF i <= n THEN f[i] ELSE f[n] \o seqs[n + 1]]
    <3>2. \A i \in 1..(n + 1) : g[i] = IF i = 1 THEN seqs[i] ELSE g[i - 1] \o seqs[i]
      <4>1. \A i \in 1..n : f[i] = IF i = 1 THEN seqs[i] ELSE f[i - 1] \o seqs[i]
        BY <3>1
      <4>2. \A i \in 1..n : g[i] = f[i]
        OBVIOUS
      <4>3. g[n + 1] = f[n] \o seqs[n + 1]
        <5>1. ~(n + 1 <= n) /\ n + 1 \in 1..(n + 1)
          OBVIOUS
        <5>2. QED
          BY <5>1, Zenon
      <4>4. g[n] = f[n]
        BY <2>2, <4>2
      <4> HIDE DEF g
      <4>5. \A i \in 1..n : i # 1 => g[i - 1] = f[i - 1]
        BY <4>2
      <4>6. \A i \in 1..(n + 1) : i \in 1..n \/ (i = n + 1 /\ i # 1 /\ i - 1 = n)
        BY <2>2
      <4>7. QED
        BY <4>1, <4>2, <4>3, <4>4, <4>5, <4>6
    <3>3. Upto(g, n + 1)
      <4>1. g = [i \in 1..(n + 1) |-> g[i]]
        OBVIOUS
      <4> HIDE DEF g
      <4>2. QED
        BY <3>2, <4>1
    <3>4. \E h : Upto(h, n + 1)
      BY <3>3, Zenon
    <3> HIDE DEF Upto
    <3>5. QED
      BY <3>4
  <2>3. QED
    BY <2>1, <2>2
<1>3. Len(seqs) \in T
  <2> HIDE DEF T
  <2>1. QED
    BY <1>1, <1>2, InductionOnNat
<1>4. \E f : Upto(f, Len(seqs))
  BY <1>3
<1>5. QED
  BY <1>4, Zenon DEF Flattens

\* What has come together after each of the sequences.
Accumulates(f, seqs) ==
    /\ f[0] = <<>>
    /\ \A i \in 1..Len(seqs) : f[i] = f[i - 1] \o seqs[i]
    /\ FlattenSeq(seqs) = f[Len(seqs)]

LEMMA FlattenSeqBy ==
    ASSUME NEW S, NEW seqs \in Seq(Seq(S))
    PROVE  \E f \in [0..Len(seqs) -> Seq(S)] : Accumulates(f, seqs)
<1>n. Len(seqs) \in Nat /\ \A i \in 1..Len(seqs) : seqs[i] \in Seq(S)
  OBVIOUS
<1>1. CASE Len(seqs) = 0
  <2>1. FlattenSeq(seqs) = <<>>
    BY <1>1 DEF FlattenSeq
  <2>2. WITNESS [i \in 0..Len(seqs) |-> <<>>] \in [0..Len(seqs) -> Seq(S)]
  <2>3. QED
    BY <1>1, <2>1 DEF Accumulates
<1>2. CASE Len(seqs) # 0
  <2>1. PICK g : Flattens(g, seqs) /\ FlattenSeq(seqs) = g[Len(seqs)]
    BY <1>2, FlattensExists DEF FlattenSeq, Flattens
  <2>2. \A i \in 1..Len(seqs) : g[i] = IF i = 1 THEN seqs[i] ELSE g[i - 1] \o seqs[i]
    BY <2>1 DEF Flattens
  <2> DEFINE f == [i \in 0..Len(seqs) |-> IF i = 0 THEN <<>> ELSE g[i]]
  <2>3. f[0] = <<>> /\ f[Len(seqs)] = g[Len(seqs)] /\ \A i \in 1..Len(seqs) : f[i] = g[i]
    BY <1>2
  <2>f. f = [i \in 0..Len(seqs) |-> f[i]]
    OBVIOUS
  <2> HIDE DEF f
  <2>4. \A i \in 1..Len(seqs) : f[i] = f[i - 1] \o seqs[i]
    <3>1. TAKE i \in 1..Len(seqs)
    <3>2. CASE i = 1
      <4>1. f[i] = seqs[i] /\ seqs[i] \in Seq(S) /\ f[i - 1] = <<>>
        BY <1>n, <2>2, <2>3, <3>2
      <4>2. QED
        BY <4>1
    <3>3. CASE i # 1
      <4>1. i - 1 \in 1..Len(seqs)
        BY <1>n, <3>3
      <4>2. f[i - 1] = g[i - 1] /\ f[i] = g[i] /\ g[i] = g[i - 1] \o seqs[i]
        BY <2>2, <2>3, <3>3, <4>1
      <4>3. QED
        BY <4>2, Zenon
    <3>4. QED
      BY <3>2, <3>3
  <2>5. \A i \in 0..Len(seqs) : f[i] \in Seq(S)
    <3> DEFINE T == {i \in Nat : f[i] \in Seq(S)}
    <3>1. 0 \in T
      <4>1. f[0] \in Seq(S)
        BY <2>3
      <4>2. QED
        BY <4>1
    <3>2. \A n \in 0..(Len(seqs) - 1) : n \in T => n + 1 \in T
      <4>1. TAKE n \in 0..(Len(seqs) - 1)
      <4>2. n + 1 \in 1..Len(seqs) /\ (n + 1) - 1 = n /\ n + 1 \in Nat
        BY <1>n
      <4>3. f[n + 1] = f[n] \o seqs[n + 1] /\ seqs[n + 1] \in Seq(S)
        BY <2>4, <1>n, <4>2
      <4>4. f[n] \in Seq(S) => f[n + 1] \in Seq(S)
        BY <4>3
      <4>5. QED
        BY <4>2, <4>4
    <3>3. \A i \in 0..Len(seqs) : i \in T
      <4> HIDE DEF T
      <4>1. QED
        BY <1>n, <3>1, <3>2, InductionUpTo
    <3>4. QED
      BY <3>3
  <2>6. f \in [0..Len(seqs) -> Seq(S)]
    BY <2>f, <2>5
  <2>7. QED
    BY <2>1, <2>3, <2>4, <2>6 DEF Accumulates
<1>3. QED
  BY <1>1, <1>2

-----------------------------------------------------------------------------
(* Pieces.                                                                 *)

\* A part of a sequence, in the terms the provers know best.
LEMMA PartOf ==
    ASSUME NEW S, NEW s \in Seq(S), NEW a \in 0..Len(s), NEW b \in a..Len(s)
    PROVE  /\ SubSeq(s, a + 1, b) \in Seq(S)
           /\ Len(SubSeq(s, a + 1, b)) = b - a
           /\ \A i \in 1..(b - a) : SubSeq(s, a + 1, b)[i] = s[a + i]
OBVIOUS

LEMMA Pieces ==
    ASSUME NEW length \in Nat, NEW n \in Nat \ {0}
    PROVE  LET count == (length + n - 1) \div n IN
              /\ count \in Nat
              /\ length <= count * n
              /\ \A i \in 1..count : (i - 1) * n < length
              /\ \A i \in 1..(count - 1) : i * n < length
              /\ count = 0 => length = 0
<1> DEFINE count == (length + n - 1) \div n
<1>1. /\ count \in Nat
      /\ count * n <= length + n - 1
      /\ length + n - 1 < count * n + n
  OBVIOUS
<1> HIDE DEF count
<1>2. count * n \in Nat /\ length <= count * n
  BY <1>1
<1>3. ASSUME NEW i \in 1..count
      PROVE  (i - 1) * n < length
  <2>1. i - 1 \in Nat /\ count - i \in Nat
    BY <1>1
  <2>2. count * n = (i - 1) * n + (count - i) * n + n
    BY <1>1, <2>1
  <2>3. (i - 1) * n \in Nat /\ (count - i) * n \in Nat
    BY <2>1
  <2>4. QED
    BY <1>1, <2>2, <2>3
<1>4. ASSUME NEW i \in 1..(count - 1)
      PROVE  i * n < length
  <2>1. i + 1 \in 1..count /\ (i + 1) - 1 = i
    BY <1>1
  <2>2. QED
    BY <1>3, <2>1
<1>5. count = 0 => length = 0
  BY <1>1
<1>6. QED
  BY <1>1, <1>2, <1>3, <1>4, <1>5 DEF count

\* Where the pieces of s end: each but the last after n more.
PiecesEnd(end, pieces, s, n) ==
    /\ end[0] = 0
    /\ end[Len(pieces)] = Len(s)
    /\ \A i \in 1..Len(pieces) :
          /\ end[i - 1] < end[i]
          /\ end[i] <= end[i - 1] + n
          /\ end[i] = end[i - 1] + n \/ end[i] = Len(s)
          /\ pieces[i] = SubSeq(s, end[i - 1] + 1, end[i])
          /\ Len(pieces[i]) = end[i] - end[i - 1]

LEMMA CutAt ==
    ASSUME NEW S, NEW s \in Seq(S), NEW n \in Nat \ {0}
    PROVE  /\ Cut(s, n) \in Seq(Seq(S))
           /\ \E end \in [0..Len(Cut(s, n)) -> 0..Len(s)] : PiecesEnd(end, Cut(s, n), s, n)
<1> DEFINE count == (Len(s) + n - 1) \div n
           end == [i \in 0..count |-> IF i * n < Len(s) THEN i * n ELSE Len(s)]
<1>1. /\ Len(s) \in Nat /\ count \in Nat
      /\ Len(s) <= count * n
      /\ \A i \in 1..count : (i - 1) * n < Len(s)
      /\ \A i \in 1..(count - 1) : i * n < Len(s)
  <2>1. Len(s) \in Nat
    OBVIOUS
  <2>2. QED
    BY <2>1, Pieces
<1>2. Cut(s, n) = [i \in 1..count |-> SubSeq(s, (i - 1) * n + 1, end[i])]
  <2>1. \A i \in 1..count : end[i] = IF i * n < Len(s) THEN i * n ELSE Len(s)
    OBVIOUS
  <2> HIDE DEF end
  <2>2. Cut(s, n) = [i \in 1..count |->
                        SubSeq(s, (i - 1) * n + 1, IF i * n < Len(s) THEN i * n ELSE Len(s))]
    BY DEF Cut
  <2> HIDE DEF count
  <2>3. QED
    BY <2>1, <2>2
<1> HIDE DEF count
<1>3. \A i \in 0..count : i * n \in Nat /\ end[i] \in 0..Len(s)
  BY <1>1
<1>4. end[0] = 0 /\ end[count] = Len(s)
  <2>1. 0 * n = 0 /\ count * n \in Nat
    BY <1>1
  <2>2. QED
    BY <1>1, <2>1
<1>5. ASSUME NEW i \in 1..count
      PROVE  /\ end[i - 1] = (i - 1) * n
             /\ end[i - 1] < end[i]
             /\ end[i] <= end[i - 1] + n
             /\ end[i] = end[i - 1] + n \/ end[i] = Len(s)
  <2>1. i - 1 \in 0..count /\ i \in 0..count /\ (i - 1) * n < Len(s)
    BY <1>1
  <2>2. i * n = (i - 1) * n + n /\ (i - 1) * n \in Nat
    BY <2>1
  <2>3. end[i - 1] = (i - 1) * n
    BY <2>1
  <2>4. end[i] = IF i * n < Len(s) THEN i * n ELSE Len(s)
    BY <2>1
  <2> HIDE DEF end
  <2>5. QED
    BY <1>1, <2>1, <2>2, <2>3, <2>4
<1>6. end \in [0..count -> 0..Len(s)]
  BY <1>3
<1> HIDE DEF end
<1>7. ASSUME NEW i \in 1..count
      PROVE  /\ Cut(s, n)[i] = SubSeq(s, end[i - 1] + 1, end[i])
             /\ Cut(s, n)[i] \in Seq(S)
             /\ Len(Cut(s, n)[i]) = end[i] - end[i - 1]
  <2>1. Cut(s, n)[i] = SubSeq(s, end[i - 1] + 1, end[i])
    BY <1>2, <1>5
  <2>2. end[i - 1] \in 0..Len(s) /\ end[i] \in end[i - 1]..Len(s)
    <3>1. i - 1 \in 0..count /\ i \in 0..count
      BY <1>1
    <3>2. QED
      BY <1>1, <1>3, <1>5, <3>1
  <2>3. QED
    BY <2>1, <2>2, PartOf
<1>8. Cut(s, n) \in Seq(Seq(S)) /\ Len(Cut(s, n)) = count
  <2>1. Cut(s, n) \in [1..count -> Seq(S)]
    BY <1>2, <1>7
  <2> HIDE DEF Cut
  <2>2. QED
    BY <1>1, <2>1
<1>9. QED
  <2>1. PiecesEnd(end, Cut(s, n), s, n)
    BY <1>4, <1>5, <1>7, <1>8 DEF PiecesEnd
  <2>2. QED
    BY <1>6, <1>8, <2>1

\* What was cut is the pieces one after the other.
LEMMA FlattenCut ==
    ASSUME NEW S, NEW s \in Seq(S), NEW n \in Nat \ {0}
    PROVE  FlattenSeq(Cut(s, n)) = s
<1> DEFINE pieces == Cut(s, n)
<1>1. pieces \in Seq(Seq(S)) /\ Len(pieces) \in Nat /\ Len(s) \in Nat
  BY CutAt
<1>2. PICK end \in [0..Len(pieces) -> 0..Len(s)] : PiecesEnd(end, pieces, s, n)
  BY CutAt
<1> HIDE DEF pieces
<1>3. PICK f \in [0..Len(pieces) -> Seq(S)] : Accumulates(f, pieces)
  BY <1>1, FlattenSeqBy
<1>e. /\ end[0] = 0 /\ end[Len(pieces)] = Len(s)
      /\ \A i \in 1..Len(pieces) : /\ end[i - 1] < end[i]
                                    /\ pieces[i] = SubSeq(s, end[i - 1] + 1, end[i])
  BY <1>2 DEF PiecesEnd
<1>f. /\ f[0] = <<>> /\ FlattenSeq(pieces) = f[Len(pieces)]
      /\ \A i \in 1..Len(pieces) : f[i] = f[i - 1] \o pieces[i]
  BY <1>3 DEF Accumulates
<1> DEFINE T == {i \in Nat : f[i] = SubSeq(s, 1, end[i])}
<1>4. 0 \in T
  <2>1. SubSeq(s, 1, 0) = <<>>
    OBVIOUS
  <2>2. QED
    BY <1>e, <1>f, <2>1
<1>5. ASSUME NEW i \in 0..(Len(pieces) - 1), i \in T
      PROVE  i + 1 \in T
  <2>1. i + 1 \in 1..Len(pieces) /\ (i + 1) - 1 = i /\ i \in 0..Len(pieces) /\ i + 1 \in 0..Len(pieces)
    BY <1>1
  <2>2. /\ f[i + 1] = SubSeq(s, 1, end[i]) \o SubSeq(s, end[i] + 1, end[i + 1])
        /\ end[i] < end[i + 1] /\ end[i] \in 0..Len(s) /\ end[i + 1] \in 0..Len(s)
    BY <1>e, <1>f, <1>5, <2>1
  <2>3. \A a, b \in 0..Len(s) : a < b =>
          SubSeq(s, 1, a) \o SubSeq(s, a + 1, b) = SubSeq(s, 1, b)
    OBVIOUS
  <2>4. f[i + 1] = SubSeq(s, 1, end[i + 1])
    BY <2>2, <2>3
  <2>5. QED
    BY <2>1, <2>4
<1>6. Len(pieces) \in T
  <2> HIDE DEF T
  <2>1. Len(pieces) \in 0..Len(pieces)
    BY <1>1
  <2>2. QED
    BY <1>1, <1>4, <1>5, <2>1, InductionUpTo
<1>7. SubSeq(s, 1, Len(s)) = s
  OBVIOUS
<1>8. QED
  BY <1>e, <1>f, <1>6, <1>7 DEF pieces

-----------------------------------------------------------------------------
(* Texts and their bytes.                                                  *)

LEMMA BytesOf ==
    ASSUME NEW name \in Char
    PROVE  /\ Bytes(name) \in Seq(Byte)
           /\ Len(Bytes(name)) = Width[name] /\ Width[name] \in 1..4
           /\ \A i \in 1..Width[name] : Bytes(name)[i] = <<name, i>>
<1>1. Width[name] \in 1..4
  BY DEF Width, Char
<1> HIDE DEF Width
<1>2. Bytes(name) = [i \in 1..Width[name] |-> <<name, i>>]
  BY DEF Bytes
<1>3. Bytes(name) \in [1..Width[name] -> Byte]
  BY <1>1, <1>2 DEF Byte
<1>4. Bytes(name) \in Seq(Byte) /\ Len(Bytes(name)) = Width[name]
  BY <1>1, <1>3
<1>5. QED
  BY <1>1, <1>2, <1>4

\* What a unit adds.
LEMMA BytesAt ==
    ASSUME NEW s \in Seq(Unit), NEW i \in 1..Len(s)
    PROVE  /\ Utf8At(s, i) = <<>> \/ \E name \in Char : Utf8At(s, i) = Bytes(name)
           /\ Utf8At(s, i) \in Seq(Byte)
           /\ s[i] \in {"one", "two", "three"} => Len(Utf8At(s, i)) >= 1
           /\ s[i] = "one" => Len(Utf8At(s, i)) = 1
           /\ s[i] = "hi" => Len(Utf8At(s, i)) = IF i < Len(s) THEN 4 ELSE 3
           /\ s[i] = "lo" => Len(Utf8At(s, i)) = IF i > 1 THEN 0 ELSE 3
<1>1. s[i] \in Unit
  OBVIOUS
<1>2. \A name \in Char : Len(Bytes(name)) = Width[name] /\ Bytes(name) \in Seq(Byte)
  BY BytesOf
<1>3. <<>> \in Seq(Byte) /\ Len(<<>>) = 0
  OBVIOUS
<1>4. CASE s[i] \in {"one", "two", "three"}
  <2>1. Utf8At(s, i) = Bytes(s[i]) /\ s[i] \in Char
    BY <1>4 DEF Utf8At, Char
  <2>2. Width[s[i]] >= 1 /\ (s[i] = "one" => Width[s[i]] = 1)
    BY <1>4 DEF Width
  <2>3. s[i] # "hi" /\ s[i] # "lo"
    BY <1>4
  <2>4. QED
    BY <1>2, <2>1, <2>2, <2>3
<1>5. CASE s[i] = "hi"
  <2>1. Utf8At(s, i) = IF i < Len(s) THEN Bytes("four") ELSE Bytes("replacement")
    BY <1>5 DEF Utf8At
  <2>2. "four" \in Char /\ "replacement" \in Char /\ Width["four"] = 4 /\ Width["replacement"] = 3
    BY DEF Char, Width
  <2>3. QED
    BY <1>2, <1>5, <2>1, <2>2
<1>6. CASE s[i] = "lo"
  <2>1. Utf8At(s, i) = IF i > 1 THEN <<>> ELSE Bytes("replacement")
    BY <1>6 DEF Utf8At
  <2>2. "replacement" \in Char /\ Width["replacement"] = 3
    BY DEF Char, Width
  <2>3. QED
    BY <1>2, <1>3, <1>6, <2>1, <2>2
<1>7. QED
  BY <1>1, <1>4, <1>5, <1>6 DEF Unit

\* The bytes of each unit and of the units so far.
Encodes(f, units, s) ==
    /\ f[0] = <<>>
    /\ \A i \in 1..Len(s) : f[i] = f[i - 1] \o units[i]
    /\ \A i \in 1..Len(s) : units[i] = Utf8At(s, i)
    /\ Utf8(s) = f[Len(s)]

LEMMA Utf8By ==
    ASSUME NEW s \in Seq(Unit)
    PROVE  /\ Utf8(s) \in Seq(Byte)
           /\ \E f \in [0..Len(s) -> Seq(Byte)], units \in [1..Len(s) -> Seq(Byte)] :
                 Encodes(f, units, s)
<1> DEFINE units == [i \in 1..Len(s) |-> Utf8At(s, i)]
<1>1. \A i \in 1..Len(s) : Utf8At(s, i) \in Seq(Byte)
  BY BytesAt
<1>2. /\ units \in Seq(Seq(Byte)) /\ units \in [1..Len(s) -> Seq(Byte)]
      /\ Len(units) = Len(s) /\ Len(s) \in Nat
  BY <1>1
<1>3. \A i \in 1..Len(s) : units[i] = Utf8At(s, i)
  OBVIOUS
<1>4. Utf8(s) = FlattenSeq(units)
  <2>1. DOMAIN s = 1..Len(s)
    OBVIOUS
  <2>2. QED
    BY <2>1 DEF Utf8
<1> HIDE DEF units
<1>5. PICK f \in [0..Len(s) -> Seq(Byte)] : Accumulates(f, units)
  BY <1>2, FlattenSeqBy
<1>6. Encodes(f, units, s)
  BY <1>2, <1>3, <1>4, <1>5 DEF Accumulates, Encodes
<1>7. Utf8(s) \in Seq(Byte)
  <2>1. Len(s) \in 0..Len(units)
    BY <1>2
  <2>2. QED
    BY <1>5, <1>6, <2>1 DEF Encodes
<1>8. QED
  BY <1>2, <1>6, <1>7

\* Whatever is decoded is a text again.
LEMMA CharsAreUtf8 ==
    ASSUME NEW bytes \in Seq(Byte), IsUtf8(bytes), NEW name \in Char
    PROVE  IsUtf8(bytes \o Bytes(name))
<1> DEFINE all == bytes \o Bytes(name)
           old == Len(bytes)
           width == Width[name]
<1>1. /\ Bytes(name) \in Seq(Byte) /\ Len(Bytes(name)) = width /\ width \in 1..4
      /\ \A i \in 1..width : Bytes(name)[i] = <<name, i>>
  BY BytesOf
<1> HIDE DEF width
<1>2. /\ old \in Nat /\ Len(all) = old + width /\ DOMAIN all = 1..(old + width)
      /\ \A i \in 1..old : all[i] = bytes[i]
      /\ \A i \in 1..width : all[old + i] = <<name, i>>
  BY <1>1
<1>3. \A i \in 1..old : LET b == bytes[i][1]  place == bytes[i][2] IN
        /\ place > 1 => i > 1 /\ bytes[i - 1] = <<b, place - 1>>
        /\ place < Width[b] => i < old /\ bytes[i + 1] = <<b, place + 1>>
  BY DEF IsUtf8
<1> HIDE DEF all, old
<1>4. SUFFICES ASSUME NEW i \in 1..(old + width)
               PROVE  /\ all[i][2] > 1 => i > 1 /\ all[i - 1] = <<all[i][1], all[i][2] - 1>>
                      /\ all[i][2] < Width[all[i][1]] =>
                            i < old + width /\ all[i + 1] = <<all[i][1], all[i][2] + 1>>
  BY <1>2 DEF IsUtf8, all
<1>5. CASE i <= old
  <2>1. all[i] = bytes[i] /\ (i > 1 => all[i - 1] = bytes[i - 1])
    BY <1>1, <1>2, <1>5
  <2>2. i < old => all[i + 1] = bytes[i + 1]
    BY <1>1, <1>2, <1>5
  <2>3. i < old => i < old + width
    BY <1>1, <1>2
  <2>4. i \in 1..old
    BY <1>2, <1>5
  <2>5. QED
    BY <1>3, <2>1, <2>2, <2>3, <2>4
<1>6. CASE i > old
  <2>1. PICK j \in 1..width : i = old + j
    <3>1. i - old \in 1..width /\ i = old + (i - old)
      BY <1>1, <1>2, <1>6
    <3>2. QED
      BY <3>1
  <2>2. all[i] = <<name, j>> /\ all[i][1] = name /\ all[i][2] = j
    BY <1>2, <2>1
  <2>3. j > 1 => i > 1 /\ all[i - 1] = <<name, j - 1>>
    <3>1. ASSUME j > 1 PROVE j - 1 \in 1..width /\ i - 1 = old + (j - 1) /\ i > 1
      BY <1>1, <1>2, <2>1, <3>1
    <3>2. QED
      BY <1>2, <3>1
  <2>4. j < width => i < old + width /\ all[i + 1] = <<name, j + 1>>
    <3>1. ASSUME j < width PROVE j + 1 \in 1..width /\ i + 1 = old + (j + 1) /\ i < old + width
      BY <1>1, <1>2, <2>1, <3>1
    <3>2. QED
      BY <1>2, <3>1
  <2>5. QED
    BY <2>2, <2>3, <2>4 DEF width
<1>7. QED
  BY <1>1, <1>2, <1>5, <1>6

LEMMA Utf8IsUtf8 ==
    ASSUME NEW s \in Seq(Unit)
    PROVE  IsUtf8(Utf8(s))
<1>1. PICK f \in [0..Len(s) -> Seq(Byte)], units \in [1..Len(s) -> Seq(Byte)] : Encodes(f, units, s)
  BY Utf8By
<1> DEFINE T == {i \in Nat : IsUtf8(f[i])}
<1>2. 0 \in T
  <2>1. IsUtf8(<<>>)
    BY DEF IsUtf8
  <2>2. QED
    BY <1>1, <2>1 DEF Encodes
<1>3. ASSUME NEW i \in 0..(Len(s) - 1), i \in T
      PROVE  i + 1 \in T
  <2>1. i + 1 \in 1..Len(s) /\ (i + 1) - 1 = i /\ i \in 0..Len(s)
    OBVIOUS
  <2>2. /\ f[i + 1] = f[i] \o units[i + 1] /\ f[i] \in Seq(Byte) /\ IsUtf8(f[i])
        /\ units[i + 1] = Utf8At(s, i + 1)
    BY <1>1, <1>3, <2>1 DEF Encodes
  <2>3. IsUtf8(f[i + 1])
    <3>1. CASE Utf8At(s, i + 1) = <<>>
      <4>1. f[i] \o <<>> = f[i]
        BY <2>2
      <4>2. QED
        BY <2>2, <3>1, <4>1
    <3>2. CASE \E name \in Char : Utf8At(s, i + 1) = Bytes(name)
      BY <2>2, <3>2, CharsAreUtf8
    <3>3. QED
      BY <2>1, <3>1, <3>2, BytesAt
  <2>4. QED
    BY <2>1, <2>3
<1>4. Len(s) \in T
  <2> HIDE DEF T
  <2>1. Len(s) \in Nat /\ Len(s) \in 0..Len(s)
    OBVIOUS
  <2>2. QED
    BY <1>2, <1>3, <2>1, InductionUpTo
<1>5. QED
  BY <1>1, <1>4 DEF Encodes

-----------------------------------------------------------------------------
(* What text() makes of a body.                                            *)

\* What it makes of each byte.
TextsOf(bytes) == [i \in 1..Len(bytes) |-> TextAt(bytes, i)]

LEMMA TextsOfBytes ==
    ASSUME NEW bytes \in Seq(Byte)
    PROVE  /\ TextsOf(bytes) \in Seq(Seq(Byte)) /\ Len(TextsOf(bytes)) = Len(bytes)
           /\ \A i \in 1..Len(bytes) : TextsOf(bytes)[i] = TextAt(bytes, i)
           /\ ResText(bytes) = FlattenSeq(TextsOf(bytes))
<1>1. ASSUME NEW i \in 1..Len(bytes) PROVE TextAt(bytes, i) \in Seq(Byte)
  <2>1. bytes[i] \in Byte /\ <<bytes[i]>> \in Seq(Byte) /\ <<>> \in Seq(Byte)
    OBVIOUS
  <2>2. Bytes("replacement") \in Seq(Byte)
    <3>1. "replacement" \in Char
      BY DEF Char
    <3>2. QED
      BY <3>1, BytesOf
  <2>3. bytes[i][1] \in Char /\ bytes[i][2] \in Nat /\ Width[bytes[i][1]] \in 1..4
    <3>1. bytes[i][1] \in Char /\ bytes[i][2] \in Nat
      BY <2>1 DEF Byte
    <3>2. QED
      BY <3>1, BytesOf
  <2>4. PICK place, end : place = bytes[i][2] /\ end = i + Width[bytes[i][1]] - bytes[i][2]
    OBVIOUS
  <2>5. place \in Nat /\ end \in Int /\ Len(bytes) \in Nat /\ i \in Nat
    BY <2>3, <2>4
  <2>6. CASE place > i
    <3>1. TextAt(bytes, i) = Bytes("replacement")
      <4>1. ~(place <= i)
        BY <2>5, <2>6
      <4>2. QED
        BY <2>4, <2>6, <4>1, Zenon DEF TextAt
    <3>2. QED
      BY <2>2, <3>1
  <2>7. CASE place <= i /\ end > Len(bytes)
    <3>1. ~(place > i) /\ ~(end <= Len(bytes))
      BY <2>5, <2>7
    <3>2. TextAt(bytes, i) = IF place = 1 THEN Bytes("replacement") ELSE <<>>
      BY <2>4, <2>7, <3>1, Zenon DEF TextAt
    <3>3. QED
      BY <2>1, <2>2, <3>2
  <2>8. CASE place <= i /\ end <= Len(bytes)
    <3>1. ~(place > i) /\ ~(end > Len(bytes))
      BY <2>5, <2>8
    <3>2. TextAt(bytes, i) = IF bytes[i][1] = "bom" /\ place = i THEN <<>> ELSE <<bytes[i]>>
      BY <2>4, <2>8, <3>1, Zenon DEF TextAt
    <3>3. QED
      BY <2>1, <3>2
  <2>9. QED
    BY <2>5, <2>6, <2>7, <2>8
<1>2. DOMAIN bytes = 1..Len(bytes) /\ Len(bytes) \in Nat
  OBVIOUS
<1>3. ResText(bytes) = FlattenSeq(TextsOf(bytes))
  BY <1>2, Zenon DEF ResText, TextsOf
<1>4. TextsOf(bytes) \in [1..Len(bytes) -> Seq(Byte)]
  BY <1>1 DEF TextsOf
<1>5. \A i \in 1..Len(bytes) : TextsOf(bytes)[i] = TextAt(bytes, i)
  BY DEF TextsOf
<1>6. QED
  BY <1>2, <1>3, <1>4, <1>5

LEMMA ResTextBy ==
    ASSUME NEW bytes \in Seq(Byte)
    PROVE  ResText(bytes) \in Seq(Byte)
<1>1. PICK f \in [0..Len(TextsOf(bytes)) -> Seq(Byte)] : Accumulates(f, TextsOf(bytes))
  BY TextsOfBytes, FlattenSeqBy
<1>2. Len(bytes) \in 0..Len(bytes)
  OBVIOUS
<1>3. QED
  BY <1>1, <1>2, TextsOfBytes DEF Accumulates

\* Where a body is UTF-8, a character is there from its first byte to its last.
LEMMA WholeCharacters ==
    ASSUME NEW bytes, PartOfText(bytes), IsUtf8(bytes), NEW i \in 1..Len(bytes)
    PROVE  /\ bytes[i][2] <= i
           /\ i + Width[bytes[i][1]] - bytes[i][2] <= Len(bytes)
           /\ bytes[i][2] = i => bytes[1][1] = bytes[i][1]
<1>1. /\ bytes \in Seq(Byte) /\ Len(bytes) \in Nat
      /\ \A j \in 1..Len(bytes) : bytes[j][1] \in Char /\ bytes[j][2] \in Nat
  BY DEF PartOfText, Byte
<1>2. DOMAIN bytes = 1..Len(bytes)
  BY <1>1
<1> DEFINE name(j) == bytes[j][1]
           place(j) == bytes[j][2]
<1>3. \A j \in 1..Len(bytes) : place(j) \in 1..Width[name(j)] /\ Width[name(j)] \in 1..4
  <2>1. \A j \in 1..Len(bytes) : place(j) \in 1..Width[name(j)]
    BY <1>2 DEF PartOfText
  <2>2. \A c \in Char : Width[c] \in 1..4
    BY BytesOf
  <2>3. QED
    BY <1>1, <2>1, <2>2
<1>4. \A j \in 1..Len(bytes) : place(j) > 1 =>
          j > 1 /\ name(j - 1) = name(j) /\ place(j - 1) = place(j) - 1
  BY <1>2 DEF IsUtf8
<1>5. \A j \in 1..Len(bytes) : place(j) < Width[name(j)] =>
          j < Len(bytes) /\ name(j + 1) = name(j) /\ place(j + 1) = place(j) + 1
  BY <1>2 DEF IsUtf8
<1> DEFINE n == [j \in 1..Len(bytes) |-> bytes[j][1]]
           p == [j \in 1..Len(bytes) |-> bytes[j][2]]
           w == [j \in 1..Len(bytes) |-> Width[bytes[j][1]]]
<1>6. \A j \in 1..Len(bytes) : /\ n[j] = name(j) /\ p[j] = place(j)
                               /\ w[j] = Width[name(j)]
  OBVIOUS
<1> HIDE DEF n, p, w, name, place
<1>7. \A j \in 1..Len(bytes) : p[j] \in {1, 2, 3, 4} /\ w[j] \in 1..4 /\ p[j] <= w[j]
  <2>1. \A j \in 1..Len(bytes) : p[j] \in 1..w[j] /\ w[j] \in 1..4
    BY <1>3, <1>6
  <2>2. \A a : \A b \in 1..4 : a \in 1..b => a \in {1, 2, 3, 4} /\ a <= b
    OBVIOUS
  <2>3. QED
    BY <2>1, <2>2, Zenon
<1>b. ASSUME NEW j \in 1..Len(bytes), p[j] > 1
      PROVE  j - 1 \in 1..Len(bytes) /\ n[j - 1] = n[j] /\ p[j - 1] = p[j] - 1
  <2>1. j > 1 /\ name(j - 1) = name(j) /\ place(j - 1) = place(j) - 1
    BY <1>4, <1>6, <1>b
  <2>2. j - 1 \in 1..Len(bytes)
    BY <1>1, <2>1
  <2>3. QED
    BY <1>6, <2>1, <2>2
<1>a. ASSUME NEW j \in 1..Len(bytes), p[j] < w[j]
      PROVE  j + 1 \in 1..Len(bytes) /\ w[j + 1] = w[j] /\ p[j + 1] = p[j] + 1
  <2>1. j < Len(bytes) /\ name(j + 1) = name(j) /\ place(j + 1) = place(j) + 1
    BY <1>5, <1>6, <1>a
  <2>2. j + 1 \in 1..Len(bytes)
    BY <1>1, <2>1
  <2>3. QED
    BY <1>6, <2>1, <2>2
<1>8. p[i] <= i /\ (p[i] = i => n[1] = n[i])
  <2>1. p[i] \in {1, 2, 3, 4} /\ i \in Nat /\ i >= 1
    BY <1>1, <1>7
  <2>2. \A j \in 1..Len(bytes) : p[j] = 1 => p[j] <= j /\ (p[j] = j => n[1] = n[j])
    OBVIOUS
  <2>3. \A j \in 1..Len(bytes) : p[j] = 2 => p[j] <= j /\ (p[j] = j => n[1] = n[j])
    <3>1. TAKE j \in 1..Len(bytes)
    <3>2. HAVE p[j] = 2
    <3>3. j - 1 \in 1..Len(bytes) /\ p[j - 1] = 1 /\ n[j - 1] = n[j]
      BY <1>b, <3>2
    <3>4. QED
      BY <2>2, <3>2, <3>3
  <2>4. \A j \in 1..Len(bytes) : p[j] = 3 => p[j] <= j /\ (p[j] = j => n[1] = n[j])
    <3>1. TAKE j \in 1..Len(bytes)
    <3>2. HAVE p[j] = 3
    <3>3. j - 1 \in 1..Len(bytes) /\ p[j - 1] = 2 /\ n[j - 1] = n[j]
      BY <1>b, <3>2
    <3>4. QED
      BY <2>3, <3>2, <3>3
  <2>5. \A j \in 1..Len(bytes) : p[j] = 4 => p[j] <= j /\ (p[j] = j => n[1] = n[j])
    <3>1. TAKE j \in 1..Len(bytes)
    <3>2. HAVE p[j] = 4
    <3>3. j - 1 \in 1..Len(bytes) /\ p[j - 1] = 3 /\ n[j - 1] = n[j]
      BY <1>b, <3>2
    <3>4. QED
      BY <2>4, <3>2, <3>3
  <2>6. QED
    BY <2>1, <2>2, <2>3, <2>4, <2>5
<1>9. i + w[i] - p[i] <= Len(bytes)
  <2> DEFINE rest == [j \in 1..Len(bytes) |-> w[j] - p[j]]
  <2>1. \A j \in 1..Len(bytes) : /\ rest[j] \in {0, 1, 2, 3}
                                 /\ rest[j] # 0 => /\ j + 1 \in 1..Len(bytes)
                                                   /\ rest[j + 1] = rest[j] - 1
    <3>1. TAKE j \in 1..Len(bytes)
    <3>2. p[j] \in {1, 2, 3, 4} /\ w[j] \in 1..4 /\ p[j] <= w[j]
      BY <1>7
    <3>3. rest[j] = w[j] - p[j]
      OBVIOUS
    <3>4. rest[j] \in {0, 1, 2, 3}
      BY <3>2, <3>3
    <3>5. ASSUME rest[j] # 0 PROVE j + 1 \in 1..Len(bytes) /\ rest[j + 1] = rest[j] - 1
      <4>1. p[j] < w[j]
        BY <3>2, <3>3, <3>5
      <4>2. j + 1 \in 1..Len(bytes) /\ w[j + 1] = w[j] /\ p[j + 1] = p[j] + 1
        BY <1>a, <4>1
      <4>3. rest[j + 1] = w[j] - (p[j] + 1)
        BY <4>2
      <4>4. QED
        BY <3>2, <3>3, <4>2, <4>3
    <3>6. QED
      BY <3>4, <3>5
  <2>2. i + rest[i] = i + w[i] - p[i]
    BY <1>7
  <2> HIDE DEF rest
  <2>3. \A j \in 1..Len(bytes) : rest[j] = 0 => j + rest[j] <= Len(bytes)
    BY <1>1
  <2>4. \A j \in 1..Len(bytes) : rest[j] = 1 => j + rest[j] <= Len(bytes)
    BY <1>1, <2>1
  <2>5. \A j \in 1..Len(bytes) : rest[j] = 2 => j + rest[j] <= Len(bytes)
    BY <1>1, <2>1, <2>4
  <2>6. \A j \in 1..Len(bytes) : rest[j] = 3 => j + rest[j] <= Len(bytes)
    BY <1>1, <2>1, <2>5
  <2>7. rest[i] \in {0, 1, 2, 3}
    BY <2>1, Zenon
  <2>8. QED
    BY <2>2, <2>3, <2>4, <2>5, <2>6, <2>7
<1>10. 1 \in 1..Len(bytes)
  BY <1>1
<1>11. n[1] = name(1) /\ n[i] = name(i) /\ p[i] = place(i) /\ w[i] = Width[name(i)]
  BY <1>6, <1>10
<1>12. QED
  BY <1>8, <1>9, <1>11 DEF name, place

LEMMA Utf8Stays ==
    ASSUME NEW bytes, PartOfText(bytes), IsUtf8(bytes),
           bytes # <<>> => bytes[1][1] # "bom"
    PROVE  ResText(bytes) = bytes
<1>1. bytes \in Seq(Byte) /\ Len(bytes) \in Nat
  BY DEF PartOfText
<1>2. PICK f \in [0..Len(TextsOf(bytes)) -> Seq(Byte)] : Accumulates(f, TextsOf(bytes))
  BY <1>1, TextsOfBytes, FlattenSeqBy
<1>3. \A i \in 1..Len(bytes) : TextAt(bytes, i) = <<bytes[i]>>
  <2>1. TAKE i \in 1..Len(bytes)
  <2>2. /\ bytes[i][2] <= i /\ i + Width[bytes[i][1]] - bytes[i][2] <= Len(bytes)
        /\ bytes[i][2] = i => bytes[1][1] = bytes[i][1]
    BY WholeCharacters
  <2>3. bytes # <<>>
    BY <1>1
  <2>4. ~(bytes[i][1] = "bom" /\ bytes[i][2] = i)
    BY <2>2, <2>3
  <2>5. PICK sum : sum = i + Width[bytes[i][1]] - bytes[i][2]
    OBVIOUS
  <2>6. bytes[i][2] \in Nat /\ Width[bytes[i][1]] \in 1..4
    <3>1. bytes[i][1] \in Char /\ bytes[i][2] \in Nat
      BY <1>1 DEF Byte
    <3>2. QED
      BY <3>1, BytesOf
  <2>7. sum \in Int
    BY <2>5, <2>6
  <2>8. ~(bytes[i][2] > i) /\ ~(sum > Len(bytes))
    BY <1>1, <2>2, <2>5, <2>6, <2>7
  <2>9. QED
    BY <2>2, <2>4, <2>5, <2>8, Zenon DEF TextAt
<1>4. /\ f[0] = <<>> /\ ResText(bytes) = f[Len(bytes)]
      /\ \A i \in 1..Len(bytes) : f[i] = f[i - 1] \o <<bytes[i]>>
  BY <1>1, <1>2, <1>3, TextsOfBytes DEF Accumulates
<1> DEFINE T == {i \in Nat : f[i] = SubSeq(bytes, 1, i)}
<1>5. 0 \in T
  BY <1>1, <1>4
<1>6. \A i \in 0..(Len(bytes) - 1) : i \in T => i + 1 \in T
  <2>1. TAKE i \in 0..(Len(bytes) - 1)
  <2>2. i + 1 \in 1..Len(bytes) /\ (i + 1) - 1 = i /\ i + 1 \in Nat
    BY <1>1
  <2>3. f[i + 1] = f[i] \o <<bytes[i + 1]>>
    BY <1>4, <2>2
  <2>4. SubSeq(bytes, 1, i + 1) = SubSeq(bytes, 1, i) \o <<bytes[i + 1]>>
    <3>1. SubSeq(bytes, 1, i + 1) = SubSeq(bytes, 1, i) \o SubSeq(bytes, i + 1, i + 1)
      BY <1>1, <2>2
    <3>2. SubSeq(bytes, i + 1, i + 1) = <<bytes[i + 1]>>
      <4>1. PICK next : next = i + 1
        OBVIOUS
      <4>n. i \in 0..Len(bytes) /\ next \in i..Len(bytes) /\ next - i = 1
        BY <1>1, <2>2, <4>1
      <4>p. /\ SubSeq(bytes, i + 1, next) \in Seq(Byte)
            /\ Len(SubSeq(bytes, i + 1, next)) = next - i
            /\ \A j \in 1..(next - i) : SubSeq(bytes, i + 1, next)[j] = bytes[i + j]
        BY <1>1, <4>n, PartOf, Zenon
      <4>2. /\ SubSeq(bytes, i + 1, i + 1) \in Seq(Byte)
            /\ Len(SubSeq(bytes, i + 1, i + 1)) = 1
            /\ \A j \in 1..1 : SubSeq(bytes, i + 1, i + 1)[j] = bytes[i + j]
        BY <4>1, <4>n, <4>p, Zenon
      <4>3. 1 \in 1..1
        OBVIOUS
      <4>4. \A x \in Seq(Byte) : Len(x) = 1 => x = <<x[1]>>
        OBVIOUS
      <4>5. SubSeq(bytes, i + 1, i + 1)[1] = bytes[i + 1]
        BY <4>2, <4>3, Zenon
      <4>6. QED
        BY <4>2, <4>4, <4>5, Zenon
    <3>3. QED
      BY <3>1, <3>2
  <2>5. QED
    BY <2>2, <2>3, <2>4
<1>7. Len(bytes) \in T
  <2> HIDE DEF T
  <2>1. Len(bytes) \in 0..Len(bytes)
    BY <1>1
  <2>2. QED
    BY <1>1, <1>5, <1>6, <2>1, InductionUpTo
<1>8. SubSeq(bytes, 1, Len(bytes)) = bytes
  BY <1>1
<1>9. QED
  BY <1>4, <1>7, <1>8

-----------------------------------------------------------------------------
(* How long the bytes of a text, or of a piece of one, are.                *)

\* A text but for half a character at its beginning or end.
PieceFormed(s) ==
    /\ s \in Seq(Unit)
    /\ \A i \in 1..Len(s) : s[i] = "lo" /\ i > 1 => s[i - 1] = "hi"

\* No shorter than in units; and longer by two if it ends within a character.
LEMMA Utf8IsNotShorter ==
    ASSUME NEW s, PieceFormed(s), Len(s) # 0
    PROVE  /\ Len(Utf8(s)) \in Nat /\ Len(Utf8(s)) >= Len(s)
           /\ s[Len(s)] = "hi" => Len(Utf8(s)) >= Len(s) + 2
<1>0. s \in Seq(Unit) /\ Len(s) \in Nat
  BY DEF PieceFormed
<1>1. PICK f \in [0..Len(s) -> Seq(Byte)], units \in [1..Len(s) -> Seq(Byte)] : Encodes(f, units, s)
  BY <1>0, Utf8By
<1>u. ASSUME NEW i \in 1..Len(s)
      PROVE  /\ s[i] \in {"one", "two", "three"} => Len(units[i]) >= 1
             /\ s[i] = "hi" => Len(units[i]) = IF i < Len(s) THEN 4 ELSE 3
             /\ s[i] = "lo" => Len(units[i]) = IF i > 1 THEN 0 ELSE 3
  BY <1>0, <1>1, BytesAt, Zenon DEF Encodes
<1>f. /\ \A i \in 0..Len(s) : Len(f[i]) \in Nat
      /\ \A i \in 1..Len(s) : Len(units[i]) \in Nat
      /\ Len(f[0]) = 0
      /\ \A i \in 1..Len(s) : Len(f[i]) = Len(f[i - 1]) + Len(units[i])
  <2>1. \A i \in 0..Len(s) : f[i] \in Seq(Byte)
    BY <1>1
  <2>2. ASSUME NEW i \in 1..Len(s)
        PROVE  Len(f[i]) = Len(f[i - 1]) + Len(units[i])
    <3>1. f[i] = f[i - 1] \o units[i]
      BY <1>1 DEF Encodes
    <3>2. f[i - 1] \in Seq(Byte) /\ units[i] \in Seq(Byte)
      <4>1. i - 1 \in 0..Len(s)
        BY <1>0
      <4>2. QED
        BY <1>1, <4>1
    <3>3. QED
      BY <3>1, <3>2
  <2>3. QED
    BY <1>1, <2>1, <2>2 DEF Encodes
<1> DEFINE T == {i \in Nat : /\ Len(f[i]) >= i
                             /\ i > 0 /\ s[i] = "hi" => Len(f[i]) >= i + 2}
<1>2. 0 \in T
  BY <1>f
<1>3. ASSUME NEW i \in 0..(Len(s) - 1), i \in T
      PROVE  i + 1 \in T
  <2>1. i + 1 \in 1..Len(s) /\ (i + 1) - 1 = i /\ i \in 0..Len(s) /\ i \in Nat /\ i + 1 \in Nat
    BY <1>0
  <2>2. /\ Len(f[i + 1]) = Len(f[i]) + Len(units[i + 1])
        /\ Len(f[i]) \in Nat /\ Len(units[i + 1]) \in Nat
        /\ Len(f[i]) >= i /\ (i > 0 /\ s[i] = "hi" => Len(f[i]) >= i + 2)
    BY <1>3, <1>f, <2>1
  <2>3. CASE s[i + 1] \in {"one", "two", "three"}
    <3>1. Len(units[i + 1]) >= 1 /\ s[i + 1] # "hi"
      BY <1>u, <2>1, <2>3
    <3>2. QED
      BY <2>1, <2>2, <3>1
  <2>4. CASE s[i + 1] = "hi"
    <3>1. Len(units[i + 1]) = 3 \/ Len(units[i + 1]) = 4
      BY <1>u, <2>1, <2>4, Zenon
    <3>2. \A x, y \in Nat : x >= i /\ (y = 3 \/ y = 4) => x + y >= i + 1 /\ x + y >= (i + 1) + 2
      BY <2>1
    <3>3. Len(f[i + 1]) >= i + 1 /\ Len(f[i + 1]) >= (i + 1) + 2
      BY <2>2, <3>1, <3>2, Zenon
    <3>4. QED
      BY <2>1, <3>3
  <2>5. CASE s[i + 1] = "lo"
    <3>1. CASE i = 0
      <4>1. Len(units[i + 1]) = 3 /\ s[i + 1] # "hi"
        BY <1>u, <2>1, <2>5, <3>1
      <4>2. QED
        BY <2>1, <2>2, <3>1, <4>1
    <3>2. CASE i # 0
      <4>1. s[i] = "hi" /\ s[i + 1] # "hi"
        BY <2>1, <2>5, <3>2 DEF PieceFormed
      <4>2. QED
        BY <2>1, <2>2, <3>2, <4>1
    <3>3. QED
      BY <3>1, <3>2
  <2>6. s[i + 1] \in Unit
    BY <1>0, <2>1
  <2>7. QED
    BY <2>3, <2>4, <2>5, <2>6 DEF Unit
<1>4. Len(s) \in T
  <2> HIDE DEF T
  <2>1. Len(s) \in 0..Len(s)
    BY <1>0
  <2>2. QED
    BY <1>0, <1>2, <1>3, <2>1, InductionUpTo
<1>5. Utf8(s) = f[Len(s)] /\ Len(f[Len(s)]) \in Nat
  BY <1>0, <1>1, <1>f DEF Encodes
<1>6. QED
  BY <1>0, <1>4, <1>5

LEMMA LengthsAdd == \A x, y \in Seq(Byte) : Len(x \o y) = Len(x) + Len(y)
OBVIOUS

\* One byte for each unit, if they are all of one byte.
LEMMA OnesAreBytes ==
    ASSUME NEW s \in Seq(Unit), \A i \in 1..Len(s) : s[i] = "one"
    PROVE  Len(Utf8(s)) = Len(s)
<1>0. Len(s) \in Nat
  OBVIOUS
<1>1. PICK f \in [0..Len(s) -> Seq(Byte)], units \in [1..Len(s) -> Seq(Byte)] : Encodes(f, units, s)
  BY Utf8By
<1> DEFINE T == {i \in Nat : Len(f[i]) = i}
<1>2. 0 \in T
  BY <1>1 DEF Encodes
<1>3. ASSUME NEW i \in 0..(Len(s) - 1), i \in T
      PROVE  i + 1 \in T
  <2>1. i + 1 \in 1..Len(s) /\ (i + 1) - 1 = i /\ i \in 0..Len(s) /\ i + 1 \in Nat
    BY <1>0
  <2>2. /\ f[i + 1] = f[i] \o units[i + 1]
        /\ f[i] \in Seq(Byte) /\ units[i + 1] \in Seq(Byte)
        /\ Len(f[i]) = i
    BY <1>1, <1>3, <2>1 DEF Encodes
  <2>l. Len(units[i + 1]) = 1
    <3>1. s[i + 1] = "one" /\ units[i + 1] = Utf8At(s, i + 1)
      BY <1>1, <2>1 DEF Encodes
    <3>2. Len(Utf8At(s, i + 1)) = 1
      BY <2>1, <3>1, BytesAt, Zenon
    <3>3. QED
      BY <3>1, <3>2, Zenon
  <2>3. Len(f[i + 1]) = i + 1
    <3>1. Len(f[i] \o units[i + 1]) = Len(f[i]) + Len(units[i + 1])
      BY <2>2, LengthsAdd, Zenon
    <3>2. QED
      BY <2>2, <2>l, <3>1, Zenon
  <2>4. QED
    BY <2>1, <2>3
<1>4. Len(s) \in T
  <2> HIDE DEF T
  <2>1. Len(s) \in 0..Len(s)
    BY <1>0
  <2>2. QED
    BY <1>0, <1>2, <1>3, <2>1, InductionUpTo
<1>5. QED
  BY <1>1, <1>4 DEF Encodes

-----------------------------------------------------------------------------
(* The client's pieces.                                                    *)

\* The text of WellFormed by its places.
LEMMA WellFormedAt ==
    ASSUME NEW s, WellFormed(s)
    PROVE  /\ s \in Seq(Unit) /\ Len(s) \in Nat
           /\ \A i \in 1..Len(s) : s[i] = "lo" => i > 1 /\ s[i - 1] = "hi"
           /\ \A i \in 1..Len(s) : s[i] = "hi" => i < Len(s) /\ s[i + 1] = "lo"
<1>1. s \in Seq(Unit)
  BY DEF WellFormed
<1>2. DOMAIN s = 1..Len(s) /\ Len(s) \in Nat
  BY <1>1
<1>3. \A i \in 1..Len(s) : /\ s[i] = "lo" => i > 1 /\ s[i - 1] = "hi"
                           /\ s[i] = "hi" => i < Len(s) /\ s[i + 1] = "lo"
  BY <1>2, Zenon DEF WellFormed
<1>4. QED
  BY <1>1, <1>2, <1>3

LEMMA JoiningIsAssociative ==
    \A x, y, z \in Seq(Byte) : (x \o y) \o z = x \o (y \o z)
BY ConcatAssociative

\* What a piece of a text is.
LEMMA PieceOfText ==
    ASSUME NEW s, WellFormed(s), NEW a \in 0..Len(s), NEW b \in a..Len(s)
    PROVE  /\ PieceFormed(SubSeq(s, a + 1, b))
           /\ SubSeq(s, a + 1, b) \in Seq(Unit)
           /\ Len(SubSeq(s, a + 1, b)) = b - a
           /\ \A j \in 1..(b - a) : SubSeq(s, a + 1, b)[j] = s[a + j]
<1> DEFINE piece == SubSeq(s, a + 1, b)
<1>1. /\ s \in Seq(Unit) /\ Len(s) \in Nat
      /\ \A i \in 1..Len(s) : s[i] = "lo" => i > 1 /\ s[i - 1] = "hi"
  BY WellFormedAt
<1>2. /\ piece \in Seq(Unit) /\ Len(piece) = b - a
      /\ \A j \in 1..(b - a) : piece[j] = s[a + j]
  BY <1>1, PartOf
<1> HIDE DEF piece
<1>3. ASSUME NEW j \in 1..Len(piece), piece[j] = "lo", j > 1
      PROVE  piece[j - 1] = "hi"
  <2>1. /\ j - 1 \in 1..(b - a) /\ j \in 1..(b - a)
        /\ a + j \in 1..Len(s) /\ (a + j) - 1 = a + (j - 1)
    BY <1>1, <1>2, <1>3
  <2>2. QED
    BY <1>1, <1>2, <1>3, <2>1
<1>4. PieceFormed(piece)
  BY <1>2, <1>3 DEF PieceFormed
<1>5. QED
  BY <1>2, <1>4 DEF piece

\* If no character is cut, the bytes of the pieces are those of the text.
LEMMA PiecesOfBytes ==
    ASSUME NEW s, WellFormed(s), NEW n \in Nat \ {0},
           NEW end \in [0..Len(Cut(s, n)) -> 0..Len(s)],
           PiecesEnd(end, Cut(s, n), s, n),
           \A i \in 1..(Len(Cut(s, n)) - 1) : s[end[i]] # "hi"
    PROVE  FlattenSeq([i \in DOMAIN Cut(s, n) |-> Utf8(Cut(s, n)[i])]) = Utf8(s)
<1> DEFINE cut == Cut(s, n)
           pieces == [i \in DOMAIN cut |-> Utf8(cut[i])]
<1>s. /\ s \in Seq(Unit) /\ Len(s) \in Nat
      /\ \A i \in 1..Len(s) : s[i] = "lo" => i > 1 /\ s[i - 1] = "hi"
  BY WellFormedAt
<1>c. cut \in Seq(Seq(Unit)) /\ Len(cut) \in Nat /\ DOMAIN cut = 1..Len(cut)
  BY <1>s, CutAt
<1>l. Len(cut) \in Nat
  BY <1>c
<1>e. /\ end[0] = 0 /\ end[Len(cut)] = Len(s)
      /\ \A i \in 1..Len(cut) : /\ end[i - 1] < end[i]
                                /\ cut[i] = SubSeq(s, end[i - 1] + 1, end[i])
      /\ \A i \in 0..Len(cut) : end[i] \in 0..Len(s)
      /\ \A i \in 1..(Len(cut) - 1) : s[end[i]] # "hi"
  BY DEF PiecesEnd
<1> HIDE DEF cut
<1>1. /\ pieces \in Seq(Seq(Byte)) /\ Len(pieces) = Len(cut)
      /\ \A i \in 1..Len(cut) : pieces[i] = Utf8(cut[i])
  <2>1. \A i \in 1..Len(cut) : Utf8(cut[i]) \in Seq(Byte)
    BY <1>c, Utf8By
  <2>2. QED
    BY <1>c, <2>1
<1> HIDE DEF pieces
<1>2. PICK f \in [0..Len(cut) -> Seq(Byte)] : Accumulates(f, pieces)
  BY <1>1, FlattenSeqBy
<1>3. PICK g \in [0..Len(s) -> Seq(Byte)], units \in [1..Len(s) -> Seq(Byte)] : Encodes(g, units, s)
  BY <1>s, Utf8By
<1>4. ASSUME NEW i \in 1..Len(cut)
      PROVE  g[end[i]] = g[end[i - 1]] \o pieces[i]
  <2> DEFINE piece == cut[i]
             a == end[i - 1]
             b == end[i]
  <2>1. a \in 0..Len(s) /\ b \in a..Len(s) /\ a < b /\ piece = SubSeq(s, a + 1, b)
    <3>1. i - 1 \in 0..Len(cut) /\ i \in 0..Len(cut)
      BY <1>c
    <3>2. a \in 0..Len(s) /\ b \in 0..Len(s) /\ a < b
      BY <1>e, <3>1
    <3>3. piece = SubSeq(s, a + 1, b)
      BY <1>e
    <3>4. b \in a..Len(s)
      <4> HIDE DEF a, b
      <4>1. QED
        BY <1>s, <3>2
    <3>5. QED
      BY <3>2, <3>3, <3>4
  <2>2. i < Len(cut) => s[b] # "hi"
    BY <1>c, <1>e
  <2>3. i = Len(cut) => b = Len(s)
    BY <1>e
  <2>4. i # 1 => a # 0 /\ s[a] # "hi"
    <3>1. ASSUME i # 1
          PROVE  i - 1 \in 1..(Len(cut) - 1) /\ i - 1 \in 1..Len(cut) /\ (i - 1) - 1 \in 0..Len(cut)
      BY <1>c, <3>1
    <3>2. ASSUME i # 1
          PROVE  end[(i - 1) - 1] < a /\ end[(i - 1) - 1] \in 0..Len(s) /\ a \in 0..Len(s)
      <4>1. \A k \in 1..Len(cut) : /\ end[k - 1] < end[k]
                                   /\ end[k - 1] \in 0..Len(s) /\ end[k] \in 0..Len(s)
        <5>1. \A k \in 1..Len(cut) : k - 1 \in 0..Len(cut) /\ k \in 0..Len(cut)
          BY <1>l
        <5>2. QED
          BY <1>e, <5>1
      <4>2. i - 1 \in 1..Len(cut)
        BY <1>l, <3>2
      <4>3. QED
        BY <4>1, <4>2, Zenon
    <3>3. i # 1 => s[a] # "hi"
      BY <1>e, <3>1
    <3>4. QED
      <4> HIDE DEF a
      <4>1. QED
        BY <1>s, <3>2, <3>3
  <2>5. i = 1 => a = 0
    BY <1>e
  <2>p. pieces[i] = Utf8(piece)
    BY <1>1
  <2> HIDE DEF piece, a, b
  <2>6. /\ piece \in Seq(Unit) /\ Len(piece) = b - a
        /\ \A j \in 1..(b - a) : piece[j] = s[a + j]
    BY <2>1, PieceOfText, Zenon
  <2>7. ASSUME NEW j \in 1..(b - a)
        PROVE  Utf8At(piece, j) = Utf8At(s, a + j)
    <3>1. a + j \in 1..Len(s) /\ piece[j] = s[a + j] /\ s[a + j] \in Unit
      BY <1>s, <2>1, <2>6
    <3>2. CASE s[a + j] \in {"one", "two", "three"}
      BY <3>1, <3>2 DEF Utf8At
    <3>3. CASE s[a + j] = "hi"
      <4>1. j < b - a <=> a + j < Len(s)
        <5>1. CASE j < b - a
          BY <1>s, <2>1, <5>1
        <5>2. CASE j = b - a
          <6>1. a + j = b
            BY <1>s, <2>1, <5>2
          <6>2. i = Len(cut)
            <7>1. s[b] = "hi"
              BY <3>3, <6>1
            <7>2. QED
              BY <1>l, <2>2, <7>1
          <6>3. QED
            BY <1>s, <2>1, <2>3, <5>2, <6>1, <6>2
        <5>3. QED
          BY <2>1, <5>1, <5>2
      <4>2. QED
        BY <2>6, <3>1, <3>3, <4>1 DEF Utf8At
    <3>4. CASE s[a + j] = "lo"
      <4>1. j > 1 <=> a + j > 1
        <5>1. CASE j > 1
          BY <1>s, <2>1, <5>1
        <5>2. CASE j = 1
          <6>1. i = 1
            <7>1. SUFFICES ASSUME i # 1 PROVE FALSE
              OBVIOUS
            <7>2. (a + j) - 1 = a
              BY <2>1, <5>2
            <7>3. QED
              BY <1>s, <2>4, <3>1, <3>4, <7>1, <7>2
          <6>2. QED
            BY <2>5, <5>2, <6>1
        <5>3. QED
          BY <5>1, <5>2
      <4>2. QED
        BY <3>1, <3>4, <4>1 DEF Utf8At
    <3>5. QED
      BY <3>1, <3>2, <3>3, <3>4 DEF Unit
  <2>8. PICK h \in [0..Len(piece) -> Seq(Byte)], own \in [1..Len(piece) -> Seq(Byte)] :
           Encodes(h, own, piece)
    BY <2>6, Utf8By
  <2> DEFINE T == {j \in Nat : g[a + j] = g[a] \o h[j]}
  <2>9. 0 \in T
    <3>1. g[a] \in Seq(Byte) /\ h[0] = <<>> /\ a + 0 = a
      <4>1. h[0] = <<>>
        BY <2>8 DEF Encodes
      <4>2. g[a] \in Seq(Byte)
        BY <1>3, <2>1
      <4>3. a + 0 = a
        BY <2>1
      <4>4. QED
        BY <4>1, <4>2, <4>3
    <3>2. g[a] \o <<>> = g[a]
      BY <3>1
    <3>3. QED
      BY <3>1, <3>2
  <2>10. ASSUME NEW j \in 0..(Len(piece) - 1), j \in T
         PROVE  j + 1 \in T
    <3>1. /\ j + 1 \in 1..Len(piece) /\ (j + 1) - 1 = j /\ j \in 0..Len(piece) /\ j + 1 \in Nat
          /\ a + (j + 1) \in 1..Len(s) /\ (a + (j + 1)) - 1 = a + j /\ a + j \in 0..Len(s)
      BY <1>s, <2>1, <2>6
    <3>2. /\ g[a + (j + 1)] = g[a + j] \o units[a + (j + 1)]
          /\ h[j + 1] = h[j] \o own[j + 1]
          /\ g[a + j] = g[a] \o h[j]
      BY <1>3, <2>8, <2>10, <3>1 DEF Encodes
    <3>3. units[a + (j + 1)] = own[j + 1]
      <4>1. j + 1 \in 1..(b - a)
        BY <2>6, <3>1
      <4>2. QED
        BY <1>3, <2>7, <2>8, <3>1, <4>1, Zenon DEF Encodes
    <3>4. g[a] \in Seq(Byte) /\ h[j] \in Seq(Byte) /\ own[j + 1] \in Seq(Byte)
      BY <2>1, <3>1
    <3>5. g[a + (j + 1)] = g[a] \o h[j + 1]
      <4>1. (g[a] \o h[j]) \o own[j + 1] = g[a] \o (h[j] \o own[j + 1])
        BY <3>4, JoiningIsAssociative, Zenon
      <4>2. QED
        BY <3>2, <3>3, <4>1, Zenon
    <3>6. QED
      BY <3>1, <3>5
  <2>11. Len(piece) \in T
    <3> HIDE DEF T
    <3>1. Len(piece) \in Nat /\ Len(piece) \in 0..Len(piece)
      BY <2>6
    <3>2. QED
      BY <2>9, <2>10, <3>1, InductionUpTo
  <2>12. g[a + (b - a)] = g[a] \o Utf8(piece)
    BY <2>6, <2>8, <2>11 DEF Encodes
  <2>13. a + (b - a) = b
    BY <1>s, <2>1
  <2>14. QED
    BY <2>12, <2>13, <2>p DEF a, b
<1> DEFINE T == {i \in Nat : f[i] = g[end[i]]}
<1>5. 0 \in T
  BY <1>2, <1>3, <1>e DEF Accumulates, Encodes
<1>6. ASSUME NEW i \in 0..(Len(cut) - 1), i \in T
      PROVE  i + 1 \in T
  <2>1. i + 1 \in 1..Len(cut) /\ (i + 1) - 1 = i /\ i + 1 \in Nat
    BY <1>c
  <2>2. /\ f[i + 1] = f[i] \o pieces[i + 1] /\ f[i] = g[end[i]]
        /\ g[end[i + 1]] = g[end[i]] \o pieces[i + 1]
    BY <1>1, <1>2, <1>4, <1>6, <2>1 DEF Accumulates
  <2>3. QED
    BY <2>1, <2>2
<1>7. Len(cut) \in T
  <2> HIDE DEF T
  <2>1. Len(cut) \in 0..Len(cut)
    BY <1>c
  <2>2. QED
    BY <1>c, <1>5, <1>6, <2>1, InductionUpTo
<1>8. FlattenSeq(pieces) = Utf8(s)
  BY <1>1, <1>2, <1>3, <1>7, <1>e DEF Accumulates, Encodes
<1>9. QED
  BY <1>8 DEF pieces, cut

-----------------------------------------------------------------------------
(* Ciphertexts.                                                            *)

LEMMA PartOfFirst ==
    ASSUME NEW S, NEW x \in Seq(S), NEW y \in Seq(S)
    PROVE  /\ Len(x \o y) = Len(x) + Len(y)
           /\ \A a \in 0..Len(x) : \A b \in a..Len(x) : SubSeq(x \o y, a + 1, b) = SubSeq(x, a + 1, b)
OBVIOUS

LEMMA PartOfSecond ==
    ASSUME NEW S, NEW x \in Seq(S), NEW y \in Seq(S)
    PROVE  SubSeq(x \o y, Len(x) + 1, Len(x) + Len(y)) = y
OBVIOUS

LEMMA WholeDivision ==
    ASSUME NEW m \in Nat, NEW n \in Nat \ {0}
    PROVE  (m * n + n - 1) \div n = m
OBVIOUS

\* What was put together from parts of one length is cut into them again.
LEMMA CutOfEqual ==
    ASSUME NEW S, NEW n \in Nat \ {0}, NEW seqs \in Seq(Seq(S)),
           \A i \in 1..Len(seqs) : Len(seqs[i]) = n
    PROVE  Cut(FlattenSeq(seqs), n) = seqs
<1> DEFINE m == Len(seqs)
<1>m. m \in Nat /\ \A i \in 1..m : seqs[i] \in Seq(S) /\ Len(seqs[i]) = n
  OBVIOUS
<1>s. seqs = [i \in 1..m |-> seqs[i]]
  OBVIOUS
<1> HIDE DEF m
<1>1. PICK f \in [0..m -> Seq(S)] : Accumulates(f, seqs)
  BY FlattenSeqBy DEF m
<1>f. /\ f[0] = <<>> /\ FlattenSeq(seqs) = f[m]
      /\ \A i \in 1..m : f[i] = f[i - 1] \o seqs[i]
  BY <1>1 DEF Accumulates, m
<1> DEFINE T == {i \in Nat : /\ Len(f[i]) = i * n
                             /\ \A j \in 1..i : SubSeq(f[i], (j - 1) * n + 1, j * n) = seqs[j]}
<1>2. 0 \in T
  BY <1>f
<1>3. ASSUME NEW i \in 0..(m - 1), i \in T
      PROVE  i + 1 \in T
  <2>1. i + 1 \in 1..m /\ (i + 1) - 1 = i /\ i \in 0..m /\ i \in Nat /\ i + 1 \in Nat
    BY <1>m
  <2> DEFINE x == f[i]
             y == seqs[i + 1]
  <2>2. f[i + 1] = x \o y /\ x \in Seq(S) /\ y \in Seq(S) /\ Len(y) = n
    BY <1>m, <1>1, <1>f, <2>1
  <2>3. Len(x) = i * n /\ \A j \in 1..i : SubSeq(x, (j - 1) * n + 1, j * n) = seqs[j]
    BY <1>3
  <2>y. y = seqs[i + 1]
    OBVIOUS
  <2> HIDE DEF x, y
  <2>4. (i + 1) * n = i * n + n /\ i * n \in Nat
    BY <2>1
  <2>5. Len(f[i + 1]) = (i + 1) * n
    <3>1. Len(x \o y) = Len(x) + Len(y)
      BY <2>2, PartOfFirst, Zenon
    <3>2. QED
      BY <2>2, <2>3, <2>4, <3>1, Zenon
  <2>6. ASSUME NEW j \in 1..i
        PROVE  SubSeq(f[i + 1], (j - 1) * n + 1, j * n) = seqs[j]
    <3>1. (j - 1) * n \in 0..Len(x) /\ j * n \in ((j - 1) * n)..Len(x)
      <4>1. /\ j - 1 \in Nat /\ j \in Nat /\ i - j \in Nat
            /\ i * n = j * n + (i - j) * n /\ j * n = (j - 1) * n + n
        BY <2>1
      <4>2. j * n \in Nat /\ (j - 1) * n \in Nat /\ (i - j) * n \in Nat
        BY <4>1
      <4>3. (j - 1) * n <= j * n /\ j * n <= i * n
        BY <4>1, <4>2
      <4>4. QED
        BY <2>3, <2>4, <4>2, <4>3
    <3>2. SubSeq(x \o y, (j - 1) * n + 1, j * n) = SubSeq(x, (j - 1) * n + 1, j * n)
      <4>1. \A a \in 0..Len(x) : \A b \in a..Len(x) : SubSeq(x \o y, a + 1, b) = SubSeq(x, a + 1, b)
        BY <2>2, PartOfFirst, Zenon
      <4>2. QED
        BY <3>1, <4>1, Zenon
    <3>3. QED
      BY <2>2, <2>3, <3>2, Zenon
  <2>7. SubSeq(f[i + 1], i * n + 1, (i + 1) * n) = seqs[i + 1]
    <3>1. SubSeq(x \o y, Len(x) + 1, Len(x) + Len(y)) = y
      BY <2>2, PartOfSecond
    <3>2. QED
      BY <2>2, <2>3, <2>4, <2>y, <3>1, Zenon
  <2>8. \A j \in 1..(i + 1) : j \in 1..i \/ (j = i + 1 /\ j - 1 = i)
    BY <2>1
  <2>9. \A j \in 1..(i + 1) : SubSeq(f[i + 1], (j - 1) * n + 1, j * n) = seqs[j]
    BY <2>6, <2>7, <2>8, Zenon
  <2>10. QED
    BY <2>1, <2>5, <2>9
<1>4. m \in T
  <2> HIDE DEF T
  <2>1. m \in 0..m
    BY <1>m
  <2>2. QED
    BY <1>m, <1>2, <1>3, <2>1, InductionUpTo
<1> DEFINE all == FlattenSeq(seqs)
<1>5. Len(all) = m * n /\ \A j \in 1..m : SubSeq(all, (j - 1) * n + 1, j * n) = seqs[j]
  BY <1>4, <1>f
<1> HIDE DEF all
<1>6. (Len(all) + n - 1) \div n = m
  <2>1. (m * n + n - 1) \div n = m
    BY <1>m, WholeDivision, Zenon
  <2>2. QED
    BY <1>5, <2>1, Zenon
<1>7. \A j \in 1..m : (IF j * n < Len(all) THEN j * n ELSE Len(all)) = j * n
  <2>1. TAKE j \in 1..m
  <2>2. m - j \in Nat /\ m * n = j * n + (m - j) * n
    BY <1>m
  <2>3. j * n \in Nat /\ (m - j) * n \in Nat
    BY <1>m, <2>2
  <2>4. QED
    BY <1>5, <2>2, <2>3
<1>8. Cut(all, n) = [j \in 1..m |-> SubSeq(all, (j - 1) * n + 1,
                                            IF j * n < Len(all) THEN j * n ELSE Len(all))]
  BY <1>6, Zenon DEF Cut
<1>9. Cut(all, n) = [j \in 1..m |-> seqs[j]]
  BY <1>5, <1>7, <1>8, Zenon
<1>10. QED
  BY <1>9, <1>s DEF all

CipherByte(k) == [key : {k}, of : Seq(Byte), place : Nat]

LEMMA CiphertextOf ==
    ASSUME NEW k, k.size \in Nat \ {0}, NEW piece \in Seq(Byte)
    PROVE  /\ Ciphertext(k, piece) \in Seq(CipherByte(k))
           /\ Len(Ciphertext(k, piece)) = k.size
           /\ Ciphertext(k, piece)[1].of = piece
           /\ Ciphertext(k, piece)[1].key = k
<1>1. Ciphertext(k, piece) \in [1..k.size -> CipherByte(k)]
  BY DEF Ciphertext, CipherByte
<1>2. 1 \in 1..k.size
  OBVIOUS
<1>3. Ciphertext(k, piece)[1] = [key |-> k, of |-> piece, place |-> 1]
  BY <1>2 DEF Ciphertext
<1> HIDE DEF Ciphertext
<1>4. QED
  BY <1>1, <1>3

\* Only bytes of the key come out, and with the key everything comes back.
LEMMA EncryptedThenDecrypted ==
    ASSUME NEW k, k.size \in Nat \ {0}, NEW pieces \in Seq(Seq(Byte))
    PROVE  /\ Encrypted(k, pieces) \in Seq(CipherByte(k))
           /\ Decryptable(k, Cut(Encrypted(k, pieces), k.size))
           /\ Decrypted(Cut(Encrypted(k, pieces), k.size)) = FlattenSeq(pieces)
<1> DEFINE parts == [i \in 1..Len(pieces) |-> Ciphertext(k, pieces[i])]
<1>p. /\ Len(pieces) \in Nat /\ DOMAIN pieces = 1..Len(pieces)
      /\ \A i \in 1..Len(pieces) : pieces[i] \in Seq(Byte)
      /\ pieces = [i \in 1..Len(pieces) |-> pieces[i]]
  OBVIOUS
<1>1. \A i \in 1..Len(pieces) : /\ Ciphertext(k, pieces[i]) \in Seq(CipherByte(k))
                                /\ Len(Ciphertext(k, pieces[i])) = k.size
                                /\ Ciphertext(k, pieces[i])[1].of = pieces[i]
  BY <1>p, CiphertextOf
<1>2. /\ parts \in Seq(Seq(CipherByte(k))) /\ Len(parts) = Len(pieces)
      /\ DOMAIN parts = 1..Len(pieces)
  BY <1>p, <1>1
<1>3. \A i \in 1..Len(pieces) : parts[i] = Ciphertext(k, pieces[i])
  OBVIOUS
<1>4. Encrypted(k, pieces) = FlattenSeq(parts)
  BY <1>p, Zenon DEF Encrypted
<1> HIDE DEF parts
<1>5. \A i \in 1..Len(pieces) : Len(parts[i]) = k.size /\ parts[i][1].of = pieces[i]
  BY <1>1, <1>3
<1>6. Cut(Encrypted(k, pieces), k.size) = parts
  BY <1>2, <1>4, <1>5, CutOfEqual
<1>7. Encrypted(k, pieces) \in Seq(CipherByte(k))
  <2>1. PICK f \in [0..Len(parts) -> Seq(CipherByte(k))] : Accumulates(f, parts)
    BY <1>2, FlattenSeqBy
  <2>2. Len(parts) \in 0..Len(parts)
    BY <1>p, <1>2
  <2>3. QED
    BY <1>4, <2>1, <2>2 DEF Accumulates
<1>8. Decryptable(k, parts)
  <2>1. \A i \in 1..Len(pieces) : parts[i] = Ciphertext(k, parts[i][1].of)
    BY <1>3, <1>5, Zenon
  <2>2. QED
    BY <1>2, <2>1, Zenon DEF Decryptable, ToSet
<1>9. Decrypted(parts) = FlattenSeq(pieces)
  <2>1. [i \in 1..Len(pieces) |-> parts[i][1].of] = [i \in 1..Len(pieces) |-> pieces[i]]
    BY <1>5, Zenon
  <2>2. [i \in DOMAIN parts |-> parts[i][1].of] = pieces
    BY <1>p, <1>2, <2>1, Zenon
  <2>3. QED
    BY <2>2, Zenon DEF Decrypted
<1>10. QED
  BY <1>6, <1>7, <1>8, <1>9

-----------------------------------------------------------------------------
(* The exchange.                                                           *)

LEMMA KeySizes ==
    ASSUME NEW k \in ClientKey \cup {MirrorKey}
    PROVE  k.size \in Nat \ {0} /\ MaxChunkSize(k) \in Nat \ {0}
BY ExchangeConstants DEF MaxChunkSize

\* The bytes of each piece that the client cuts off a text.
TextPieces(s, n) == [i \in DOMAIN Cut(s, n) |-> Utf8(Cut(s, n)[i])]

LEMMA TextPiecesType ==
    ASSUME NEW s \in Seq(Unit), NEW n \in Nat \ {0}
    PROVE  /\ TextPieces(s, n) \in Seq(Seq(Byte))
           /\ Len(TextPieces(s, n)) = Len(Cut(s, n)) /\ Len(Cut(s, n)) \in Nat
           /\ \A i \in 1..Len(Cut(s, n)) : TextPieces(s, n)[i] = Utf8(Cut(s, n)[i])
<1> DEFINE cut == Cut(s, n)
<1>1. cut \in Seq(Seq(Unit))
  BY CutAt
<1> HIDE DEF cut
<1>2. Len(cut) \in Nat /\ DOMAIN cut = 1..Len(cut)
  BY <1>1
<1>3. \A i \in 1..Len(cut) : Utf8(cut[i]) \in Seq(Byte)
  BY <1>1, <1>2, Utf8By
<1> DEFINE pieces == [i \in 1..Len(cut) |-> Utf8(cut[i])]
<1>4. /\ pieces \in Seq(Seq(Byte)) /\ Len(pieces) = Len(cut)
      /\ \A i \in 1..Len(cut) : pieces[i] = Utf8(cut[i])
  BY <1>2, <1>3
<1>5. pieces = TextPieces(s, n)
  BY <1>2, Zenon DEF TextPieces, cut
<1> HIDE DEF pieces
<1>6. QED
  BY <1>2, <1>4, <1>5 DEF cut

\* A piece that ends within a character is full, and its bytes are two more.
LEMMA FittingPiecesAreWhole ==
    ASSUME NEW s, WellFormed(s), NEW n \in Nat \ {0},
           \A i \in 1..Len(Cut(s, n)) : Len(TextPieces(s, n)[i]) <= n
    PROVE  FlattenSeq(TextPieces(s, n)) = Utf8(s)
<1> DEFINE cut == Cut(s, n)
<1>s. s \in Seq(Unit) /\ Len(s) \in Nat
  BY WellFormedAt
<1>c. Len(cut) \in Nat
  BY <1>s, TextPiecesType
<1>1. PICK end \in [0..Len(cut) -> 0..Len(s)] : PiecesEnd(end, cut, s, n)
  BY <1>s, CutAt
<1>2. \A i \in 1..Len(cut) : Len(Utf8(cut[i])) <= n
  BY <1>s, TextPiecesType
<1> HIDE DEF cut
<1>3. ASSUME NEW i \in 1..(Len(cut) - 1), s[end[i]] = "hi"
      PROVE  FALSE
  <2>1. /\ i \in 1..Len(cut) /\ i + 1 \in 1..Len(cut) /\ (i + 1) - 1 = i
        /\ i - 1 \in 0..Len(cut) /\ i \in 0..Len(cut) /\ i + 1 \in 0..Len(cut)
    BY <1>c
  <2> DEFINE a == end[i - 1]
             b == end[i]
             piece == SubSeq(s, a + 1, b)
  <2>2. a \in 0..Len(s) /\ b \in 0..Len(s) /\ end[i + 1] \in 0..Len(s)
    BY <2>1
  <2>3. /\ a < b /\ b < end[i + 1]
        /\ b = a + n \/ b = Len(s)
        /\ cut[i] = piece
    BY <1>1, <2>1 DEF PiecesEnd
  <2>h. s[b] = "hi" /\ Len(Utf8(piece)) <= n
    BY <1>2, <1>3, <2>1, <2>3
  <2> HIDE DEF a, b
  <2>4. b \in a..Len(s) /\ b - a = n /\ b - a \in 1..(b - a) /\ a + (b - a) = b
    BY <1>s, <2>2, <2>3
  <2>5. /\ PieceFormed(piece) /\ Len(piece) = n /\ piece[b - a] = s[a + (b - a)]
    BY <2>2, <2>4, PieceOfText, Zenon
  <2> HIDE DEF piece
  <2>6. Len(piece) # 0 /\ piece[Len(piece)] = "hi"
    BY <2>4, <2>5, <2>h
  <2>7. Len(Utf8(piece)) \in Nat /\ Len(Utf8(piece)) >= n + 2
    BY <2>5, <2>6, Utf8IsNotShorter, Zenon
  <2>8. \A x \in Nat : ~(x >= n + 2 /\ x <= n)
    OBVIOUS
  <2>9. QED
    BY <2>7, <2>8, <2>h, Zenon
<1>4. \A i \in 1..(Len(cut) - 1) : s[end[i]] # "hi"
  BY <1>3
<1>5. FlattenSeq([i \in DOMAIN Cut(s, n) |-> Utf8(Cut(s, n)[i])]) = Utf8(s)
  BY <1>1, <1>4, PiecesOfBytes DEF cut
<1>6. QED
  BY <1>5 DEF TextPieces

\* What fits into pieces: text of one-byte characters, and what is not longer in bytes
\* than one piece.
LEMMA PiecesFit ==
    ASSUME NEW s, WellFormed(s), NEW n \in Nat \ {0},
           \/ \A j \in 1..Len(s) : s[j] = "one"
           \/ Len(Utf8(s)) <= n
    PROVE  \A i \in 1..Len(Cut(s, n)) : Len(TextPieces(s, n)[i]) <= n
<1> DEFINE cut == Cut(s, n)
<1>s. s \in Seq(Unit) /\ Len(s) \in Nat
  BY WellFormedAt
<1>c. Len(cut) \in Nat /\ cut \in Seq(Seq(Unit))
  BY <1>s, TextPiecesType, CutAt
<1>l. Len(cut) \in Nat
  BY <1>c
<1>1. PICK end \in [0..Len(cut) -> 0..Len(s)] : PiecesEnd(end, cut, s, n)
  BY <1>s, CutAt
<1>2. \A i \in 1..Len(cut) : TextPieces(s, n)[i] = Utf8(cut[i])
  BY <1>s, TextPiecesType
<1> HIDE DEF cut
<1>3. SUFFICES ASSUME NEW i \in 1..Len(cut) PROVE Len(Utf8(cut[i])) <= n
  BY <1>2 DEF cut
<1> DEFINE a == end[i - 1]
           b == end[i]
           piece == SubSeq(s, a + 1, b)
<1>4. /\ i - 1 \in 0..Len(cut) /\ i \in 0..Len(cut)
      /\ i < Len(cut) => i + 1 \in 1..Len(cut) /\ i + 1 \in 0..Len(cut) /\ (i + 1) - 1 = i
      /\ i > 1 => i - 1 \in 1..Len(cut) /\ (i - 1) - 1 \in 0..Len(cut)
  BY <1>l
<1>5. /\ a \in 0..Len(s) /\ b \in 0..Len(s) /\ a < b /\ b <= a + n
      /\ cut[i] = piece
  BY <1>1, <1>4 DEF PiecesEnd
<1>i. \A j \in 1..Len(cut) : /\ end[j - 1] < end[j] /\ (end[j] = end[j - 1] + n \/ end[j] = Len(s))
  BY <1>1 DEF PiecesEnd
<1>z. end[0] = 0 /\ end[Len(cut)] = Len(s)
  BY <1>1 DEF PiecesEnd
<1>6. CASE \A j \in 1..Len(s) : s[j] = "one"
  <2> HIDE DEF a, b
  <2>1. b \in a..Len(s) /\ Len(s) \in Nat
    BY <1>s, <1>5
  <2>2. /\ piece \in Seq(Unit) /\ Len(piece) = b - a
        /\ \A j \in 1..(b - a) : piece[j] = s[a + j]
    BY <1>5, <2>1, PieceOfText, Zenon
  <2>3. \A j \in 1..(b - a) : a + j \in 1..Len(s)
    BY <1>5, <2>1
  <2>4. \A j \in 1..Len(piece) : piece[j] = "one"
    BY <1>6, <2>2, <2>3, Zenon
  <2> HIDE DEF piece
  <2>5. Len(Utf8(piece)) = b - a
    BY <2>2, <2>4, OnesAreBytes, Zenon
  <2>6. b - a <= n
    BY <1>5
  <2>7. QED
    BY <1>5, <2>5, <2>6, Zenon
<1>7. CASE Len(Utf8(s)) <= n
  <2>1. Len(s) # 0
    <3> HIDE DEF a, b
    <3>1. QED
      BY <1>5, <1>s
  <2>2. Len(s) <= n
    <3>1. PieceFormed(s)
      BY WellFormedAt DEF PieceFormed
    <3>2. Len(Utf8(s)) \in Nat /\ Len(Utf8(s)) >= Len(s)
      BY <2>1, <3>1, Utf8IsNotShorter, Zenon
    <3>3. \A x \in Nat : x >= Len(s) /\ x <= n => Len(s) <= n
      BY <1>s
    <3>4. QED
      BY <1>7, <3>2, <3>3, Zenon
  \* There is one piece.
  <2>3. end[1] = Len(s) /\ 1 \in 1..Len(cut)
    <3>1. 1 \in 1..Len(cut) /\ 1 - 1 = 0 /\ 1 \in 0..Len(cut)
      BY <1>l
    <3>2. end[1] = 0 + n \/ end[1] = Len(s)
      BY <1>i, <1>z, <3>1
    <3>3. end[1] \in 0..Len(s)
      BY <3>1
    <3>4. QED
      BY <1>s, <2>2, <3>1, <3>2, <3>3
  <2>4. Len(cut) = 1
    <3>1. SUFFICES ASSUME Len(cut) # 1 PROVE FALSE
      OBVIOUS
    <3>2. 2 \in 1..Len(cut) /\ 2 - 1 = 1 /\ 2 \in 0..Len(cut)
      BY <1>l, <2>3, <3>1
    <3>3. end[1] < end[2] /\ end[2] \in 0..Len(s)
      BY <1>i, <3>2
    <3>4. QED
      BY <1>s, <2>3, <3>3
  <2>5. i = 1
    BY <2>4
  <2>6. piece = SubSeq(s, 1, Len(s))
    BY <1>z, <2>3, <2>5
  <2>7. SubSeq(s, 1, Len(s)) = s
    BY <1>s
  <2>8. QED
    BY <1>5, <1>7, <2>6, <2>7, Zenon
<1>8. QED
  BY <1>6, <1>7

-----------------------------------------------------------------------------
(* The invariant.                                                          *)

ExchangeTypeOK ==
    /\ key \in ClientKey /\ request \in Text
    /\ at \in {"start", "threw", "requested", "refused", "forwarded", "responded", "done"}

\* The request under way is the ciphertext of its pieces, and each of them did fit.
RequestUnderWay ==
    at = "requested" => /\ key.size = KEY_SIZE /\ Encryptable(key, RequestPieces)
                        /\ payload = Encrypted(key, RequestPieces)

Understood ==
    at \in {"forwarded", "responded", "done"} =>
        key = MirrorKey /\ key.size = KEY_SIZE /\ jsonRequest = Utf8(request)

ResponseUnderWay ==
    at = "responded" => /\ response \in Body
                        /\ payload = Encrypted(MirrorKey, ResponsePieces(ResText(response)))

Ended ==
    /\ at = "start" => payload = <<>>
    /\ at = "threw" => payload = <<>> /\ (key.size # KEY_SIZE \/ ~Encryptable(key, RequestPieces))
    /\ at = "refused" /\ key = MirrorKey => request = <<>>
    /\ at = "done" => response \in Body /\ result = ResText(response)

ExchangeInv == ExchangeTypeOK /\ RequestUnderWay /\ Understood /\ ResponseUnderWay /\ Ended

\* The pieces of a text are encryptable if and only if they fit.
LEMMA EncryptableIs ==
    ASSUME NEW k, NEW pieces \in Seq(Seq(Byte))
    PROVE  Encryptable(k, pieces) <=> \A i \in 1..Len(pieces) : Len(pieces[i]) <= MaxChunkSize(k)
<1>1. DOMAIN pieces = 1..Len(pieces)
  OBVIOUS
<1>2. QED
  BY <1>1, Zenon DEF Encryptable, ToSet

\* What the private side gets out of a request that fitted.
LEMMA RequestDecrypted ==
    ASSUME ExchangeTypeOK, key.size = KEY_SIZE
    PROVE  /\ RequestPieces = TextPieces(request, MaxChunkSize(key))
           /\ RequestPieces \in Seq(Seq(Byte))
           /\ Utf8(request) \in Seq(Byte)
           /\ Encryptable(key, RequestPieces) => FlattenSeq(RequestPieces) = Utf8(request)
<1>1. WellFormed(request) /\ request \in Seq(Unit)
  BY ExchangeConstants DEF ExchangeTypeOK, WellFormed
<1>2. MaxChunkSize(key) \in Nat \ {0}
  BY KeySizes DEF ExchangeTypeOK
<1>3. RequestPieces = TextPieces(request, MaxChunkSize(key))
  BY DEF RequestPieces, TextPieces, MaxChunkSize
<1>4. /\ RequestPieces \in Seq(Seq(Byte))
      /\ Len(RequestPieces) = Len(Cut(request, MaxChunkSize(key)))
  BY <1>1, <1>2, <1>3, TextPiecesType
<1>5. ASSUME Encryptable(key, RequestPieces)
      PROVE  FlattenSeq(RequestPieces) = Utf8(request)
  <2>1. \A i \in 1..Len(Cut(request, MaxChunkSize(key))) :
           Len(TextPieces(request, MaxChunkSize(key))[i]) <= MaxChunkSize(key)
    BY <1>3, <1>4, <1>5, EncryptableIs, Zenon
  <2>2. QED
    BY <1>1, <1>2, <1>3, <2>1, FittingPiecesAreWhole, Zenon
<1>6. QED
  BY <1>1, <1>3, <1>4, <1>5, Utf8By

\* Only the mirror's key makes a request readable.
LEMMA ReadableNeedsTheKey ==
    ASSUME ExchangeTypeOK, RequestUnderWay, at = "requested", Readable
    PROVE  key = MirrorKey
<1>k. /\ key.size \in Nat \ {0} /\ MirrorKey.size \in Nat \ {0}
      /\ payload = Encrypted(key, RequestPieces) /\ key.size = KEY_SIZE
  BY KeySizes DEF ExchangeTypeOK, RequestUnderWay
<1>1. payload \in Seq(CipherByte(key))
  BY <1>k, RequestDecrypted, EncryptedThenDecrypted
<1> DEFINE parts == RequestParts
<1>2. parts = Cut(payload, MirrorKey.size)
  BY DEF RequestParts
<1>3. parts \in Seq(Seq(CipherByte(key)))
  BY <1>k, <1>1, <1>2, CutAt
<1>4. PICK end \in [0..Len(parts) -> 0..Len(payload)] : PiecesEnd(end, parts, payload, MirrorKey.size)
  BY <1>k, <1>1, <1>2, CutAt
<1>5. Decryptable(MirrorKey, parts) /\ Decrypted(parts) # <<>>
  BY DEF Readable
<1> HIDE DEF parts
<1>6. Len(parts) # 0
  <2>1. SUFFICES ASSUME Len(parts) = 0 PROVE Decrypted(parts) = <<>>
    BY <1>5
  <2>2. [i \in DOMAIN parts |-> parts[i][1].of] = <<>>
    BY <1>3, <2>1
  <2>3. FlattenSeq(<<>>) = <<>>
    BY DEF FlattenSeq
  <2>4. QED
    BY <2>2, <2>3 DEF Decrypted
<1>7. 1 \in 1..Len(parts) /\ 1 - 1 = 0 /\ 1 \in DOMAIN parts /\ 0 \in 0..Len(parts) /\ 1 \in 0..Len(parts)
  BY <1>3, <1>6
<1>8. /\ parts[1] = SubSeq(payload, 0 + 1, end[1]) /\ end[0] = 0 /\ end[0] < end[1]
      /\ end[1] \in 0..Len(payload)
  BY <1>4, <1>7 DEF PiecesEnd
<1>9. parts[1][1] = payload[1] /\ 1 \in 1..Len(payload)
  BY <1>1, <1>8
<1>10. payload[1].key = key
  <2>1. payload[1] \in CipherByte(key)
    BY <1>1, <1>9
  <2>2. \A byte \in CipherByte(key) : byte.key = key
    BY DEF CipherByte
  <2>3. QED
    BY <2>1, <2>2
<1>11. parts[1] = Ciphertext(MirrorKey, parts[1][1].of)
  BY <1>5, <1>7, Zenon DEF Decryptable, ToSet
<1>12. \A piece : Ciphertext(MirrorKey, piece)[1].key = MirrorKey
  BY <1>k DEF Ciphertext
<1>13. parts[1][1].key = MirrorKey
  BY <1>11, <1>12, Zenon
<1>14. QED
  BY <1>9, <1>10, <1>13

LEMMA ExchangeInvInit == Init => ExchangeInv
BY DEF Init, ExchangeInv, ExchangeTypeOK, RequestUnderWay, Understood, ResponseUnderWay, Ended

LEMMA ExchangeInvStep == ExchangeInv /\ [Next]_vars => ExchangeInv'
<1> SUFFICES ASSUME ExchangeInv, [Next]_vars PROVE ExchangeInv'
  OBVIOUS
<1>i. ExchangeTypeOK /\ RequestUnderWay /\ Understood /\ ResponseUnderWay /\ Ended
  BY DEF ExchangeInv
<1>1. CASE ClientThrows
  <2>1. RequestPieces' = RequestPieces
    BY <1>1 DEF ClientThrows, RequestPieces
  <2>2. QED
    BY <1>i, <1>1, <2>1 DEF ClientThrows, ExchangeInv, ExchangeTypeOK, RequestUnderWay, Understood,
       ResponseUnderWay, Ended
<1>2. CASE ClientSends
  <2>1. RequestPieces' = RequestPieces
    BY <1>2 DEF ClientSends, RequestPieces
  <2>2. QED
    BY <1>i, <1>2, <2>1 DEF ClientSends, ExchangeInv, ExchangeTypeOK, RequestUnderWay, Understood,
       ResponseUnderWay, Ended
<1>3. CASE PrivateSideRefuses
  <2>1. at = "requested" /\ ~Readable
    BY <1>3 DEF PrivateSideRefuses
  <2>2. key = MirrorKey => request = <<>>
    <3>1. SUFFICES ASSUME key = MirrorKey, request # <<>> PROVE Readable
      BY <2>1
    <3>2. /\ key.size \in Nat \ {0} /\ key.size = KEY_SIZE
          /\ payload = Encrypted(key, RequestPieces) /\ Encryptable(key, RequestPieces)
      BY <1>i, <2>1, KeySizes DEF ExchangeTypeOK, RequestUnderWay
    <3>3. RequestPieces \in Seq(Seq(Byte)) /\ FlattenSeq(RequestPieces) = Utf8(request)
      BY <1>i, <3>2, RequestDecrypted
    <3>4. RequestParts = Cut(Encrypted(key, RequestPieces), key.size)
      BY <3>1, <3>2 DEF RequestParts
    <3>5. Decryptable(MirrorKey, RequestParts) /\ Decrypted(RequestParts) = Utf8(request)
      BY <3>1, <3>2, <3>3, <3>4, EncryptedThenDecrypted, Zenon
    <3>6. WellFormed(request) /\ request \in Seq(Unit) /\ PieceFormed(request)
      <4>1. WellFormed(request)
        BY <1>i, ExchangeConstants DEF ExchangeTypeOK
      <4>2. QED
        BY <4>1, WellFormedAt DEF PieceFormed
    <3>7. IsUtf8(Utf8(request))
      BY <3>6, Utf8IsUtf8
    <3>8. Utf8(request) # <<>>
      <4>1. Len(request) \in Nat /\ Len(request) # 0
        BY <3>1, <3>6
      <4>2. Len(Utf8(request)) \in Nat /\ Len(Utf8(request)) >= Len(request)
        BY <3>6, <4>1, Utf8IsNotShorter, Zenon
      <4>3. \A x \in Nat : x >= Len(request) => x # 0
        BY <4>1
      <4>4. Len(Utf8(request)) # 0 /\ Len(<<>>) = 0
        BY <4>2, <4>3
      <4>5. QED
        BY <4>4, Zenon
    <3>9. QED
      BY <3>5, <3>7, <3>8 DEF Readable
  <2>3. QED
    BY <1>i, <1>3, <2>2 DEF PrivateSideRefuses, ExchangeInv, ExchangeTypeOK, RequestUnderWay,
       Understood, ResponseUnderWay, Ended
<1>4. CASE PrivateSideForwards
  <2>1. at = "requested" /\ Readable /\ jsonRequest' = Decrypted(RequestParts)
    BY <1>4 DEF PrivateSideForwards
  <2>2. key = MirrorKey
    BY <1>i, <2>1, ReadableNeedsTheKey
  <2>3. /\ key.size \in Nat \ {0} /\ key.size = KEY_SIZE
        /\ payload = Encrypted(key, RequestPieces) /\ Encryptable(key, RequestPieces)
    BY <1>i, <2>1, KeySizes DEF ExchangeTypeOK, RequestUnderWay
  <2>4. RequestPieces \in Seq(Seq(Byte)) /\ FlattenSeq(RequestPieces) = Utf8(request)
    BY <1>i, <2>3, RequestDecrypted
  <2>5. RequestParts = Cut(Encrypted(key, RequestPieces), key.size)
    BY <2>2, <2>3 DEF RequestParts
  <2>6. Decrypted(RequestParts) = Utf8(request)
    BY <2>3, <2>4, <2>5, EncryptedThenDecrypted, Zenon
  <2>7. jsonRequest' = Utf8(request) /\ request' = request /\ key' = key /\ at' = "forwarded"
    BY <1>4, <2>1, <2>6 DEF PrivateSideForwards
  <2>8. QED
    BY <1>i, <2>2, <2>3, <2>7 DEF ExchangeInv, ExchangeTypeOK, RequestUnderWay, Understood,
       ResponseUnderWay, Ended
<1>5. CASE WalletAnswers
  BY <1>i, <1>5 DEF WalletAnswers, ExchangeInv, ExchangeTypeOK, RequestUnderWay, Understood,
     ResponseUnderWay, Ended
<1>6. CASE ClientReceives
  <2>1. /\ at = "responded" /\ key = MirrorKey /\ key.size = KEY_SIZE /\ response \in Body
        /\ payload = Encrypted(MirrorKey, ResponsePieces(ResText(response)))
    BY <1>i, <1>6 DEF ClientReceives, Understood, ResponseUnderWay
  <2>2. MirrorKey.size \in Nat \ {0} /\ MaxChunkSize(MirrorKey) \in Nat \ {0}
    BY KeySizes
  <2>3. ResText(response) \in Seq(Byte)
    <3>1. response \in Seq(Byte)
      BY <2>1, ExchangeConstants DEF PartOfText
    <3>2. QED
      BY <3>1, ResTextBy
  <2>4. /\ ResponsePieces(ResText(response)) \in Seq(Seq(Byte))
        /\ FlattenSeq(ResponsePieces(ResText(response))) = ResText(response)
    BY <2>2, <2>3, CutAt, FlattenCut DEF ResponsePieces
  <2>5. /\ Decryptable(key, Cut(payload, KEY_SIZE))
        /\ Decrypted(Cut(payload, KEY_SIZE)) = ResText(response)
    BY <2>1, <2>2, <2>4, EncryptedThenDecrypted, Zenon
  <2>6. /\ result' = ResText(response) /\ at' = "done" /\ response' = response
        /\ UNCHANGED <<key, request, jsonRequest>>
    BY <1>6, <2>5 DEF ClientReceives
  <2>7. QED
    BY <1>i, <2>1, <2>6 DEF ExchangeInv, ExchangeTypeOK, RequestUnderWay, Understood,
       ResponseUnderWay, Ended
<1>7. CASE UNCHANGED vars
  <2>1. RequestPieces' = RequestPieces
    BY <1>7 DEF vars, RequestPieces
  <2>2. QED
    BY <1>i, <1>7, <2>1 DEF vars, ExchangeInv, ExchangeTypeOK, RequestUnderWay, Understood,
       ResponseUnderWay, Ended
<1>8. QED
  BY <1>1, <1>2, <1>3, <1>4, <1>5, <1>6, <1>7 DEF Next

LEMMA ExchangeInvAlways == Spec => []ExchangeInv
BY ExchangeInvInit, ExchangeInvStep, PTL DEF Spec

\* For every length of keys and of texts: what the wallet is asked is what the client
\* wrote, and it takes the mirror's key.
THEOREM RequestsArrive == Spec => []RequestArrives
<1>1. ExchangeInv => RequestArrives
  BY DEF ExchangeInv, Understood, RequestArrives
<1>2. QED
  BY <1>1, ExchangeInvAlways, PTL

\* For every length of keys and of bodies: what the client prints is the text of what
\* the wallet answered, and the very bytes if they were UTF-8 without a BOM in front.
THEOREM ResponsesArrive == Spec => []ResponseArrives
<1>1. ExchangeInv => ResponseArrives
  <2>1. SUFFICES ASSUME ExchangeInv PROVE ResponseArrives
    OBVIOUS
  <2>2. at = "done" => response \in Body /\ result = ResText(response)
    BY <2>1 DEF ExchangeInv, Ended
  <2>3. at = "threw" => payload = <<>>
    BY <2>1 DEF ExchangeInv, Ended
  <2>4. ASSUME response \in Body, IsUtf8(response), response # <<>> => response[1][1] # "bom"
        PROVE  ResText(response) = response
    BY <2>4, ExchangeConstants, Utf8Stays, Zenon
  <2>5. QED
    BY <2>2, <2>3, <2>4, Zenon DEF ResponseArrives
<1>2. QED
  BY <1>1, ExchangeInvAlways, PTL

\* If the mirror's key is of the size the client insists on, only an empty request or
\* one of longer characters that does not fit into one piece is turned away.
THEOREM GoodRequestsServed == MirrorKey.size = KEY_SIZE => (Spec => []GoodRequestsAreServed)
<1> SUFFICES ASSUME MirrorKey.size = KEY_SIZE PROVE Spec => []GoodRequestsAreServed
  OBVIOUS
<1>1. ExchangeInv => GoodRequestsAreServed
  <2>1. SUFFICES ASSUME ExchangeInv, key = MirrorKey, at = "threw"
                 PROVE  ToSet(request) # {"one"} /\ Len(Utf8(request)) > MaxChunkSize(MirrorKey)
    BY DEF ExchangeInv, Ended, GoodRequestsAreServed
  <2>2. ~Encryptable(key, RequestPieces) /\ ExchangeTypeOK /\ key.size = KEY_SIZE
    BY <2>1 DEF ExchangeInv, Ended
  <2>3. MaxChunkSize(key) \in Nat \ {0}
    BY <2>1, KeySizes
  <2>4. WellFormed(request) /\ request \in Seq(Unit)
    BY <2>2, ExchangeConstants DEF ExchangeTypeOK, WellFormed
  <2>5. RequestPieces = TextPieces(request, MaxChunkSize(key)) /\ RequestPieces \in Seq(Seq(Byte))
    BY <2>2, RequestDecrypted
  <2>6. Len(RequestPieces) = Len(Cut(request, MaxChunkSize(key)))
    BY <2>3, <2>4, <2>5, TextPiecesType
  <2>7. ~ \A i \in 1..Len(Cut(request, MaxChunkSize(key))) :
            Len(TextPieces(request, MaxChunkSize(key))[i]) <= MaxChunkSize(key)
    BY <2>2, <2>5, <2>6, EncryptableIs, Zenon
  <2>8. /\ ~ \A j \in 1..Len(request) : request[j] = "one"
        /\ ~(Len(Utf8(request)) <= MaxChunkSize(key))
    BY <2>3, <2>4, <2>7, PiecesFit, Zenon
  <2>9. ToSet(request) # {"one"}
    <3>1. PICK j \in 1..Len(request) : request[j] # "one"
      BY <2>8
    <3>2. DOMAIN request = 1..Len(request)
      BY <2>4
    <3>3. request[j] \in ToSet(request)
      BY <3>2, Zenon DEF ToSet
    <3>4. QED
      BY <3>1, <3>3, Zenon
  <2>10. Len(Utf8(request)) > MaxChunkSize(key)
    <3>1. Utf8(request) \in Seq(Byte)
      BY <2>4, Utf8By
    <3>2. Len(Utf8(request)) \in Nat
      BY <3>1
    <3>3. \A x, y \in Nat : ~(x <= y) => x > y
      OBVIOUS
    <3>4. QED
      BY <2>3, <2>8, <3>2, <3>3, Zenon
  <2>11. QED
    BY <2>1, <2>9, <2>10
<1>2. QED
  BY <1>1, ExchangeInvAlways, PTL
=============================================================================
