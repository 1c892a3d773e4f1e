--------------------------- MODULE UdpCodecProofs ---------------------------
(***************************************************************************)
(* Theorems about the bytes of a datagram, for every set of ids, texts of  *)
(* any length and every byte behind the end:                               *)
(*                                                                         *)
(*   IntactIsRead       Spec => []ReadAsWritten                            *)
(*   CutIsRefused       Spec => []CutIsNoMessage                           *)
(*   LongerIsRead       Spec => []LongerIsTheSame                          *)
(*                                                                         *)
(* What is known of an intact, a cut and an extended datagram is the same: *)
(* as far as it reaches, the bytes of a text are where they were written   *)
(* (Laid).  From this follows where data_to_message finds the NULs         *)
(* (TextFound), and from that what it makes of each type.                  *)
(***************************************************************************)
EXTENDS UdpCodec, SequenceTheorems, TLAPS

Byte == 0 .. 255
Char == 1 .. 255

-----------------------------------------------------------------------------
(* The operators over sequences of texts, unrolled: no message has more
   than three. *)

(* Where the texts of a datagram end, read one after the other. *)
EndAfter(data, end) == IF end = 0 THEN 0 ELSE Nul(data, end + 1)

(* f walks over the first n texts. *)
Step(f, data, k) == IF k = 0 THEN 3 ELSE IF f[k - 1] = 0 THEN 0 ELSE Nul(data, f[k - 1] + 1)

Walks(f, data, n) == f = [k \in 0 .. n |-> Step(f, data, k)]

LEMMA Walk ==
    ASSUME NEW data, NEW n \in Nat, NEW f, Walks(f, data, n)
    PROVE  /\ f[0] = 3
           /\ \A k \in Nat : k < n => f[k + 1] = EndAfter(data, f[k])
<1>1. \A k \in 0 .. n : f[k] = Step(f, data, k)
  BY DEF Walks
<1>2. f[0] = 3
  BY <1>1 DEF Step
<1>3. ASSUME NEW k \in Nat, k < n PROVE f[k + 1] = EndAfter(data, f[k])
  <2>1. k + 1 \in 0 .. n /\ k + 1 # 0 /\ (k + 1) - 1 = k
    BY <1>3
  <2>2. f[k + 1] = Step(f, data, k + 1)
    BY <1>1, <2>1
  <2>3. Step(f, data, k + 1) = EndAfter(data, f[k])
    BY <2>1 DEF Step, EndAfter
  <2> QED
    BY <2>2, <2>3
<1> QED
  BY <1>2, <1>3

(* A walk over one text more. *)
LEMMA WalkOn ==
    ASSUME NEW data, NEW n \in Nat, NEW f, Walks(f, data, n)
    PROVE  \E g : Walks(g, data, n + 1)
<1> DEFINE g == [k \in 0 .. n + 1 |-> IF k = n + 1 THEN EndAfter(data, f[n]) ELSE f[k]]
<1>1. f[0] = 3 /\ \A k \in Nat : k < n => f[k + 1] = EndAfter(data, f[k])
  BY Walk
<1>2. /\ DOMAIN g = 0 .. n + 1 /\ g[n + 1] = EndAfter(data, f[n])
      /\ g[0] = f[0] /\ \A k \in Nat : k <= n => g[k] = f[k]
      /\ g = [k \in 0 .. n + 1 |-> g[k]]
  OBVIOUS
<1> HIDE DEF g
<1>3. ASSUME NEW k \in 0 .. n + 1 PROVE g[k] = Step(g, data, k)
  <2>1. CASE k = 0
    BY <1>1, <1>2, <2>1 DEF Step
  <2>2. CASE k # 0
    <3>1. PICK j \in Nat : k = j + 1 /\ j = k - 1 /\ j <= n
      <4>1. k - 1 \in Nat /\ k = (k - 1) + 1 /\ k - 1 <= n
        BY <2>2
      <4> QED
        BY <4>1
    <3>2. g[j + 1] = EndAfter(data, g[j])
      <4>1. CASE j = n
        BY <1>2, <3>1, <4>1
      <4>2. CASE j < n
        <5>1. j + 1 <= n /\ j + 1 \in Nat
          BY <4>2
        <5> QED
          BY <1>1, <1>2, <3>1, <4>2, <5>1
      <4> QED
        BY <3>1, <4>1, <4>2
    <3> QED
      BY <2>2, <3>1, <3>2 DEF Step, EndAfter
  <2> QED
    BY <2>1, <2>2
<1>4. g = [k \in 0 .. n + 1 |-> Step(g, data, k)]
  <2> DEFINE h == [k \in 0 .. n + 1 |-> Step(g, data, k)]
  <2>1. DOMAIN h = 0 .. n + 1 /\ h = [k \in 0 .. n + 1 |-> h[k]]
        /\ \A k \in 0 .. n + 1 : h[k] = Step(g, data, k)
    OBVIOUS
  <2> HIDE DEF h
  <2>2. \A k \in 0 .. n + 1 : g[k] = h[k]
    BY <1>3, <2>1
  <2>3. g = h
    BY <1>2, <2>1, <2>2, Zenon
  <2> QED
    BY <2>3 DEF h
<1> QED
  BY <1>4 DEF Walks

LEMMA WalkExists ==
    ASSUME NEW data
    PROVE  \A n \in {0, 1, 2, 3} : \E f : Walks(f, data, n)
<1>0. \E f : Walks(f, data, 0)
  <2> DEFINE f == [k \in 0 .. 0 |-> 3]
  <2>1. f = [k \in 0 .. 0 |-> Step(f, data, k)]
    <3>1. \A k \in 0 .. 0 : Step(f, data, k) = 3
      BY DEF Step
    <3> HIDE DEF Step
    <3> QED
      BY <3>1
  <2> QED
    BY <2>1 DEF Walks
<1>1. \E f : Walks(f, data, 1)
  BY <1>0, WalkOn
<1>2. \E f : Walks(f, data, 2)
  BY <1>1, WalkOn
<1>3. \E f : Walks(f, data, 3)
  BY <1>2, WalkOn
<1> QED
  BY <1>0, <1>1, <1>2, <1>3

LEMMA FieldEndWalks ==
    ASSUME NEW data, NEW n \in {0, 1, 2, 3}
    PROVE  \E f : Walks(f, data, n) /\ FieldEnd(data, n) = f[n]
<1> DEFINE end == CHOOSE end : end = [k \in 0 .. n |-> IF k = 0 THEN 3
                                 ELSE IF end[k - 1] = 0 THEN 0 ELSE Nul(data, end[k - 1] + 1)]
<1>1. FieldEnd(data, n) = end[n]
  BY DEF FieldEnd
<1>2. \E f : f = [k \in 0 .. n |-> IF k = 0 THEN 3
                                 ELSE IF f[k - 1] = 0 THEN 0 ELSE Nul(data, f[k - 1] + 1)]
  BY WalkExists DEF Walks, Step
<1>3. end = [k \in 0 .. n |-> IF k = 0 THEN 3
                              ELSE IF end[k - 1] = 0 THEN 0 ELSE Nul(data, end[k - 1] + 1)]
  BY <1>2
<1> HIDE DEF end
<1>4. Walks(end, data, n)
  BY <1>3 DEF Walks, Step
<1> QED
  BY <1>1, <1>4

LEMMA FieldEnds ==
    ASSUME NEW data
    PROVE  /\ FieldEnd(data, 0) = 3
           /\ FieldEnd(data, 1) = EndAfter(data, 3)
           /\ FieldEnd(data, 2) = EndAfter(data, EndAfter(data, 3))
           /\ FieldEnd(data, 3) = EndAfter(data, EndAfter(data, EndAfter(data, 3)))
<1>1. \A n \in {0, 1, 2, 3} : \E f : /\ FieldEnd(data, n) = f[n] /\ f[0] = 3
                                     /\ \A k \in Nat : k < n => f[k + 1] = EndAfter(data, f[k])
  BY Walk, FieldEndWalks
<1>3. FieldEnd(data, 0) = 3
  BY <1>1
<1>4. FieldEnd(data, 1) = EndAfter(data, 3)
  <2>1. PICK f : /\ FieldEnd(data, 1) = f[1] /\ f[0] = 3
                 /\ \A k \in Nat : k < 1 => f[k + 1] = EndAfter(data, f[k])
    BY <1>1
  <2>2. f[0 + 1] = EndAfter(data, f[0])
    BY <2>1
  <2> QED
    BY <2>1, <2>2
<1>5. FieldEnd(data, 2) = EndAfter(data, EndAfter(data, 3))
  <2>1. PICK f : /\ FieldEnd(data, 2) = f[2] /\ f[0] = 3
                 /\ \A k \in Nat : k < 2 => f[k + 1] = EndAfter(data, f[k])
    BY <1>1
  <2>2. f[0 + 1] = EndAfter(data, f[0]) /\ f[1 + 1] = EndAfter(data, f[1])
    BY <2>1
  <2> QED
    BY <2>1, <2>2
<1>6. FieldEnd(data, 3) = EndAfter(data, EndAfter(data, EndAfter(data, 3)))
  <2>1. PICK f : /\ FieldEnd(data, 3) = f[3] /\ f[0] = 3
                 /\ \A k \in Nat : k < 3 => f[k + 1] = EndAfter(data, f[k])
    BY <1>1
  <2>2. /\ f[0 + 1] = EndAfter(data, f[0]) /\ f[1 + 1] = EndAfter(data, f[1])
        /\ f[2 + 1] = EndAfter(data, f[2])
    BY <2>1
  <2> QED
    BY <2>1, <2>2
<1> QED
  BY <1>3, <1>4, <1>5, <1>6

(* Up to three sequences, one behind the other. *)
Joins(f, seqs) ==
    f = [i \in 1 .. Len(seqs) |-> IF i = 1 THEN seqs[i] ELSE f[i - 1] \o seqs[i]]

LEMMA FlattenOne ==
    ASSUME NEW seqs, Len(seqs) = 1
    PROVE  FlattenSeq(seqs) = seqs[1]
<1> DEFINE flatten == CHOOSE flatten : Joins(flatten, seqs)
<1>1. FlattenSeq(seqs) = flatten[Len(seqs)]
  BY DEF FlattenSeq, Joins
<1>2. Joins([i \in 1 .. 1 |-> seqs[1]], seqs)
  BY DEF Joins
<1>3. Joins(flatten, seqs)
  BY <1>2
<1> HIDE DEF flatten
<1>4. flatten[1] = seqs[1]
  BY <1>3 DEF Joins
<1> QED
  BY <1>1, <1>4

LEMMA FlattenTwo ==
    ASSUME NEW seqs, Len(seqs) = 2
    PROVE  FlattenSeq(seqs) = seqs[1] \o seqs[2]
<1> DEFINE flatten == CHOOSE flatten : Joins(flatten, seqs)
           f == [i \in 1 .. 2 |-> IF i = 1 THEN seqs[1] ELSE seqs[1] \o seqs[2]]
<1>1. FlattenSeq(seqs) = flatten[Len(seqs)]
  BY DEF FlattenSeq, Joins
<1>2. Joins(f, seqs)
  BY DEF Joins
<1>3. Joins(flatten, seqs)
  BY <1>2
<1> HIDE DEF flatten
<1>4. flatten[1] = seqs[1] /\ flatten[2] = flatten[1] \o seqs[2]
  BY <1>3 DEF Joins
<1> QED
  BY <1>1, <1>4

LEMMA FlattenThree ==
    ASSUME NEW seqs, Len(seqs) = 3
    PROVE  FlattenSeq(seqs) = (seqs[1] \o seqs[2]) \o seqs[3]
<1> DEFINE flatten == CHOOSE flatten : Joins(flatten, seqs)
           two == seqs[1] \o seqs[2]
           three == two \o seqs[3]
           f == [i \in 1 .. 3 |-> IF i = 1 THEN seqs[1] ELSE IF i = 2 THEN two ELSE three]
<1>1. FlattenSeq(seqs) = flatten[Len(seqs)]
  BY DEF FlattenSeq, Joins
<1>2. Joins(f, seqs)
  <2>1. f[1] = seqs[1] /\ f[2] = two /\ f[3] = three
    <3> HIDE DEF two, three
    <3> QED
      OBVIOUS
  <2>2. f = [i \in 1 .. 3 |-> f[i]]
    <3> HIDE DEF two, three
    <3> QED
      OBVIOUS
  <2> HIDE DEF f
  <2>3. \A i \in 1 .. 3 : f[i] = IF i = 1 THEN seqs[i] ELSE f[i - 1] \o seqs[i]
    <3>1. 2 - 1 = 1 /\ 3 - 1 = 2 /\ \A i \in 1 .. 3 : i = 1 \/ i = 2 \/ i = 3
      OBVIOUS
    <3>2. f[2] = f[2 - 1] \o seqs[2] /\ f[3] = f[3 - 1] \o seqs[3]
      BY <2>1, <3>1
    <3> QED
      BY <2>1, <3>1, <3>2, Zenon
  <2> QED
    BY <2>2, <2>3 DEF Joins
<1>3. Joins(flatten, seqs)
  BY <1>2
<1> HIDE DEF flatten
<1>4. flatten[1] = seqs[1]
  BY <1>3 DEF Joins
<1>5. flatten[2] = flatten[1] \o seqs[2]
  BY <1>3 DEF Joins
<1>6. flatten[3] = flatten[2] \o seqs[3]
  <2>1. \A i \in 1 .. 3 : flatten[i] = IF i = 1 THEN seqs[i] ELSE flatten[i - 1] \o seqs[i]
    BY <1>3 DEF Joins
  <2>2. 3 \in 1 .. 3 /\ 3 # 1 /\ 3 - 1 = 2
    OBVIOUS
  <2>3. flatten[3] = flatten[3 - 1] \o seqs[3]
    BY <2>1, <2>2
  <2> QED
    BY <2>2, <2>3, Zenon
<1> QED
  BY <1>1, <1>4, <1>5, <1>6

-----------------------------------------------------------------------------
(* Texts in bytes. *)

LEMMA FirstNul ==
    ASSUME NEW data \in Seq(Byte), NEW from \in Nat, NEW p \in Nat,
           from <= p, p <= Len(data), data[p] = 0,
           \A i \in Nat : from <= i /\ i < p => data[i] # 0
    PROVE  Nul(data, from) = p
<1> DEFINE nuls == {i \in from .. Len(data) : data[i] = 0}
           n == CHOOSE i \in nuls : \A j \in nuls : i <= j
<1>0. Len(data) \in Nat
  BY LenProperties
<1>1. nuls \in SUBSET Nat /\ p \in nuls /\ \A j \in nuls : p <= j
  BY <1>0
<1>2. Nul(data, from) = n
  BY <1>1, Zenon DEF Nul
<1> HIDE DEF nuls
<1>3. n \in nuls /\ \A j \in nuls : n <= j
  BY <1>1
<1> HIDE DEF n
<1>4. n \in Nat /\ n <= p /\ p <= n
  BY <1>1, <1>3
<1> QED
  BY <1>2, <1>4

LEMMA NoNul ==
    ASSUME NEW data \in Seq(Byte), NEW from \in Nat,
           \A i \in Nat : from <= i /\ i <= Len(data) => data[i] # 0
    PROVE  Nul(data, from) = 0
<1>1. Len(data) \in Nat
  BY LenProperties
<1>2. {i \in from .. Len(data) : data[i] = 0} = {}
  BY <1>1
<1> QED
  BY <1>2, Zenon DEF Nul

LEMMA NoNulInText == ASSUME NEW c \in Char PROVE c # 0 /\ c \in Byte
  BY DEF Char, Byte

(* As far as the bytes reach, text s and its NUL are behind the first a. *)
Laid(data, s, a) ==
    /\ \A i \in 1 .. Len(s) : a + i <= Len(data) => data[a + i] = s[i]
    /\ a + Len(s) + 1 <= Len(data) => data[a + Len(s) + 1] = 0

(* A text that is there in full is found, and one that has been cut is not. *)
LEMMA TextFound ==
    ASSUME NEW data \in Seq(Byte), NEW s \in Seq(Char), NEW a \in Nat, Laid(data, s, a)
    PROVE  /\ Len(s) \in Nat
           /\ a + Len(s) + 1 <= Len(data) =>
                  /\ Nul(data, a + 1) = a + Len(s) + 1
                  /\ SubSeq(data, a + 1, a + Len(s)) = s
           /\ Len(data) < a + Len(s) + 1 => Nul(data, a + 1) = 0
<1>1. /\ Len(s) \in Nat /\ Len(data) \in Nat /\ \A i \in 1 .. Len(s) : s[i] \in Char
      /\ \A i \in 1 .. Len(data) : data[i] \in Byte
  BY LenProperties, ElementOfSeq
<1>2. PICK l \in Nat, d \in Nat : l = Len(s) /\ d = Len(data)
  BY <1>1
<1>3. ASSUME NEW i \in Nat, a + 1 <= i, i <= a + l, i <= d
      PROVE  data[i] # 0 /\ data[i] = s[i - a] /\ i - a \in 1 .. l
  <2>1. i - a \in 1 .. l /\ a + (i - a) = i
    BY <1>3
  <2>2. data[i] = s[i - a]
    BY <1>2, <1>3, <2>1 DEF Laid
  <2>3. s[i - a] \in Char
    BY <1>1, <1>2, <2>1
  <2>4. s[i - a] # 0
    BY <2>3, NoNulInText
  <2> QED
    BY <2>1, <2>2, <2>4
<1>4. ASSUME a + l + 1 <= d
      PROVE  Nul(data, a + 1) = a + l + 1 /\ SubSeq(data, a + 1, a + l) = s
  <2>1. PICK from \in Nat, p \in Nat, e \in Nat : from = a + 1 /\ p = a + l + 1 /\ e = a + l
    OBVIOUS
  <2>2. data[p] = 0 /\ from <= p /\ p <= Len(data)
    BY <1>2, <1>4, <2>1 DEF Laid
  <2>3. \A i \in Nat : from <= i /\ i < p => data[i] # 0
    BY <1>3, <1>4, <2>1
  <2>4. Nul(data, from) = p
    BY <2>2, <2>3, FirstNul
  <2> DEFINE t == SubSeq(data, from, e)
  <2>5. \A i \in from .. e : data[i] \in Byte
    BY <1>1, <1>2, <1>4, <2>1
  <2>6. /\ t \in Seq(Byte) /\ Len(t) = (IF from <= e THEN e - from + 1 ELSE 0)
        /\ \A i \in 1 .. e - from + 1 : t[i] = data[from + i - 1]
    BY ONLY <2>5, SubSeqProperties, from \in Nat, e \in Nat
  <2> HIDE DEF t
  <2>7. Len(t) = l
    BY <2>1, <2>6
  <2>8. ASSUME NEW i \in 1 .. l PROVE t[i] = s[i]
    <3>1. i \in 1 .. e - from + 1 /\ from + i - 1 = a + i /\ a + i \in Nat /\ a + i <= a + l
          /\ a + 1 <= a + i /\ a + i <= d /\ (a + i) - a = i
      BY <1>4, <2>1
    <3>2. data[a + i] = s[i]
      BY <1>2, <3>1 DEF Laid
    <3> QED
      BY <2>6, <3>1, <3>2
  <2>9. s \in Seq(Byte)
    <3>1. s = [i \in 1 .. l |-> s[i]] /\ \A i \in 1 .. l : s[i] \in Byte
      BY <1>1, <1>2, LenProperties DEF Char, Byte
    <3>2. [i \in 1 .. l |-> s[i]] \in Seq(Byte)
      BY ONLY <3>1, l \in Nat, IsASeq
    <3> QED
      BY <3>1, <3>2
  <2>10. t = s
    BY ONLY <1>2, <2>6, <2>7, <2>8, <2>9, SeqEqual
  <2> QED
    BY <2>1, <2>4, <2>10 DEF t
<1>5. ASSUME d < a + l + 1
      PROVE  Nul(data, a + 1) = 0
  <2>1. \A i \in Nat : a + 1 <= i /\ i <= Len(data) => data[i] # 0
    BY <1>2, <1>3, <1>5
  <2>2. a + 1 \in Nat
    OBVIOUS
  <2> QED
    BY <2>1, <2>2, NoNul
<1> QED
  BY <1>2, <1>4, <1>5

(* Bytes that are those of d as far as both reach: d itself, a part of it
   from the beginning on, or d and what has been put behind it. *)
Agrees(x, d) == \A i \in Nat : 1 <= i /\ i <= Len(x) /\ i <= Len(d) => x[i] = d[i]

LEMMA LaidAgrees ==
    ASSUME NEW x \in Seq(Byte), NEW d \in Seq(Byte), Agrees(x, d), NEW s \in Seq(Char), NEW a \in Nat,
           Laid(d, s, a), a + Len(s) + 1 <= Len(d)
    PROVE  Laid(x, s, a)
<1>1. PICK l \in Nat, e \in Nat, n \in Nat : l = Len(s) /\ e = Len(d) /\ n = Len(x)
  BY LenProperties
<1>2. ASSUME NEW i \in 1 .. l, a + i <= n PROVE x[a + i] = s[i]
  <2>1. a + i \in Nat /\ 1 <= a + i /\ a + i <= e
    BY <1>1
  <2> QED
    BY <1>1, <1>2, <2>1 DEF Laid, Agrees
<1>3. ASSUME a + l + 1 <= n PROVE x[a + l + 1] = 0
  <2>1. a + l + 1 \in Nat /\ 1 <= a + l + 1 /\ a + l + 1 <= e
    BY <1>1
  <2> QED
    BY <1>1, <1>3, <2>1 DEF Laid, Agrees
<1> QED
  BY <1>1, <1>2, <1>3 DEF Laid

LEMMA Joined ==
    ASSUME NEW p \in Seq(Byte), NEW q \in Seq(Byte)
    PROVE  /\ p \o q \in Seq(Byte) /\ Len(p \o q) = Len(p) + Len(q) /\ Agrees(p \o q, p)
           /\ Len(p) \in Nat /\ Len(q) \in Nat
           /\ \A i \in Nat : 1 <= i /\ i <= Len(q) => (p \o q)[Len(p) + i] = q[i]
<1> DEFINE r == p \o q
<1>1. /\ r \in Seq(Byte) /\ Len(r) = Len(p) + Len(q)
      /\ \A i \in 1 .. Len(p) + Len(q) : r[i] = IF i <= Len(p) THEN p[i] ELSE q[i - Len(p)]
  BY ONLY ConcatProperties, p \in Seq(Byte), q \in Seq(Byte)
<1>2. Len(p) \in Nat /\ Len(q) \in Nat
  BY LenProperties
<1> HIDE DEF r
<1>3. Agrees(r, p)
  BY <1>1, <1>2 DEF Agrees
<1>4. ASSUME NEW i \in Nat, 1 <= i, i <= Len(q) PROVE r[Len(p) + i] = q[i]
  <2>1. Len(p) + i \in 1 .. Len(p) + Len(q) /\ ~(Len(p) + i <= Len(p)) /\ (Len(p) + i) - Len(p) = i
    BY <1>2, <1>4
  <2> QED
    BY <1>1, <2>1
<1> QED
  BY <1>1, <1>2, <1>3, <1>4 DEF r

LEMMA LaidBehind ==
    ASSUME NEW p \in Seq(Byte), NEW q \in Seq(Byte), NEW s \in Seq(Char), NEW a \in Nat,
           Laid(q, s, a), a + Len(s) + 1 <= Len(q)
    PROVE  Laid(p \o q, s, Len(p) + a)
<1> DEFINE r == p \o q
<1>1. PICK l \in Nat, m \in Nat, n \in Nat : l = Len(s) /\ m = Len(p) /\ n = Len(q)
  BY LenProperties
<1>2. \A i \in Nat : 1 <= i /\ i <= n => r[m + i] = q[i]
  BY <1>1, Joined
<1> HIDE DEF r
<1>3. ASSUME NEW i \in 1 .. l PROVE r[m + a + i] = s[i]
  <2>1. a + i \in Nat /\ 1 <= a + i /\ a + i <= n /\ m + (a + i) = m + a + i
    BY <1>1
  <2> QED
    BY <1>1, <1>2, <2>1 DEF Laid
<1>4. r[m + a + l + 1] = 0
  <2>1. a + l + 1 \in Nat /\ 1 <= a + l + 1 /\ a + l + 1 <= n /\ m + (a + l + 1) = m + a + l + 1
    BY <1>1
  <2> QED
    BY <1>1, <1>2, <2>1 DEF Laid
<1> QED
  BY <1>1, <1>3, <1>4 DEF Laid, r

LEMMA TextBytes == ASSUME NEW s \in Seq(Char) PROVE s \in Seq(Byte)
<1>1. /\ Len(s) \in Nat /\ s = [i \in 1 .. Len(s) |-> s[i]]
      /\ \A i \in 1 .. Len(s) : s[i] \in Byte
  BY LenProperties, ElementOfSeq, NoNulInText
<1>2. [i \in 1 .. Len(s) |-> s[i]] \in Seq(Byte)
  BY ONLY <1>1, IsASeq
<1> QED
  BY <1>1, <1>2

LEMMA TextAndNul ==
    ASSUME NEW s \in Seq(Char)
    PROVE  /\ Append(s, 0) \in Seq(Byte) /\ Len(Append(s, 0)) = Len(s) + 1
           /\ Len(s) \in Nat /\ Laid(Append(s, 0), s, 0)
<1> DEFINE t == Append(s, 0)
<1>1. /\ t \in Seq(Byte) /\ Len(t) = Len(s) + 1
      /\ \A i \in 1 .. Len(s) : t[i] = s[i]
      /\ t[Len(s) + 1] = 0
  <2>1. s \in Seq(Byte) /\ 0 \in Byte
    BY TextBytes DEF Byte
  <2> QED
    BY ONLY <2>1, AppendProperties
<1>2. Len(s) \in Nat
  BY LenProperties
<1> HIDE DEF t
<1>3. Laid(t, s, 0)
  BY <1>1, <1>2 DEF Laid
<1> QED
  BY <1>1, <1>2, <1>3 DEF t

-----------------------------------------------------------------------------
(* Where the texts behind a header of h bytes end. *)
EndOne(h, f) == h + Len(f[1]) + 1
EndTwo(h, f) == EndOne(h, f) + Len(f[2]) + 1
EndThree(h, f) == EndTwo(h, f) + Len(f[3]) + 1

LEMMA EndsRise ==
    ASSUME NEW h \in Nat, NEW f, Len(f[1]) \in Nat, Len(f[2]) \in Nat
    PROVE  /\ EndOne(h, f) \in Nat /\ EndTwo(h, f) \in Nat
           /\ h + Len(f[1]) + 1 = EndOne(h, f) /\ EndOne(h, f) + Len(f[2]) + 1 = EndTwo(h, f)
           /\ EndOne(h, f) <= EndTwo(h, f)
           /\ Len(f[3]) \in Nat =>
                  /\ EndTwo(h, f) + Len(f[3]) + 1 = EndThree(h, f)
                  /\ EndThree(h, f) \in Nat /\ EndTwo(h, f) <= EndThree(h, f)
<1>1. PICK l1 \in Nat, l2 \in Nat, e1 \in Nat, e2 \in Nat :
          l1 = Len(f[1]) /\ l2 = Len(f[2]) /\ e1 = h + l1 + 1 /\ e2 = e1 + l2 + 1
  OBVIOUS
<1>2. EndOne(h, f) = e1
  BY <1>1 DEF EndOne
<1>3. EndTwo(h, f) = e2
  BY <1>1, <1>2 DEF EndTwo
<1>4. ASSUME Len(f[3]) \in Nat
      PROVE  /\ EndTwo(h, f) + Len(f[3]) + 1 = EndThree(h, f)
             /\ EndThree(h, f) \in Nat /\ EndTwo(h, f) <= EndThree(h, f)
  <2>1. PICK l3 \in Nat, e3 \in Nat : l3 = Len(f[3]) /\ e3 = e2 + l3 + 1
    BY <1>4
  <2>2. EndThree(h, f) = e3
    BY <1>3, <2>1 DEF EndThree
  <2>3. e2 <= e3
    BY <2>1
  <2> QED
    BY <1>3, <2>1, <2>2, <2>3
<1>5. e1 <= e2
  <2>1. e2 = e1 + l2 + 1
    BY <1>1
  <2> QED
    BY ONLY <2>1, e1 \in Nat, e2 \in Nat, l2 \in Nat
<1>6. h + Len(f[1]) + 1 = e1 /\ e1 + Len(f[2]) + 1 = e2
  BY <1>1
<1>7. /\ EndOne(h, f) \in Nat /\ EndTwo(h, f) \in Nat
      /\ h + Len(f[1]) + 1 = EndOne(h, f) /\ EndOne(h, f) + Len(f[2]) + 1 = EndTwo(h, f)
      /\ EndOne(h, f) <= EndTwo(h, f)
  BY <1>2, <1>3, <1>5, <1>6
<1> QED
  BY <1>4, <1>7, Zenon

LEMMA OneText ==
    ASSUME NEW head \in Seq(Byte), NEW f, DOMAIN f = 1 .. 1, f[1] \in Seq(Char),
           NEW h \in Nat, h = Len(head), NEW d, d = head \o Terminated(f)
    PROVE  /\ d \in Seq(Byte) /\ Agrees(d, head) /\ Len(d) = EndOne(h, f)
           /\ Laid(d, f[1], h)
<1> DEFINE t == Append(f[1], 0)
<1>1. Terminated(f) = t
  <2> DEFINE seqs == [k \in DOMAIN f |-> Append(f[k], 0)]
  <2>1. Len(seqs) = 1 /\ seqs[1] = t
    OBVIOUS
  <2> HIDE DEF seqs
  <2>2. FlattenSeq(seqs) = t
    BY <2>1, FlattenOne
  <2> QED
    BY <2>2 DEF Terminated, seqs
<1>2. t \in Seq(Byte) /\ Len(t) = Len(f[1]) + 1 /\ Len(f[1]) \in Nat /\ Laid(t, f[1], 0)
  BY TextAndNul
<1> HIDE DEF t
<1>3. d \in Seq(Byte) /\ Len(d) = h + Len(t) /\ Agrees(d, head)
  BY <1>1, <1>2, Joined
<1>4. Laid(d, f[1], h)
  <2>1. 0 + Len(f[1]) + 1 <= Len(t) /\ h + 0 = h /\ 0 \in Nat
    BY <1>2
  <2>2. Laid(head \o t, f[1], h + 0)
    BY <1>2, <2>1, LaidBehind
  <2> QED
    BY <1>1, <2>1, <2>2
<1> QED
  BY <1>2, <1>3, <1>4 DEF EndOne

(* A text behind others. *)
LEMMA AnotherText ==
    ASSUME NEW p \in Seq(Byte), NEW s \in Seq(Char)
    PROVE  LET q == p \o Append(s, 0) IN
           /\ q \in Seq(Byte) /\ Agrees(q, p) /\ Len(q) = Len(p) + Len(s) + 1
           /\ Len(p) \in Nat /\ Len(s) \in Nat
           /\ Laid(q, s, Len(p))
<1> DEFINE t == Append(s, 0)
           q == p \o t
<1>1. t \in Seq(Byte) /\ Len(t) = Len(s) + 1 /\ Len(s) \in Nat /\ Laid(t, s, 0)
  BY TextAndNul
<1> HIDE DEF t
<1>2. q \in Seq(Byte) /\ Len(q) = Len(p) + Len(t) /\ Agrees(q, p) /\ Len(p) \in Nat
  BY <1>1, Joined
<1>3. Laid(q, s, Len(p))
  <2>1. 0 + Len(s) + 1 <= Len(t) /\ Len(p) + 0 = Len(p) /\ 0 \in Nat
    BY <1>1, <1>2
  <2>2. Laid(p \o t, s, Len(p) + 0)
    BY <1>1, <2>1, LaidBehind
  <2> QED
    BY <2>1, <2>2
<1>4. Len(q) = Len(p) + Len(s) + 1
  BY <1>1, <1>2
<1> HIDE DEF q
<1>5. q \in Seq(Byte) /\ Agrees(q, p) /\ Len(q) = Len(p) + Len(s) + 1
      /\ Len(p) \in Nat /\ Len(s) \in Nat /\ Laid(q, s, Len(p))
  BY <1>1, <1>2, <1>3, <1>4
<1> QED
  BY <1>5 DEF q, t

LEMMA AgreesOn ==
    ASSUME NEW x \in Seq(Byte), NEW y \in Seq(Byte), NEW z \in Seq(Byte),
           Agrees(x, y), Agrees(y, z), Len(z) <= Len(y)
    PROVE  Agrees(x, z)
<1>1. Len(x) \in Nat /\ Len(y) \in Nat /\ Len(z) \in Nat
  BY LenProperties
<1> QED
  BY <1>1 DEF Agrees

LEMMA Regroup ==
    ASSUME NEW p \in Seq(Byte), NEW q \in Seq(Byte), NEW r \in Seq(Byte)
    PROVE  p \o (q \o r) = (p \o q) \o r
  BY ConcatAssociative, SMT

LEMMA TwoTexts ==
    ASSUME NEW head \in Seq(Byte), NEW f, DOMAIN f = 1 .. 2, \A k \in 1 .. 2 : f[k] \in Seq(Char),
           NEW h \in Nat, h = Len(head), NEW d, d = head \o Terminated(f)
    PROVE  /\ d \in Seq(Byte) /\ Agrees(d, head) /\ Len(d) = EndTwo(h, f)
           /\ Laid(d, f[1], h) /\ Laid(d, f[2], EndOne(h, f))
<1> DEFINE t1 == Append(f[1], 0)  t2 == Append(f[2], 0)
           q == head \o t1
           r == q \o t2
<1>0. f[1] \in Seq(Char) /\ f[2] \in Seq(Char)
  OBVIOUS
<1>1. Terminated(f) = t1 \o t2
  <2> DEFINE seqs == [k \in DOMAIN f |-> Append(f[k], 0)]
  <2>1. Len(seqs) = 2 /\ seqs[1] = t1 /\ seqs[2] = t2
    OBVIOUS
  <2> HIDE DEF seqs
  <2>2. FlattenSeq(seqs) = t1 \o t2
    BY <2>1, FlattenTwo
  <2> QED
    BY <2>2 DEF Terminated, seqs
<1>2. t1 \in Seq(Byte) /\ t2 \in Seq(Byte)
  BY <1>0, TextAndNul
<1>3. d = r
  <2> HIDE DEF t1, t2
  <2>1. head \o (t1 \o t2) = (head \o t1) \o t2
    BY <1>2, Regroup
  <2> QED
    BY <1>1, <2>1
<1>4. /\ q \in Seq(Byte) /\ Agrees(q, head) /\ Len(q) = h + Len(f[1]) + 1
      /\ Len(f[1]) \in Nat /\ Laid(q, f[1], h)
  BY <1>0, AnotherText
<1> HIDE DEF q
<1>5. /\ r \in Seq(Byte) /\ Agrees(r, q) /\ Len(r) = Len(q) + Len(f[2]) + 1
      /\ Len(f[2]) \in Nat /\ Laid(r, f[2], Len(q))
  BY <1>0, <1>4, AnotherText
<1> HIDE DEF r, t1, t2
<1>6. Laid(r, f[1], h)
  <2>1. h + Len(f[1]) + 1 <= Len(q)
    BY <1>4
  <2> QED
    BY <1>0, <1>4, <1>5, <2>1, LaidAgrees
<1>7. Agrees(r, head)
  <2>1. Len(head) <= Len(q)
    BY <1>4
  <2> QED
    BY <1>4, <1>5, <2>1, AgreesOn
<1>8. Len(q) = EndOne(h, f) /\ Len(r) = EndTwo(h, f)
  BY <1>4, <1>5 DEF EndOne, EndTwo
<1> QED
  BY <1>3, <1>5, <1>6, <1>7, <1>8

LEMMA ThreeTexts ==
    ASSUME NEW head \in Seq(Byte), NEW f, DOMAIN f = 1 .. 3, \A k \in 1 .. 3 : f[k] \in Seq(Char),
           NEW h \in Nat, h = Len(head), NEW d, d = head \o Terminated(f)
    PROVE  /\ d \in Seq(Byte) /\ Agrees(d, head) /\ Len(d) = EndThree(h, f)
           /\ Laid(d, f[1], h) /\ Laid(d, f[2], EndOne(h, f)) /\ Laid(d, f[3], EndTwo(h, f))
<1> DEFINE t1 == Append(f[1], 0)  t2 == Append(f[2], 0)  t3 == Append(f[3], 0)
           q == head \o t1
           r == q \o t2
           u == r \o t3
<1>0. f[1] \in Seq(Char) /\ f[2] \in Seq(Char) /\ f[3] \in Seq(Char)
  OBVIOUS
<1>1. Terminated(f) = (t1 \o t2) \o t3
  <2> DEFINE seqs == [k \in DOMAIN f |-> Append(f[k], 0)]
  <2>1. Len(seqs) = 3 /\ seqs[1] = t1 /\ seqs[2] = t2 /\ seqs[3] = t3
    OBVIOUS
  <2> HIDE DEF seqs
  <2>2. FlattenSeq(seqs) = (t1 \o t2) \o t3
    BY <2>1, FlattenThree
  <2> QED
    BY <2>2 DEF Terminated, seqs
<1>2. t1 \in Seq(Byte) /\ t2 \in Seq(Byte) /\ t3 \in Seq(Byte)
  BY <1>0, TextAndNul
<1>3. d = u
  <2> HIDE DEF t1, t2, t3
  <2>1. t1 \o t2 \in Seq(Byte)
    BY <1>2, Joined
  <2>2. head \o ((t1 \o t2) \o t3) = (head \o (t1 \o t2)) \o t3
    BY <1>2, <2>1, Regroup
  <2>3. head \o (t1 \o t2) = (head \o t1) \o t2
    BY <1>2, Regroup
  <2> QED
    BY <1>1, <2>2, <2>3
<1>4. /\ q \in Seq(Byte) /\ Agrees(q, head) /\ Len(q) = h + Len(f[1]) + 1
      /\ Len(f[1]) \in Nat /\ Laid(q, f[1], h)
  BY <1>0, AnotherText
<1> HIDE DEF q
<1>5. /\ r \in Seq(Byte) /\ Agrees(r, q) /\ Len(r) = Len(q) + Len(f[2]) + 1
      /\ Len(f[2]) \in Nat /\ Laid(r, f[2], Len(q))
  BY <1>0, <1>4, AnotherText
<1> HIDE DEF r
<1>6. /\ u \in Seq(Byte) /\ Agrees(u, r) /\ Len(u) = Len(r) + Len(f[3]) + 1
      /\ Len(f[3]) \in Nat /\ Laid(u, f[3], Len(r))
  BY <1>0, <1>5, AnotherText
<1> HIDE DEF u, t1, t2, t3
<1>7. Len(head) <= Len(q) /\ Len(q) <= Len(r) /\ Len(head) <= Len(r)
  BY <1>4, <1>5
<1>8. Agrees(r, head) /\ Agrees(u, head) /\ Agrees(u, q)
  <2>1. Agrees(r, head)
    BY <1>4, <1>5, <1>7, AgreesOn
  <2>2. Agrees(u, q)
    BY <1>4, <1>5, <1>6, <1>7, AgreesOn
  <2>3. Agrees(u, head)
    BY <1>5, <1>6, <1>7, <2>1, AgreesOn
  <2> QED
    BY <2>1, <2>2, <2>3
<1>9. Laid(u, f[1], h)
  <2>1. h + Len(f[1]) + 1 <= Len(q)
    BY <1>4
  <2> QED
    BY <1>0, <1>4, <1>6, <1>8, <2>1, LaidAgrees
<1>10. Laid(u, f[2], Len(q))
  <2>1. Len(q) + Len(f[2]) + 1 <= Len(r) /\ Len(q) \in Nat
    BY <1>4, <1>5
  <2> QED
    BY <1>0, <1>5, <1>6, <2>1, LaidAgrees
<1>11. Len(q) = EndOne(h, f) /\ Len(r) = EndTwo(h, f) /\ Len(u) = EndThree(h, f)
  BY <1>4, <1>5, <1>6 DEF EndOne, EndTwo, EndThree
<1> QED
  BY <1>3, <1>6, <1>8, <1>9, <1>10, <1>11

-----------------------------------------------------------------------------
(* What is read of bytes that agree with written ones. *)

(* Two texts. *)
LEMMA ReadsTwo ==
    ASSUME NEW x \in Seq(Byte), NEW f, f[1] \in Seq(Char), f[2] \in Seq(Char),
           Laid(x, f[1], 3), Laid(x, f[2], EndOne(3, f))
    PROVE  /\ EndTwo(3, f) \in Nat /\ EndTwo(3, f) > 3
           /\ Len(x) < EndTwo(3, f) => FieldEnd(x, 2) = 0
           /\ EndTwo(3, f) <= Len(x) =>
                  FieldEnd(x, 2) = EndTwo(3, f) /\ FieldOf(x, 1) = f[1] /\ FieldOf(x, 2) = f[2]
<1>1. PICK l1 \in Nat, l2 \in Nat, n \in Nat, e1 \in Nat, e2 \in Nat :
          /\ l1 = Len(f[1]) /\ l2 = Len(f[2]) /\ n = Len(x)
          /\ e1 = EndOne(3, f) /\ e2 = EndTwo(3, f) /\ e1 = 3 + l1 + 1 /\ e2 = e1 + l2 + 1
  <2>1. Len(f[1]) \in Nat /\ Len(f[2]) \in Nat /\ Len(x) \in Nat
    BY LenProperties
  <2>2. EndOne(3, f) = 3 + Len(f[1]) + 1 /\ EndTwo(3, f) = EndOne(3, f) + Len(f[2]) + 1
    BY DEF EndOne, EndTwo
  <2> QED
    BY <2>1, <2>2
<1>2. /\ e1 <= n => Nul(x, 3 + 1) = e1 /\ SubSeq(x, 3 + 1, 3 + l1) = f[1]
      /\ n < e1 => Nul(x, 3 + 1) = 0
  BY <1>1, TextFound
<1>3. /\ e2 <= n => Nul(x, e1 + 1) = e2 /\ SubSeq(x, e1 + 1, e1 + l2) = f[2]
      /\ n < e2 => Nul(x, e1 + 1) = 0
  BY <1>1, TextFound
<1>4. /\ FieldEnd(x, 0) = 3
      /\ FieldEnd(x, 1) = Nul(x, 3 + 1)
      /\ FieldEnd(x, 2) = EndAfter(x, FieldEnd(x, 1))
  BY FieldEnds DEF EndAfter
<1>5. ASSUME n < e2 PROVE FieldEnd(x, 2) = 0
  BY <1>1, <1>2, <1>3, <1>4, <1>5 DEF EndAfter
<1>6. ASSUME e2 <= n
      PROVE  FieldEnd(x, 2) = e2 /\ FieldOf(x, 1) = f[1] /\ FieldOf(x, 2) = f[2]
  <2>1. FieldEnd(x, 1) = e1 /\ e1 # 0 /\ e1 <= n
    BY <1>1, <1>2, <1>4, <1>6
  <2>2. FieldEnd(x, 2) = e2
    BY <1>3, <1>4, <1>6, <2>1 DEF EndAfter
  <2>3. e1 - 1 = 3 + l1 /\ e2 - 1 = e1 + l2 /\ 1 - 1 = 0 /\ 2 - 1 = 1
    BY <1>1
  <2>4. FieldOf(x, 1) = f[1]
    BY <1>2, <1>4, <2>1, <2>3 DEF FieldOf
  <2>5. FieldOf(x, 2) = f[2]
    BY <1>3, <1>6, <2>1, <2>2, <2>3 DEF FieldOf
  <2> QED
    BY <2>2, <2>4, <2>5
<1> QED
  BY <1>1, <1>5, <1>6

LEMMA ReadsThree ==
    ASSUME NEW x \in Seq(Byte), NEW f, f[1] \in Seq(Char), f[2] \in Seq(Char), f[3] \in Seq(Char),
           Laid(x, f[1], 3), Laid(x, f[2], EndOne(3, f)), Laid(x, f[3], EndTwo(3, f))
    PROVE  /\ EndThree(3, f) \in Nat /\ EndThree(3, f) > 3
           /\ Len(x) < EndThree(3, f) => FieldEnd(x, 3) = 0
           /\ EndThree(3, f) <= Len(x) =>
                  /\ FieldEnd(x, 3) = EndThree(3, f) /\ FieldOf(x, 1) = f[1]
                  /\ FieldOf(x, 2) = f[2] /\ FieldOf(x, 3) = f[3]
<1>1. PICK l3 \in Nat, n \in Nat, e2 \in Nat, e3 \in Nat :
          /\ l3 = Len(f[3]) /\ n = Len(x) /\ e2 > 3
          /\ e2 = EndTwo(3, f) /\ e3 = EndThree(3, f) /\ e3 = e2 + l3 + 1
  <2>1. Len(f[3]) \in Nat /\ Len(x) \in Nat
    BY LenProperties
  <2>2. EndThree(3, f) = EndTwo(3, f) + Len(f[3]) + 1 /\ EndTwo(3, f) \in Nat /\ EndTwo(3, f) > 3
    BY ReadsTwo DEF EndThree
  <2> QED
    BY <2>1, <2>2
<1>2. /\ n < e2 => FieldEnd(x, 2) = 0
      /\ e2 <= n => FieldEnd(x, 2) = e2 /\ FieldOf(x, 1) = f[1] /\ FieldOf(x, 2) = f[2]
  BY <1>1, ReadsTwo
<1>3. /\ e3 <= n => Nul(x, e2 + 1) = e3 /\ SubSeq(x, e2 + 1, e2 + l3) = f[3]
      /\ n < e3 => Nul(x, e2 + 1) = 0
  BY <1>1, TextFound
<1>4. FieldEnd(x, 3) = EndAfter(x, FieldEnd(x, 2))
  BY FieldEnds
<1>5. ASSUME n < e3 PROVE FieldEnd(x, 3) = 0
  BY <1>1, <1>2, <1>3, <1>4, <1>5 DEF EndAfter
<1>6. ASSUME e3 <= n
      PROVE  FieldEnd(x, 3) = e3 /\ FieldOf(x, 1) = f[1] /\ FieldOf(x, 2) = f[2] /\ FieldOf(x, 3) = f[3]
  <2>1. FieldEnd(x, 2) = e2 /\ e2 # 0 /\ FieldOf(x, 1) = f[1] /\ FieldOf(x, 2) = f[2]
    BY <1>1, <1>2, <1>6
  <2>2. FieldEnd(x, 3) = e3
    BY <1>3, <1>4, <1>6, <2>1 DEF EndAfter
  <2>3. e3 - 1 = e2 + l3 /\ 3 - 1 = 2
    BY <1>1
  <2>4. FieldOf(x, 3) = f[3]
    BY <1>3, <1>6, <2>1, <2>2, <2>3 DEF FieldOf
  <2> QED
    BY <2>1, <2>2, <2>4
<1> QED
  BY <1>1, <1>5, <1>6

-----------------------------------------------------------------------------
(* Messages. *)

Id == {n \in Nat : n < 65536}

TextTypes == {"AUTH", "JOIN", "MSG", "ERR"}

LEMMA WrittenTyped ==
    ASSUME NEW m \in Written
    PROVE  /\ m.type \in {"CONFIRM", "REPLY", "AUTH", "JOIN", "MSG", "ERR", "BYE"}
           /\ m.id \in Id /\ m.result \in {0, 1} /\ m.ref_id \in Id
           /\ m.type # "REPLY" => m.result = 0 /\ m.ref_id = 0
           /\ m.fields = [k \in 1 .. FieldCount(m.type) |-> m.fields[k]]
           /\ DOMAIN m.fields = 1 .. FieldCount(m.type)
           /\ \A k \in DOMAIN m.fields : m.fields[k] \in Seq(Char)
           /\ m.by \in {"client", "server"} /\ (m.type = "REPLY" => m.by = "server")
<1>1. PICK t \in {"CONFIRM", "REPLY", "AUTH", "JOIN", "MSG", "ERR", "BYE"} :
          m \in [by : IF t = "REPLY" THEN {"server"} ELSE {"client", "server"}, type : {t}, id : Ids, result : IF t = "REPLY" THEN {0, 1} ELSE {0},
                 ref_id : IF t = "REPLY" THEN Ids ELSE {0},
                 fields : [1 .. FieldCount(t) -> Texts]]
  BY Zenon DEF Written
<1>2. /\ m.type = t /\ m.id \in Ids /\ m.result \in (IF t = "REPLY" THEN {0, 1} ELSE {0})
      /\ m.ref_id \in (IF t = "REPLY" THEN Ids ELSE {0})
      /\ m.fields \in [1 .. FieldCount(t) -> Texts]
      /\ m.by \in (IF t = "REPLY" THEN {"server"} ELSE {"client", "server"})
  BY <1>1
<1>3. Ids \subseteq Id /\ Texts \subseteq Seq(Char)
  BY CodecAssumption, SMT DEF Char, Id
<1>4. m.id \in Id /\ m.result \in {0, 1} /\ m.ref_id \in Id
  <2>1. 0 \in Id
    BY DEF Id
  <2> QED
    BY <1>2, <1>3, <2>1, Zenon
<1>5. m.type # "REPLY" => m.result = 0 /\ m.ref_id = 0
  BY <1>2, Zenon
<1>6. /\ m.fields = [k \in 1 .. FieldCount(m.type) |-> m.fields[k]]
      /\ DOMAIN m.fields = 1 .. FieldCount(m.type)
      /\ \A k \in DOMAIN m.fields : m.fields[k] \in Seq(Char)
  BY <1>2, <1>3, Zenon
<1>7. m.by \in {"client", "server"} /\ (m.type = "REPLY" => m.by = "server")
  BY <1>2, Zenon
<1> QED
  BY <1>1, <1>2, <1>4, <1>5, <1>6, <1>7

LEMMA TwoBytes ==
    ASSUME NEW n \in Id
    PROVE  /\ n \div 256 \in Byte /\ n % 256 \in Byte
           /\ (n \div 256) * 256 + (n % 256) = n /\ (n % 256) \div 256 = 0
<1>1. n \in Nat /\ n < 65536
  BY DEF Id
<1> QED
  BY <1>1 DEF Byte

(* The high byte of the client's ids is lost: it is cast to a byte before
   the shift. *)
LEMMA IdBytes ==
    ASSUME NEW m \in Written
    PROVE  /\ HighByte(m) \in Byte /\ m.id % 256 \in Byte
           /\ HighByte(m) * 256 + (m.id % 256) = IdSent(m)
<1>1. m.id \in Id
  BY WrittenTyped
<1>2. /\ m.id \div 256 \in Byte /\ m.id % 256 \in Byte
      /\ (m.id \div 256) * 256 + (m.id % 256) = m.id /\ (m.id % 256) \div 256 = 0
  BY <1>1, TwoBytes
<1>3. CASE m.by = "server"
  BY <1>2, <1>3 DEF HighByte, IdSent
<1>4. CASE m.by # "server"
  <2>1. HighByte(m) = 0 /\ IdSent(m) = m.id % 256
    BY <1>2, <1>4, Zenon DEF HighByte, HighByteSent, IdSent
  <2>2. 0 \in Byte /\ \A a \in Byte : 0 * 256 + a = a
    BY DEF Byte
  <2> QED
    BY <1>2, <2>1, <2>2
<1> QED
  BY <1>3, <1>4

LEMMA HeaderBytes ==
    ASSUME NEW m \in Written, NEW h, h = Header(m)
    PROVE  /\ h \in Seq(Byte) /\ Len(h) = 3 /\ h[1] = Code(m.type)
           /\ h[2] * 256 + h[3] = IdSent(m)
<1>1. m.type \in {"CONFIRM", "REPLY", "AUTH", "JOIN", "MSG", "ERR", "BYE"}
  BY WrittenTyped
<1>2. /\ HighByte(m) \in Byte /\ m.id % 256 \in Byte
      /\ HighByte(m) * 256 + (m.id % 256) = IdSent(m)
  BY IdBytes
<1>3. Code(m.type) \in Byte
  BY <1>1 DEF Code, Byte
<1>4. PICK c \in Byte, p \in Byte, q \in Byte :
          c = Code(m.type) /\ p = HighByte(m) /\ q = m.id % 256
  BY <1>2, <1>3, Zenon
<1>5. h = <<c, p, q>>
  BY <1>4, Zenon DEF Header
<1> HIDE DEF Byte
<1>6. h \in Seq(Byte) /\ Len(h) = 3 /\ h[1] = c /\ h[2] = p /\ h[3] = q
  BY ONLY <1>5, c \in Byte, p \in Byte, q \in Byte
<1> QED
  BY <1>2, <1>4, <1>6, Zenon

(* The texts of a message are read back from bytes that hold all of them. *)
LEMMA TextsFound ==
    ASSUME NEW m \in Written, m.type \in TextTypes, NEW x \in Seq(Byte), NEW d, d = Encode(m),
           Agrees(x, d)
    PROVE  /\ d \in Seq(Byte) /\ Agrees(d, Header(m)) /\ Len(d) > 3
           /\ Len(x) < Len(d) => FieldEnd(x, FieldCount(m.type)) = 0
           /\ Len(d) <= Len(x) =>
                  /\ FieldEnd(x, FieldCount(m.type)) # 0
                  /\ \A k \in 1 .. FieldCount(m.type) : FieldOf(x, k) = m.fields[k]
<1> DEFINE f == m.fields
           h == Header(m)
<1>1. /\ m.type \in TextTypes /\ m.type # "REPLY" /\ DOMAIN f = 1 .. FieldCount(m.type)
      /\ \A k \in 1 .. FieldCount(m.type) : f[k] \in Seq(Char)
  BY WrittenTyped DEF TextTypes
<1>2. h \in Seq(Byte) /\ Len(h) = 3 /\ d = h \o Terminated(f)
  BY <1>1, HeaderBytes DEF Encode
<1> HIDE DEF h, f
<1>3. CASE FieldCount(m.type) = 2
  <2>1. /\ d \in Seq(Byte) /\ Agrees(d, h) /\ Len(d) = EndTwo(3, f)
        /\ Laid(d, f[1], 3) /\ Laid(d, f[2], EndOne(3, f))
    BY <1>1, <1>2, <1>3, TwoTexts
  <2>2. f[1] \in Seq(Char) /\ f[2] \in Seq(Char)
    BY <1>1, <1>3
  <2>3. Len(f[1]) \in Nat /\ Len(f[2]) \in Nat
    BY <2>2, LenProperties
  <2>4. /\ EndOne(3, f) \in Nat /\ 3 + Len(f[1]) + 1 <= Len(d)
        /\ EndOne(3, f) + Len(f[2]) + 1 <= Len(d)
    <3>1. /\ EndOne(3, f) \in Nat /\ EndTwo(3, f) \in Nat /\ 3 + Len(f[1]) + 1 = EndOne(3, f)
          /\ EndOne(3, f) + Len(f[2]) + 1 = EndTwo(3, f) /\ EndOne(3, f) <= EndTwo(3, f)
      BY <2>3, 3 \in Nat, EndsRise
    <3> QED
      BY <2>1, <3>1
  <2>5. Laid(x, f[1], 3) /\ Laid(x, f[2], EndOne(3, f))
    BY <2>1, <2>2, <2>4, LaidAgrees
  <2>6. /\ EndTwo(3, f) > 3
        /\ Len(x) < EndTwo(3, f) => FieldEnd(x, 2) = 0
        /\ EndTwo(3, f) <= Len(x) =>
                  FieldEnd(x, 2) = EndTwo(3, f) /\ FieldOf(x, 1) = f[1] /\ FieldOf(x, 2) = f[2]
    BY <2>2, <2>5, ReadsTwo
  <2>7. \A k \in 1 .. 2 : k = 1 \/ k = 2
    OBVIOUS
  <2>8. EndTwo(3, f) <= Len(x) => \A k \in 1 .. 2 : FieldOf(x, k) = f[k]
    BY <2>6, <2>7
  <2> QED
    BY <1>3, <2>1, <2>6, <2>8 DEF f, h
<1>4. CASE FieldCount(m.type) = 3
  <2>1. /\ d \in Seq(Byte) /\ Agrees(d, h) /\ Len(d) = EndThree(3, f)
        /\ Laid(d, f[1], 3) /\ Laid(d, f[2], EndOne(3, f)) /\ Laid(d, f[3], EndTwo(3, f))
    BY <1>1, <1>2, <1>4, ThreeTexts
  <2>2. f[1] \in Seq(Char) /\ f[2] \in Seq(Char) /\ f[3] \in Seq(Char)
    BY <1>1, <1>4
  <2>3. Len(f[1]) \in Nat /\ Len(f[2]) \in Nat /\ Len(f[3]) \in Nat
    BY <2>2, LenProperties
  <2>4. /\ EndOne(3, f) \in Nat /\ EndTwo(3, f) \in Nat /\ 3 + Len(f[1]) + 1 <= Len(d)
        /\ EndOne(3, f) + Len(f[2]) + 1 <= Len(d) /\ EndTwo(3, f) + Len(f[3]) + 1 <= Len(d)
    <3>1. /\ EndOne(3, f) \in Nat /\ EndTwo(3, f) \in Nat /\ 3 + Len(f[1]) + 1 = EndOne(3, f)
          /\ EndOne(3, f) + Len(f[2]) + 1 = EndTwo(3, f) /\ EndOne(3, f) <= EndTwo(3, f)
          /\ EndTwo(3, f) + Len(f[3]) + 1 = EndThree(3, f)
          /\ EndThree(3, f) \in Nat /\ EndTwo(3, f) <= EndThree(3, f)
      BY <2>3, 3 \in Nat, EndsRise
    <3>2. PICK e1 \in Nat, e2 \in Nat, e3 \in Nat :
              e1 = EndOne(3, f) /\ e2 = EndTwo(3, f) /\ e3 = EndThree(3, f)
      BY <3>1
    <3>3. e1 <= e2 /\ e2 <= e3 /\ e1 <= e3 /\ Len(d) = e3
      BY <2>1, <3>1, <3>2
    <3>4. 3 + Len(f[1]) + 1 = e1 /\ e1 + Len(f[2]) + 1 = e2 /\ e2 + Len(f[3]) + 1 = e3
      BY <3>1, <3>2
    <3>5. 3 + Len(f[1]) + 1 <= Len(d) /\ e1 + Len(f[2]) + 1 <= Len(d) /\ e2 + Len(f[3]) + 1 <= Len(d)
      BY <3>2, <3>3, <3>4
    <3> QED
      BY <3>2, <3>5
  <2>5. Laid(x, f[1], 3) /\ Laid(x, f[2], EndOne(3, f)) /\ Laid(x, f[3], EndTwo(3, f))
    BY <2>1, <2>2, <2>4, LaidAgrees
  <2>6. /\ EndThree(3, f) > 3
        /\ Len(x) < EndThree(3, f) => FieldEnd(x, 3) = 0
        /\ EndThree(3, f) <= Len(x) =>
                  /\ FieldEnd(x, 3) = EndThree(3, f) /\ FieldOf(x, 1) = f[1]
                  /\ FieldOf(x, 2) = f[2] /\ FieldOf(x, 3) = f[3]
    BY <2>2, <2>5, ReadsThree
  <2>7. \A k \in 1 .. 3 : k = 1 \/ k = 2 \/ k = 3
    OBVIOUS
  <2>8. EndThree(3, f) <= Len(x) => \A k \in 1 .. 3 : FieldOf(x, k) = f[k]
    BY <2>6, <2>7
  <2>9. EndThree(3, f) <= Len(x) => FieldEnd(x, 3) # 0
    BY <2>6
  <2> QED
    BY <1>4, <2>1, <2>6, <2>8, <2>9 DEF f, h
<1>5. FieldCount(m.type) = 2 \/ FieldCount(m.type) = 3
  BY <1>1 DEF TextTypes, FieldCount
<1> QED
  BY <1>3, <1>4, <1>5

(* What data_to_message makes of such bytes. *)
LEMMA TextsRead ==
    ASSUME NEW m \in Written, m.type \in TextTypes, NEW x \in Seq(Byte), Agrees(x, Encode(m))
    PROVE  /\ Encode(m) \in Seq(Byte) /\ Len(Encode(m)) > 3
           /\ Len(x) >= 1 => x[1] = Code(m.type)
           /\ Len(x) < Len(Encode(m)) => WithFields(x, m.type) = Throws
           /\ Len(Encode(m)) <= Len(x) =>
                  \/ /\ \E k \in DOMAIN m.fields : m.fields[k] = <<>>
                     /\ WithFields(x, m.type) = UnknownWithId(x)
                  \/ /\ \A k \in DOMAIN m.fields : m.fields[k] # <<>>
                     /\ WithFields(x, m.type) = Parsed(m.type, IdSent(m), 0, 0, m.fields)
<1> DEFINE d == Encode(m)
           n == FieldCount(m.type)
           fields == [k \in 1 .. n |-> FieldOf(x, k)]
<1>1. /\ d \in Seq(Byte) /\ Agrees(d, Header(m)) /\ Len(d) > 3
      /\ Len(x) < Len(d) => FieldEnd(x, n) = 0
      /\ Len(d) <= Len(x) =>
             FieldEnd(x, n) # 0 /\ \A k \in 1 .. n : FieldOf(x, k) = m.fields[k]
  BY TextsFound
<1>2. /\ Header(m) \in Seq(Byte) /\ Len(Header(m)) = 3 /\ Header(m)[1] = Code(m.type)
      /\ Header(m)[2] * 256 + Header(m)[3] = IdSent(m)
  BY HeaderBytes
<1>3. Len(x) \in Nat /\ Len(d) \in Nat
  BY <1>1, LenProperties
<1> HIDE DEF d
<1>4. /\ Len(x) >= 1 => x[1] = Code(m.type)
      /\ Len(x) >= 3 => x[2] = Header(m)[2] /\ x[3] = Header(m)[3]
  <2>1. \A i \in Nat : 1 <= i /\ i <= 3 /\ i <= Len(x) => x[i] = Header(m)[i]
    BY <1>1, <1>2, <1>3 DEF Agrees, d
  <2> QED
    BY <1>2, <1>3, <2>1
<1>5. WithFields(x, m.type) =
          IF Len(x) < 3 \/ FieldEnd(x, n) = 0 THEN Throws
          ELSE IF \E k \in 1 .. n : fields[k] = <<>> THEN UnknownWithId(x)
          ELSE Parsed(m.type, x[2] * 256 + x[3], 0, 0, fields)
  BY Zenon DEF WithFields
<1>6. ASSUME Len(x) < Len(d) PROVE WithFields(x, m.type) = Throws
  BY <1>1, <1>5, <1>6
<1>7. ASSUME Len(d) <= Len(x)
      PROVE  \/ /\ \E k \in DOMAIN m.fields : m.fields[k] = <<>>
                /\ WithFields(x, m.type) = UnknownWithId(x)
             \/ /\ \A k \in DOMAIN m.fields : m.fields[k] # <<>>
                /\ WithFields(x, m.type) = Parsed(m.type, IdSent(m), 0, 0, m.fields)
  <2>1. ~(Len(x) < 3) /\ FieldEnd(x, n) # 0
    BY <1>1, <1>3, <1>7
  <2>2. m.fields = [k \in 1 .. n |-> m.fields[k]] /\ DOMAIN m.fields = 1 .. n
    BY WrittenTyped, Zenon
  <2>3. fields = m.fields
    <3>1. \A k \in 1 .. n : FieldOf(x, k) = m.fields[k]
      BY <1>1, <1>7
    <3>2. fields = [k \in 1 .. n |-> m.fields[k]]
      BY <3>1, Zenon
    <3> QED
      BY <2>2, <3>2, Zenon
  <2> HIDE DEF fields
  <2>4. x[2] * 256 + x[3] = IdSent(m)
    <3>1. x[2] = Header(m)[2] /\ x[3] = Header(m)[3]
      BY <1>3, <1>4, <2>1
    <3> QED
      BY <1>2, <3>1, Zenon
  <2>5. WithFields(x, m.type) =
          IF \E k \in 1 .. n : m.fields[k] = <<>> THEN UnknownWithId(x)
          ELSE Parsed(m.type, IdSent(m), 0, 0, m.fields)
    BY <1>5, <2>1, <2>3, <2>4, Zenon
  <2> HIDE DEF n
  <2> QED
    BY <2>2, <2>5, Zenon
<1> QED
  BY <1>1, <1>4, <1>6, <1>7 DEF d

(* The six bytes before the contents of a REPLY hold both ids in full. *)
ReplyHead(m) ==
    <<Code("REPLY"), HighByte(m), m.id % 256, m.result, m.ref_id \div 256, m.ref_id % 256>>

LEMMA ReplyHeadBytes ==
    ASSUME NEW m \in Written, NEW h, h = ReplyHead(m)
    PROVE  /\ h \in Seq(Byte) /\ Len(h) = 6 /\ h[1] = Code("REPLY") /\ h[4] = m.result
           /\ h[2] * 256 + h[3] = IdSent(m) /\ h[5] * 256 + h[6] = m.ref_id
<1>1. m.id \in Id /\ m.ref_id \in Id /\ m.result \in {0, 1}
  BY WrittenTyped
<1>2. /\ HighByte(m) \in Byte /\ m.id % 256 \in Byte
      /\ m.ref_id \div 256 \in Byte /\ m.ref_id % 256 \in Byte
      /\ HighByte(m) * 256 + (m.id % 256) = IdSent(m)
      /\ (m.ref_id \div 256) * 256 + (m.ref_id % 256) = m.ref_id
  BY <1>1, IdBytes, TwoBytes
<1>3. Code("REPLY") \in Byte /\ m.result \in Byte
  BY <1>1 DEF Code, Byte
<1>4. PICK c \in Byte, p \in Byte, q \in Byte, r \in Byte, u \in Byte, v \in Byte :
          /\ c = Code("REPLY") /\ p = HighByte(m) /\ q = m.id % 256 /\ r = m.result
          /\ u = m.ref_id \div 256 /\ v = m.ref_id % 256
  BY <1>2, <1>3, Zenon
<1>5. h = <<c, p, q, r, u, v>>
  BY <1>4, Zenon DEF ReplyHead
<1> HIDE DEF Byte
<1>6. /\ h \in Seq(Byte) /\ Len(h) = 6
      /\ h[1] = c /\ h[2] = p /\ h[3] = q /\ h[4] = r /\ h[5] = u /\ h[6] = v
  BY ONLY <1>5, c \in Byte, p \in Byte, q \in Byte, r \in Byte, u \in Byte, v \in Byte
<1> QED
  BY <1>2, <1>4, <1>6, Zenon

(* The contents of a REPLY reach to the end of the datagram, whose last byte
   must be 0: a text that has been cut ends with another. *)
LEMMA ReplyRead ==
    ASSUME NEW m \in Written, m.type = "REPLY", NEW x \in Seq(Byte), Agrees(x, Encode(m))
    PROVE  /\ Encode(m) \in Seq(Byte) /\ Len(Encode(m)) > 3
           /\ Len(x) >= 1 => x[1] = Code("REPLY")
           /\ Len(x) < Len(Encode(m)) => Reply(x) = Throws \/ Reply(x) = UnknownWithId(x)
           /\ Len(x) = Len(Encode(m)) => Reply(x) = Parsed("REPLY", IdSent(m), m.result, m.ref_id, m.fields)
           /\ Len(x) > Len(Encode(m)) =>
                  \/ Reply(x) = UnknownWithId(x)
                  \/ \E fields : Reply(x) = Parsed("REPLY", IdSent(m), m.result, m.ref_id, fields)
<1> DEFINE d == Encode(m)
           h == ReplyHead(m)
           f == m.fields
           s == f[1]
<1>1. DOMAIN f = 1 .. 1 /\ f = [k \in 1 .. 1 |-> f[k]] /\ s \in Seq(Char)
  <2>1. FieldCount(m.type) = 1
    BY DEF FieldCount
  <2>2. /\ f = [k \in 1 .. FieldCount(m.type) |-> f[k]] /\ DOMAIN f = 1 .. FieldCount(m.type)
        /\ \A k \in DOMAIN f : f[k] \in Seq(Char)
    BY WrittenTyped, Zenon
  <2>3. 1 \in 1 .. 1
    OBVIOUS
  <2> QED
    BY <2>1, <2>2, <2>3, Zenon
<1>2. /\ h \in Seq(Byte) /\ Len(h) = 6 /\ h[1] = Code("REPLY") /\ h[4] = m.result
      /\ h[2] * 256 + h[3] = IdSent(m) /\ h[5] * 256 + h[6] = m.ref_id
  BY ReplyHeadBytes
<1>3. d = h \o Terminated(f)
  BY Zenon DEF Encode, ReplyHead
<1> HIDE DEF d, h, f
<1>4. /\ d \in Seq(Byte) /\ Agrees(d, h) /\ Len(d) = EndOne(6, f) /\ Laid(d, s, 6)
  BY <1>1, <1>2, <1>3, 6 \in Nat, OneText
<1> HIDE DEF s
<1>5. PICK a \in Nat, l \in Nat, n \in Nat, e \in Nat :
          /\ a = 6 /\ l = Len(s) /\ n = Len(x) /\ e = Len(d) /\ e = a + l + 1 /\ e > 6
  <2>1. Len(s) \in Nat /\ Len(x) \in Nat /\ Len(d) \in Nat
    BY <1>1, <1>4, LenProperties
  <2>2. Len(d) = 6 + Len(s) + 1
    BY <1>4 DEF EndOne, s
  <2>3. PICK l \in Nat : l = Len(s)
    BY <2>1
  <2>4. Len(d) = 6 + l + 1 /\ Len(d) > 6
    BY <2>2, <2>3
  <2> QED
    BY <2>1, <2>3, <2>4
<1>6. Laid(x, s, a)
  <2>1. Agrees(x, d) /\ a + Len(s) + 1 <= Len(d)
    BY <1>5 DEF d
  <2> QED
    BY <1>1, <1>4, <1>5, <2>1, LaidAgrees
<1>7. \A i \in Nat : 1 <= i /\ i <= 6 /\ i <= n => x[i] = h[i]
  <2>1. \A i \in Nat : 1 <= i /\ i <= n /\ i <= e => x[i] = d[i]
    BY <1>5 DEF Agrees, d
  <2>2. \A i \in Nat : 1 <= i /\ i <= e /\ i <= 6 => d[i] = h[i]
    BY <1>2, <1>4, <1>5 DEF Agrees
  <2> QED
    BY <1>5, <2>1, <2>2
<1>8. n >= 1 => x[1] = Code("REPLY")
  BY <1>2, <1>7
<1>9. Reply(x) =
          IF n < 7 THEN Throws
          ELSE IF x[n] # 0 THEN UnknownWithId(x)
          ELSE Parsed("REPLY", IdSent(m), m.result, m.ref_id, <<SubSeq(x, 7, n - 1)>>)
  <2>1. CASE n < 7
    BY <1>5, <2>1 DEF Reply
  <2>2. CASE ~(n < 7)
    <3>1. x[2] = h[2] /\ x[3] = h[3] /\ x[4] = h[4] /\ x[5] = h[5] /\ x[6] = h[6]
      BY <1>7, <2>2
    <3>2. x[2] * 256 + x[3] = IdSent(m) /\ x[4] = m.result /\ x[5] * 256 + x[6] = m.ref_id
      BY <1>2, <3>1, Zenon
    <3> QED
      BY <1>5, <2>2, <3>2, Zenon DEF Reply
  <2> QED
    BY <2>1, <2>2
<1>10. ASSUME n < e PROVE Reply(x) = Throws \/ Reply(x) = UnknownWithId(x)
  <2>1. CASE n < 7
    BY <1>9, <2>1
  <2>2. CASE ~(n < 7)
    <3>1. n - a \in 1 .. l /\ a + (n - a) = n
      BY <1>5, <1>10, <2>2
    <3>2. x[n] = s[n - a]
      BY <1>5, <1>6, <3>1 DEF Laid
    <3>3. s[n - a] # 0
      BY <1>1, <1>5, <3>1, ElementOfSeq, NoNulInText
    <3> QED
      BY <1>9, <2>2, <3>2, <3>3, Zenon
  <2> QED
    BY <2>1, <2>2
<1>11. ASSUME n = e PROVE Reply(x) = Parsed("REPLY", IdSent(m), m.result, m.ref_id, f)
  <2>1. SubSeq(x, a + 1, a + l) = s /\ x[n] = 0
    <3>1. a + Len(s) + 1 <= Len(x)
      BY <1>5, <1>11
    <3>2. SubSeq(x, a + 1, a + Len(s)) = s
      BY <1>1, <1>6, <3>1, TextFound
    <3>3. x[a + Len(s) + 1] = 0
      BY <1>6, <3>1 DEF Laid
    <3> QED
      BY <1>5, <1>11, <3>2, <3>3
  <2>2. a + 1 = 7 /\ a + l = n - 1 /\ ~(n < 7)
    BY <1>5, <1>11
  <2>3. f = <<s>>
    BY <1>1 DEF s
  <2>4. SubSeq(x, 7, n - 1) = s
    BY <2>1, <2>2
  <2> QED
    BY <1>9, <2>1, <2>2, <2>3, <2>4, Zenon
<1>12. ASSUME n > e
       PROVE  \/ Reply(x) = UnknownWithId(x)
              \/ \E fields : Reply(x) = Parsed("REPLY", IdSent(m), m.result, m.ref_id, fields)
  <2>1. ~(n < 7)
    BY <1>5, <1>12
  <2> QED
    BY <1>9, <2>1, Zenon
<1> QED
  BY <1>4, <1>5, <1>8, <1>10, <1>11, <1>12 DEF d, f

(* A CONFIRM and a BYE are a header, and nothing may be missing or follow. *)
LEMMA HeaderRead ==
    ASSUME NEW m \in Written, m.type \in {"CONFIRM", "BYE"}, NEW x \in Seq(Byte), Agrees(x, Encode(m))
    PROVE  /\ Encode(m) \in Seq(Byte) /\ Len(Encode(m)) = 3
           /\ Len(x) >= 1 => x[1] = Code(m.type)
           /\ Len(x) < 3 => HeaderOnly(x, m.type) = Throws
           /\ Len(x) > 3 => HeaderOnly(x, m.type) = UnknownNoId
           /\ Len(x) = 3 => HeaderOnly(x, m.type) = Parsed(m.type, IdSent(m), 0, 0, m.fields)
<1> DEFINE h == Header(m)
           f == m.fields
<1>1. f = <<>>
  <2>1. FieldCount(m.type) = 0
    BY DEF FieldCount
  <2>2. f = [k \in 1 .. FieldCount(m.type) |-> f[k]]
    BY WrittenTyped, Zenon
  <2>3. f = [k \in 1 .. 0 |-> f[k]]
    BY <2>1, <2>2, Zenon
  <2> QED
    BY <2>3
<1>2. Terminated(f) = <<>>
  <2> DEFINE seqs == [k \in DOMAIN f |-> Append(f[k], 0)]
  <2>1. seqs = <<>> /\ Len(seqs) = 0
    BY <1>1
  <2> HIDE DEF seqs
  <2>2. FlattenSeq(seqs) = seqs
    BY <2>1 DEF FlattenSeq
  <2> QED
    BY <2>1, <2>2 DEF Terminated, seqs
<1>3. /\ h \in Seq(Byte) /\ Len(h) = 3 /\ h[1] = Code(m.type)
      /\ h[2] * 256 + h[3] = IdSent(m)
  BY HeaderBytes
<1>4. Encode(m) = h \o Terminated(f)
  BY DEF Encode
<1> HIDE DEF h, f
<1>5. Encode(m) = h
  BY <1>2, <1>3, <1>4, ConcatEmptySeq
<1>6. Len(x) \in Nat
  BY LenProperties
<1>7. \A i \in Nat : 1 <= i /\ i <= 3 /\ i <= Len(x) => x[i] = h[i]
  BY <1>3, <1>5 DEF Agrees
<1>8. Len(x) >= 1 => x[1] = Code(m.type)
  BY <1>3, <1>6, <1>7
<1>9. ASSUME Len(x) = 3 PROVE HeaderOnly(x, m.type) = Parsed(m.type, IdSent(m), 0, 0, f)
  <2>1. x[2] = h[2] /\ x[3] = h[3]
    BY <1>7, <1>9
  <2>3. x[2] * 256 + x[3] = IdSent(m)
    BY <1>3, <2>1, Zenon
  <2>4. HeaderOnly(x, m.type) = Parsed(m.type, x[2] * 256 + x[3], 0, 0, <<>>)
    BY <1>9 DEF HeaderOnly
  <2> QED
    BY <1>1, <2>3, <2>4, Zenon
<1>10. Len(x) < 3 => HeaderOnly(x, m.type) = Throws
  BY DEF HeaderOnly
<1>11. Len(x) > 3 => HeaderOnly(x, m.type) = UnknownNoId
  <2>1. \A n \in Nat : n > 3 => ~(n < 3) /\ n # 3
    OBVIOUS
  <2> QED
    BY <1>6, <2>1, Zenon DEF HeaderOnly
<1> QED
  BY <1>3, <1>5, <1>8, <1>9, <1>10, <1>11 DEF f

(* The first byte decides who reads the others. *)
LEMMA Dispatched ==
    ASSUME NEW x \in Seq(Byte), Len(x) >= 1,
           NEW t \in {"CONFIRM", "REPLY", "AUTH", "JOIN", "MSG", "ERR", "BYE"}, x[1] = Code(t)
    PROVE  /\ t \in {"CONFIRM", "BYE"} => DataToMessage(x) = HeaderOnly(x, t)
           /\ t = "REPLY" => DataToMessage(x) = Reply(x)
           /\ t \in TextTypes => DataToMessage(x) = WithFields(x, t)
<1>1. x # <<>>
  OBVIOUS
<1>2. /\ Code("CONFIRM") = 0 /\ Code("REPLY") = 1 /\ Code("AUTH") = 2 /\ Code("JOIN") = 3
      /\ Code("MSG") = 4 /\ Code("ERR") = 254 /\ Code("BYE") = 255
  BY DEF Code
<1>3. CASE t = "CONFIRM"
  BY <1>1, <1>2, <1>3 DEF DataToMessage, TextTypes
<1>4. CASE t = "REPLY"
  BY <1>1, <1>2, <1>4 DEF DataToMessage, TextTypes
<1>5. CASE t = "AUTH"
  BY <1>1, <1>2, <1>5 DEF DataToMessage, TextTypes
<1>6. CASE t = "JOIN"
  BY <1>1, <1>2, <1>6 DEF DataToMessage, TextTypes
<1>7. CASE t = "MSG"
  BY <1>1, <1>2, <1>7 DEF DataToMessage, TextTypes
<1>8. CASE t = "ERR"
  BY <1>1, <1>2, <1>8 DEF DataToMessage, TextTypes
<1>9. CASE t = "BYE"
  BY <1>1, <1>2, <1>9 DEF DataToMessage, TextTypes
<1> QED
  BY <1>3, <1>4, <1>5, <1>6, <1>7, <1>8, <1>9

-----------------------------------------------------------------------------
(* What becomes of a written message. *)

NoMessage(x, o) == o = Throws \/ o = UnknownNoId \/ o = UnknownWithId(x)

NoEmptyText(m) == \A k \in DOMAIN m.fields : m.fields[k] # <<>>

AsWritten(m) == Parsed(m.type, IdSent(m), m.result, m.ref_id, m.fields)

SameButContents(m, o) ==
    /\ o.type = m.type /\ o.id = IdSent(m)
    /\ m.type # "REPLY" => o.fields = m.fields

LEMMA ParsedIsSame ==
    ASSUME NEW m, NEW result, NEW ref_id, NEW fields, m.type # "REPLY" => fields = m.fields,
           NEW o, o = Parsed(m.type, IdSent(m), result, ref_id, fields)
    PROVE  SameButContents(m, o)
<1>1. o.type = m.type /\ o.id = IdSent(m) /\ o.fields = fields
  BY DEF Parsed
<1> QED
  BY <1>1, Zenon DEF SameButContents

LEMMA Received ==
    ASSUME NEW m \in Written, NEW x \in Seq(Byte), Agrees(x, Encode(m)), NEW o, o = DataToMessage(x)
    PROVE  /\ Encode(m) \in Seq(Byte) /\ Len(Encode(m)) >= 3
           /\ Len(x) < Len(Encode(m)) => NoMessage(x, o)
           /\ Len(x) = Len(Encode(m)) /\ NoEmptyText(m) => o = AsWritten(m)
           /\ Len(x) > Len(Encode(m)) => NoMessage(x, o) \/ SameButContents(m, o)
<1> DEFINE d == Encode(m)
<1>1. /\ m.type \in {"CONFIRM", "REPLY", "AUTH", "JOIN", "MSG", "ERR", "BYE"}
      /\ m.type # "REPLY" => m.result = 0 /\ m.ref_id = 0
      /\ AsWritten(m) = Parsed(m.type, IdSent(m), m.result, m.ref_id, m.fields)
  BY WrittenTyped, Zenon DEF AsWritten
<1>2. Len(x) \in Nat /\ (d \in Seq(Byte) => Len(d) \in Nat)
  BY LenProperties
<1>4. ASSUME Len(x) < 1, d \in Seq(Byte), Len(d) >= 3
      PROVE  /\ Len(x) < Len(d) /\ ~(Len(x) = Len(d)) /\ ~(Len(x) > Len(d))
             /\ NoMessage(x, o)
  <2>1. x = <<>>
    BY <1>2, <1>4, EmptySeq
  <2>2. o = UnknownNoId
    BY <2>1, Zenon DEF DataToMessage
  <2>3. Len(x) < Len(d) /\ ~(Len(x) = Len(d)) /\ ~(Len(x) > Len(d))
    BY <1>2, <1>4
  <2> QED
    BY <2>2, <2>3, Zenon DEF NoMessage
<1> HIDE DEF d
<1>5. CASE m.type \in {"CONFIRM", "BYE"}
  <2>1. /\ d \in Seq(Byte) /\ Len(d) = 3
        /\ Len(x) >= 1 => x[1] = Code(m.type)
        /\ Len(x) < 3 => HeaderOnly(x, m.type) = Throws
        /\ Len(x) > 3 => HeaderOnly(x, m.type) = UnknownNoId
        /\ Len(x) = 3 => HeaderOnly(x, m.type) = Parsed(m.type, IdSent(m), 0, 0, m.fields)
    BY <1>5, HeaderRead DEF d
  <2>2. CASE Len(x) < 1
    BY <1>2, <1>4, <2>1, <2>2 DEF d
  <2>3. CASE Len(x) >= 1
    <3>1. o = HeaderOnly(x, m.type)
      BY <1>1, <1>5, <2>1, <2>3, Dispatched
    <3>2. m.type # "REPLY"
      BY <1>5
    <3>3. Len(x) < 3 => NoMessage(x, o)
      BY <2>1, <3>1, Zenon DEF NoMessage
    <3>4. Len(x) > 3 => NoMessage(x, o)
      BY <2>1, <3>1, Zenon DEF NoMessage
    <3>5. Len(x) = 3 => o = AsWritten(m)
      BY <1>1, <2>1, <3>1, <3>2, Zenon
    <3> QED
      BY <2>1, <3>3, <3>4, <3>5 DEF d
  <2> QED
    BY <1>2, <2>2, <2>3
<1>6. CASE m.type = "REPLY"
  <2>1. /\ d \in Seq(Byte) /\ Len(d) > 3
        /\ Len(x) >= 1 => x[1] = Code("REPLY")
        /\ Len(x) < Len(d) => Reply(x) = Throws \/ Reply(x) = UnknownWithId(x)
        /\ Len(x) = Len(d) => Reply(x) = Parsed("REPLY", IdSent(m), m.result, m.ref_id, m.fields)
        /\ Len(x) > Len(d) =>
               \/ Reply(x) = UnknownWithId(x)
               \/ \E fields : Reply(x) = Parsed("REPLY", IdSent(m), m.result, m.ref_id, fields)
    BY <1>6, ReplyRead DEF d
  <2>0. Len(d) \in Nat /\ Len(d) >= 3
    BY <1>2, <2>1
  <2>2. CASE Len(x) < 1
    BY <1>4, <2>0, <2>1, <2>2 DEF d
  <2>3. CASE Len(x) >= 1
    <3>1. o = Reply(x)
      BY <1>1, <1>6, <2>1, <2>3, Dispatched
    <3>3. Len(x) < Len(d) => NoMessage(x, o)
      BY <2>1, <3>1, Zenon DEF NoMessage
    <3>4. Len(x) = Len(d) => o = AsWritten(m)
      BY <1>1, <1>6, <2>1, <3>1, Zenon
    <3>5. Len(x) > Len(d) => NoMessage(x, o) \/ SameButContents(m, o)
      <4>1. ASSUME NEW fields, Reply(x) = Parsed("REPLY", IdSent(m), m.result, m.ref_id, fields)
            PROVE  SameButContents(m, o)
        BY <1>6, <3>1, <4>1, ParsedIsSame
      <4> QED
        BY <2>1, <3>1, <4>1, Zenon DEF NoMessage
    <3> QED
      BY <2>0, <2>1, <3>3, <3>4, <3>5 DEF d
  <2> QED
    BY <1>2, <2>2, <2>3
<1>7. CASE m.type \in TextTypes
  <2>1. /\ d \in Seq(Byte) /\ Len(d) > 3
        /\ Len(x) >= 1 => x[1] = Code(m.type)
        /\ Len(x) < Len(d) => WithFields(x, m.type) = Throws
        /\ Len(d) <= Len(x) =>
               \/ ~NoEmptyText(m) /\ WithFields(x, m.type) = UnknownWithId(x)
               \/ WithFields(x, m.type) = Parsed(m.type, IdSent(m), 0, 0, m.fields)
    BY <1>7, TextsRead, Zenon DEF d, NoEmptyText
  <2>0. Len(d) \in Nat /\ Len(d) >= 3
    BY <1>2, <2>1
  <2>2. CASE Len(x) < 1
    BY <1>4, <2>0, <2>1, <2>2 DEF d
  <2>3. CASE Len(x) >= 1
    <3>1. o = WithFields(x, m.type)
      BY <1>1, <1>7, <2>1, <2>3, Dispatched
    <3>2. m.type # "REPLY"
      BY <1>7 DEF TextTypes
    <3>3. Len(x) < Len(d) => NoMessage(x, o)
      BY <2>1, <3>1, Zenon DEF NoMessage
    <3>4. Len(d) <= Len(x) /\ NoEmptyText(m) => o = AsWritten(m)
      BY <1>1, <2>1, <3>1, <3>2, Zenon
    <3>5. Len(d) <= Len(x) => NoMessage(x, o) \/ SameButContents(m, o)
      <4>1. ASSUME WithFields(x, m.type) = Parsed(m.type, IdSent(m), 0, 0, m.fields)
            PROVE  SameButContents(m, o)
        BY <3>1, <3>2, <4>1, ParsedIsSame
      <4> QED
        BY <2>1, <3>1, <4>1, Zenon DEF NoMessage
    <3>6. (Len(x) = Len(d) => Len(d) <= Len(x)) /\ (Len(x) > Len(d) => Len(d) <= Len(x))
      BY <1>2, <2>0
    <3> QED
      BY <2>0, <2>1, <3>3, <3>4, <3>5, <3>6, Zenon DEF d
  <2> QED
    BY <1>2, <2>2, <2>3
<1> QED
  BY <1>1, <1>5, <1>6, <1>7 DEF TextTypes

-----------------------------------------------------------------------------
(* The datagram on its way. *)

OnItsWay ==
    /\ damage # "retyped" => datagram \in Seq(Byte) /\ Agrees(datagram, Encode(message))
    /\ damage = "none" => datagram = Encode(message)
    /\ damage = "cut" => Len(datagram) < Len(Encode(message))
    /\ damage = "extended" => Len(datagram) > Len(Encode(message))

CodecInv ==
    /\ message \in Written
    /\ OnItsWay
    /\ outcome.type = "none" \/ outcome = DataToMessage(datagram)

LEMMA EncodeBytes ==
    ASSUME NEW m \in Written
    PROVE  Encode(m) \in Seq(Byte) /\ Len(Encode(m)) \in Nat /\ Agrees(Encode(m), Encode(m))
<1>1. <<>> \in Seq(Byte) /\ Agrees(<<>>, Encode(m))
  BY EmptySeq DEF Agrees
<1>2. Encode(m) \in Seq(Byte)
  BY <1>1, Received
<1> QED
  BY <1>2, LenProperties DEF Agrees

LEMMA CodecInit == Init => CodecInv
<1> SUFFICES ASSUME Init PROVE CodecInv
  OBVIOUS
<1>1. Encode(message) \in Seq(Byte) /\ Agrees(Encode(message), Encode(message))
  BY EncodeBytes DEF Init
<1> QED
  BY <1>1 DEF Init, CodecInv, OnItsWay

LEMMA CodecStep == CodecInv /\ [Next]_vars => CodecInv'
<1> SUFFICES ASSUME CodecInv, [Next]_vars PROVE CodecInv'
  OBVIOUS
<1> DEFINE d == Encode(message)
<1>1. /\ message \in Written /\ d \in Seq(Byte) /\ Len(d) \in Nat /\ Agrees(d, d)
      /\ \A i \in 1 .. Len(d) : d[i] \in Byte
  BY EncodeBytes, ElementOfSeq DEF CodecInv
<1> HIDE DEF d
<1>2. ASSUME NEW kind, NEW bytes, Damage(kind, bytes)
      PROVE  /\ datagram = d /\ damage' = kind /\ datagram' = bytes
             /\ message' = message /\ outcome'.type = "none" /\ Encode(message)' = d
  BY <1>2 DEF Damage, CodecInv, OnItsWay, d
<1>3. ASSUME NEW n \in 0 .. Len(datagram) - 1, Cut(n) PROVE CodecInv'
  <2>1. Damage("cut", SubSeq(datagram, 1, n))
    BY <1>3 DEF Cut
  <2>2. /\ datagram = d /\ damage' = "cut" /\ datagram' = SubSeq(d, 1, n)
        /\ message' = message /\ outcome'.type = "none" /\ Encode(message)' = d
    BY <1>2, <2>1
  <2>3. n \in Nat /\ n < Len(d)
    BY <1>1, <1>3, <2>2
  <2> DEFINE x == SubSeq(d, 1, n)
  <2>4. \A i \in 1 .. n : d[i] \in Byte
    BY <1>1, <2>3
  <2>5. /\ x \in Seq(Byte) /\ Len(x) = (IF 1 <= n THEN n - 1 + 1 ELSE 0)
        /\ \A i \in 1 .. n - 1 + 1 : x[i] = d[1 + i - 1]
    BY ONLY <2>4, SubSeqProperties, 1 \in Int, n \in Nat
  <2> HIDE DEF x
  <2>6. Len(x) = n /\ \A i \in Nat : 1 <= i /\ i <= n => x[i] = d[i]
    BY <2>3, <2>5
  <2>7. Agrees(x, d) /\ Len(x) < Len(d)
    BY <2>3, <2>6 DEF Agrees
  <2> QED
    BY <1>1, <2>2, <2>5, <2>7 DEF CodecInv, OnItsWay, x
<1>4. ASSUME NEW byte \in Extra, Extend(byte) PROVE CodecInv'
  <2>1. Damage("extended", Append(datagram, byte))
    BY <1>4 DEF Extend
  <2>2. /\ datagram = d /\ damage' = "extended" /\ datagram' = Append(d, byte)
        /\ message' = message /\ outcome'.type = "none" /\ Encode(message)' = d
    BY <1>2, <2>1
  <2>3. byte \in Byte
    <3>1. Extra \subseteq Byte
      BY CodecAssumption, SMT DEF Byte
    <3> QED
      BY <3>1
  <2> DEFINE x == Append(d, byte)
  <2>4. /\ x \in Seq(Byte) /\ Len(x) = Len(d) + 1 /\ \A i \in 1 .. Len(d) : x[i] = d[i]
    BY ONLY <1>1, <2>3, AppendProperties
  <2> HIDE DEF x
  <2>5. Agrees(x, d) /\ Len(x) > Len(d)
    BY <1>1, <2>4 DEF Agrees
  <2> QED
    BY <1>1, <2>2, <2>4, <2>5 DEF CodecInv, OnItsWay, x
<1>5. ASSUME Retype PROVE CodecInv'
  <2>1. Damage("retyped", [datagram EXCEPT ![1] = 5])
    BY <1>5 DEF Retype
  <2>2. damage' = "retyped" /\ message' = message /\ outcome'.type = "none"
    BY <1>2, <2>1
  <2> QED
    BY <1>1, <2>2 DEF CodecInv, OnItsWay
<1>6. ASSUME Receive PROVE CodecInv'
  <2>1. outcome' = DataToMessage(datagram) /\ UNCHANGED <<message, datagram, damage>>
    BY <1>6 DEF Receive
  <2>2. DataToMessage(datagram)' = DataToMessage(datagram) /\ Encode(message)' = Encode(message)
    BY <2>1, Zenon
  <2> QED
    BY <2>1, <2>2 DEF CodecInv, OnItsWay
<1>7. ASSUME UNCHANGED vars PROVE CodecInv'
  BY <1>7 DEF CodecInv, OnItsWay, vars
<1> QED
  BY <1>3, <1>4, <1>5, <1>6, <1>7 DEF Next

LEMMA CodecInvariant == Spec => []CodecInv
  BY CodecInit, CodecStep, PTL DEF Spec

(* What has arrived, before it was read or after. *)
LEMMA Arrived ==
    ASSUME CodecInv, damage # "retyped"
    PROVE  \/ outcome.type = "none"
           \/ /\ damage = "none" /\ NoEmptyText(message) => outcome = AsWritten(message)
              /\ damage = "cut" => NoMessage(datagram, outcome)
              /\ damage = "extended" => NoMessage(datagram, outcome) \/ SameButContents(message, outcome)
<1> SUFFICES ASSUME outcome = DataToMessage(datagram)
             PROVE  /\ damage = "none" /\ NoEmptyText(message) => outcome = AsWritten(message)
                    /\ damage = "cut" => NoMessage(datagram, outcome)
                    /\ damage = "extended" =>
                           NoMessage(datagram, outcome) \/ SameButContents(message, outcome)
  BY Zenon DEF CodecInv
<1>1. message \in Written /\ datagram \in Seq(Byte) /\ Agrees(datagram, Encode(message))
  BY DEF CodecInv, OnItsWay
<1> DEFINE m == message
           x == datagram
           o == outcome
<1>2. /\ Len(x) < Len(Encode(m)) => NoMessage(x, o)
      /\ Len(x) = Len(Encode(m)) /\ NoEmptyText(m) => o = AsWritten(m)
      /\ Len(x) > Len(Encode(m)) => NoMessage(x, o) \/ SameButContents(m, o)
  BY <1>1, Received
<1> QED
  BY <1>2, Zenon DEF CodecInv, OnItsWay

LEMMA NotUnderstood ==
    ASSUME NEW x, NoMessage(x, outcome)
    PROVE  ~Understood
BY DEF NoMessage, Understood, Throws, UnknownNoId, UnknownWithId, MessageType

(* An intact datagram is read as it was written, whatever the ids, and
   whatever the texts if they are not empty: the ids of a server in full,
   those of the client's own messages without their upper byte. *)
THEOREM IntactIsRead == Spec => []ReadAsWritten
<1>1. CodecInv => ReadAsWritten
  <2> SUFFICES ASSUME CodecInv, outcome.type # "none", damage = "none",
                      \A k \in DOMAIN message.fields : message.fields[k] # <<>>
               PROVE  outcome = Parsed(message.type, IdSent(message), message.result,
                                message.ref_id, message.fields)
    BY Zenon DEF ReadAsWritten
  <2>1. damage # "retyped" /\ NoEmptyText(message)
    BY Zenon DEF NoEmptyText
  <2>2. outcome = AsWritten(message)
    BY <2>1, Arrived, Zenon
  <2> QED
    BY <2>2, Zenon DEF AsWritten
<1> QED
  BY <1>1, CodecInvariant, PTL

(* A datagram cut anywhere, even in front of its last byte, is refused. *)
THEOREM CutIsRefused == Spec => []CutIsNoMessage
<1>1. CodecInv => CutIsNoMessage
  <2> SUFFICES ASSUME CodecInv, damage = "cut" PROVE ~Understood
    BY DEF CutIsNoMessage
  <2>1. damage # "retyped"
    OBVIOUS
  <2>2. outcome.type = "none" \/ NoMessage(datagram, outcome)
    BY <2>1, Arrived, Zenon
  <2> QED
    BY <2>2, NotUnderstood DEF Understood, MessageType
<1> QED
  BY <1>1, CodecInvariant, PTL

(* Whatever byte is behind the end, nothing else is read than was written,
   the contents of a REPLY aside. *)
THEOREM LongerIsRead == Spec => []LongerIsTheSame
<1>1. CodecInv => LongerIsTheSame
  <2> SUFFICES ASSUME CodecInv, damage = "extended", Understood
               PROVE  /\ outcome.type = message.type /\ outcome.id = IdSent(message)
                      /\ message.type # "REPLY" => outcome.fields = message.fields
    BY DEF LongerIsTheSame
  <2>1. damage # "retyped" /\ outcome.type # "none"
    BY DEF Understood, MessageType
  <2>2. SameButContents(message, outcome)
    BY <2>1, Arrived, NotUnderstood, Zenon
  <2> QED
    BY <2>2, Zenon DEF SameButContents
<1> QED
  BY <1>1, CodecInvariant, PTL
=============================================================================
