------------------------- MODULE StdinReaderProofs -------------------------
(***************************************************************************)
(* Theorems about how typed lines reach parse_input, for every length of a *)
(* line and every number of lines:                                         *)
(*                                                                         *)
(*   StdinWhole       Spec => []WholeLinesInOrder                          *)
(*   NothingLost      Spec => []CharactersKept                             *)
(*                                                                         *)
(* The first rests on where the characters of a terminal are, ReaderInv:   *)
(* outside getline the C stream is empty, and inside it the first          *)
(* character of the line is in front of what the descriptor still has of   *)
(* it.  The second is about every source, and rests on KeptInv: a          *)
(* character that was typed occurs in one of the descriptor, the buffer,   *)
(* the string being read and the parsed lines, and once in it.             *)
(***************************************************************************)
EXTENDS StdinReader, SequenceTheorems, WellFoundedInduction, TLAPS

USE ReaderAssumption

(* A line with its newline. *)
N == LineLength + 1

Character == [line : Int, pos : Int]

-----------------------------------------------------------------------------
(* Arithmetic: the position of the k-th character behind p lines. *)

LEMMA SmallMultiple ==
    ASSUME NEW d \in Int, NEW n \in Nat, d * n < n, -n < d * n
    PROVE  d = 0
  BY SMT

LEMMA Division ==
    ASSUME NEW a \in Nat, NEW n \in Nat \ {0}
    PROVE  /\ a = n * (a \div n) + (a % n)
           /\ a % n \in 0 .. n - 1 /\ a \div n \in Int
  BY SMT

LEMMA Remainder ==
    ASSUME NEW n \in Nat \ {0}, NEW p \in Nat, NEW k \in 0 .. n - 1
    PROVE  (p * n + k) % n = k
<1> DEFINE a == p * n + k
           d == p - (a \div n)
<1>1. a \in Nat
  BY SMT
<1>2. a = n * (a \div n) + (a % n) /\ a % n \in 0 .. n - 1 /\ a \div n \in Int
  BY ONLY Division, <1>1, n \in Nat \ {0}
<1>3. d \in Int
  BY <1>2
<1>4. d * n = (a % n) - k
  <2>1. PICK q \in Int : q = a \div n
    BY <1>2
  <2>2. PICK r \in Int : r = a % n
    BY <1>2
  <2>3. a = n * q + r
    BY <1>2, <2>1, <2>2
  <2> QED
    BY <2>1, <2>2, <2>3
<1>5. d * n < n /\ -n < d * n
  BY <1>2, <1>4
<1>6. d = 0
  <2> HIDE DEF d
  <2> QED
    BY ONLY SmallMultiple, <1>3, <1>5, n \in Nat \ {0}
<1>7. d * n = 0
  BY <1>6
<1>8. (a % n) = k
  <2>1. PICK r \in Int, e \in Int : r = a % n /\ e = d * n
    BY <1>2, <1>7
  <2> HIDE DEF a, d
  <2> QED
    BY <1>4, <1>7, <2>1
<1> HIDE DEF a, d
<1> QED
  BY <1>8 DEF a

(* Multiples, said without a product of variables, for the lemmas below. *)
LEMMA NextLine ==
    ASSUME NEW p \in Nat
    PROVE  /\ N \in Nat /\ N >= 2 /\ p * N \in Nat
           /\ (p + 1) * N = p * N + N
  BY SMT DEF N

(* Among the characters of a line only the last one is a newline. *)
LEMMA WhereNewlines ==
    ASSUME NEW p \in Nat, NEW k \in 1 .. N
    PROVE  IsNewline(Char(p * N + k)) <=> k = N
<1>0. N \in Nat \ {0} /\ (p + 1) * N = p * N + N
  <2>1. N \in Nat /\ N >= 2
    BY NextLine, Zenon
  <2>2. (p + 1) * N = p * N + N
    BY NextLine, Zenon
  <2> QED
    BY ONLY <2>1, <2>2
<1>1. CASE k = N
  <2>1. ((p + 1) * N + 0) % N = 0 /\ (p + 1) * N + 0 = p * N + k
    <3>1. ((p + 1) * N + 0) % N = 0
      <4>1. p + 1 \in Nat /\ 0 \in 0 .. N - 1
        BY <1>0
      <4> QED
        BY ONLY <1>0, <4>1, Remainder
    <3>2. p * N \in Nat
      BY NextLine
    <3> QED
      BY <1>0, <1>1, <3>1, <3>2
  <2> QED
    BY <1>1, <2>1 DEF IsNewline, Char, N
<1>2. CASE k # N
  <2>1. k \in 0 .. N - 1
    BY <1>0, <1>2
  <2>2. (p * N + k) % N = k
    BY ONLY <1>0, <2>1, Remainder, p \in Nat
  <2> QED
    BY <1>2, <2>2, <1>0 DEF IsNewline, Char, N
<1> QED
  BY <1>1, <1>2

-----------------------------------------------------------------------------
(* Runs of characters. *)

LEMMA CharTyped == ASSUME NEW n \in Nat PROVE Char(n) \in Character
<1>1. N \in Nat \ {0} /\ Char(n) = [line |-> (n - 1) \div N + 1, pos |-> n % N]
  BY NextLine DEF N, Char
<1>2. (n - 1) \div N \in Int /\ n % N \in Int
  BY <1>1
<1> QED
  BY <1>1, <1>2 DEF Character

LEMMA CharsAre ==
    ASSUME NEW m \in Nat, NEW n \in Nat, m <= n
    PROVE  /\ Chars(m, n) \in Seq(Character) /\ Len(Chars(m, n)) = n - m
           /\ \A i \in 1 .. n - m : Chars(m, n)[i] = Char(m + i)
<1>1. \A i \in 1 .. n - m : Char(m + i) \in Character
  BY CharTyped
<1> QED
  BY <1>1 DEF Chars

(* A sequence is a run if its elements are. *)
LEMMA IsRun ==
    ASSUME NEW m \in Nat, NEW n \in Nat, m <= n, NEW s \in Seq(Character), Len(s) = n - m,
           \A i \in 1 .. n - m : s[i] = Char(m + i)
    PROVE  s = Chars(m, n)
<1> DEFINE t == Chars(m, n)
<1>1. t \in Seq(Character) /\ Len(t) = n - m /\ \A i \in 1 .. n - m : t[i] = Char(m + i)
  BY CharsAre
<1> HIDE DEF t
<1>2. Len(s) = Len(t) /\ \A i \in 1 .. Len(s) : s[i] = t[i]
  BY <1>1
<1>3. s = t
  BY <1>1, <1>2, SeqEqual
<1> QED
  BY <1>3 DEF t

(* Two runs, one behind the other, and a run cut in two. *)
LEMMA CharsJoin ==
    ASSUME NEW l \in Nat, NEW m \in Nat, NEW n \in Nat, l <= m, m <= n
    PROVE  Chars(l, m) \o Chars(m, n) = Chars(l, n)
<1> DEFINE s == Chars(l, m)  t == Chars(m, n)  u == s \o t
<1>1. /\ s \in Seq(Character) /\ Len(s) = m - l /\ \A i \in 1 .. m - l : s[i] = Char(l + i)
      /\ t \in Seq(Character) /\ Len(t) = n - m /\ \A i \in 1 .. n - m : t[i] = Char(m + i)
  BY CharsAre
<1> HIDE DEF s, t
<1>2. /\ u \in Seq(Character) /\ Len(u) = Len(s) + Len(t)
      /\ \A i \in 1 .. Len(s) + Len(t) : u[i] = IF i <= Len(s) THEN s[i] ELSE t[i - Len(s)]
  BY ONLY <1>1, ConcatProperties
<1> HIDE DEF u
<1>3. ASSUME NEW i \in 1 .. n - l PROVE u[i] = Char(l + i)
  <2>1. i \in 1 .. Len(s) + Len(t)
    BY <1>1
  <2>2. CASE i <= m - l
    <3>1. u[i] = s[i] /\ i \in 1 .. m - l
      BY <1>1, <1>2, <2>1, <2>2
    <3> QED
      BY <1>1, <3>1
  <2>3. CASE i > m - l
    <3>1. u[i] = t[i - (m - l)]
      BY <1>1, <1>2, <2>1, <2>3
    <3>2. i - (m - l) \in 1 .. n - m /\ m + (i - (m - l)) = l + i
      BY <2>3
    <3> QED
      BY <1>1, <3>1, <3>2
  <2> QED
    BY <2>2, <2>3
<1>4. Len(u) = n - l
  BY <1>1, <1>2
<1>5. u = Chars(l, n)
  <2>1. l <= n
    OBVIOUS
  <2> QED
    BY ONLY <1>2, <1>3, <1>4, <2>1, IsRun, l \in Nat, n \in Nat
<1> QED
  BY <1>5 DEF s, t, u

LEMMA CharsCut ==
    ASSUME NEW l \in Nat, NEW m \in Nat, NEW n \in Nat, l <= m, m <= n
    PROVE  /\ SubSeq(Chars(l, n), 1, m - l) = Chars(l, m)
           /\ SubSeq(Chars(l, n), m - l + 1, Len(Chars(l, n))) = Chars(m, n)
<1> DEFINE u == Chars(l, n)  v == SubSeq(u, 1, m - l)  w == SubSeq(u, m - l + 1, Len(u))
<1>1. u \in Seq(Character) /\ Len(u) = n - l /\ \A i \in 1 .. n - l : u[i] = Char(l + i)
  BY CharsAre
<1> HIDE DEF u
<1>2. \A i \in 1 .. Len(u) : u[i] \in Character
  BY <1>1, ElementOfSeq
<1>3. v = Chars(l, m)
  <2>1. \A i \in 1 .. m - l : u[i] \in Character
    BY <1>1, <1>2
  <2>2. PICK k \in Int : k = m - l /\ k >= 0
    OBVIOUS
  <2>3. /\ SubSeq(u, 1, k) \in Seq(Character)
        /\ Len(SubSeq(u, 1, k)) = (IF 1 <= k THEN k - 1 + 1 ELSE 0)
        /\ \A i \in 1 .. k - 1 + 1 : SubSeq(u, 1, k)[i] = u[1 + i - 1]
    BY ONLY <2>1, <2>2, SubSeqProperties, 1 \in Int
  <2>4. v \in Seq(Character) /\ Len(v) = m - l
    BY <2>2, <2>3
  <2>5. ASSUME NEW i \in 1 .. m - l PROVE v[i] = Char(l + i)
    <3>1. v[i] = u[i]
      BY <2>2, <2>3
    <3> QED
      BY <1>1, <3>1
  <2> HIDE DEF v
  <2> QED
    BY <2>4, <2>5, IsRun
<1>4. w = Chars(m, n)
  <2>1. PICK j \in Int, k \in Int : j = m - l + 1 /\ k = Len(u) /\ j >= 1 /\ k = n - l
    BY <1>1
  <2>2. \A i \in j .. k : u[i] \in Character
    BY <1>1, <1>2, <2>1
  <2>3. /\ SubSeq(u, j, k) \in Seq(Character)
        /\ Len(SubSeq(u, j, k)) = (IF j <= k THEN k - j + 1 ELSE 0)
        /\ \A i \in 1 .. k - j + 1 : SubSeq(u, j, k)[i] = u[j + i - 1]
    BY ONLY <2>1, <2>2, SubSeqProperties
  <2>4. w \in Seq(Character) /\ Len(w) = n - m
    BY <2>1, <2>3
  <2>5. ASSUME NEW i \in 1 .. n - m PROVE w[i] = Char(m + i)
    <3>1. w[i] = u[j + i - 1] /\ j + i - 1 \in 1 .. n - l /\ l + (j + i - 1) = m + i
      BY <2>1, <2>3
    <3> QED
      BY <1>1, <3>1
  <2> HIDE DEF w
  <2> QED
    BY <2>4, <2>5, IsRun
<1> QED
  BY <1>3, <1>4 DEF u, v, w

LEMMA CharsNone == ASSUME NEW n \in Nat PROVE Chars(n, n) = <<>>
<1>1. Chars(n, n) \in Seq(Character) /\ Len(Chars(n, n)) = 0
  BY CharsAre
<1> QED
  BY <1>1, EmptySeq

LEMMA CharsOne == ASSUME NEW n \in Nat PROVE Chars(n, n + 1) = <<Char(n + 1)>>
<1> DEFINE s == <<Char(n + 1)>>
<1>1. PICK e \in Nat : e = n + 1 /\ n <= e /\ e - n = 1
  OBVIOUS
<1>2. s \in Seq(Character) /\ Len(s) = 1 /\ s[1] = Char(n + 1)
  BY CharTyped
<1> HIDE DEF s
<1>3. Len(s) = e - n /\ \A i \in 1 .. e - n : s[i] = Char(n + i)
  BY <1>1, <1>2
<1>4. s = Chars(n, e)
  BY ONLY <1>1, <1>2, <1>3, IsRun, n \in Nat
<1> QED
  BY <1>1, <1>4 DEF s

LEMMA CharsHead ==
    ASSUME NEW m \in Nat, NEW n \in Nat, m < n
    PROVE  /\ Chars(m, n) # <<>> /\ Head(Chars(m, n)) = Char(m + 1)
           /\ Tail(Chars(m, n)) = Chars(m + 1, n)
<1> DEFINE u == Chars(m, n)  t == Tail(u)
<1>1. u \in Seq(Character) /\ Len(u) = n - m /\ \A i \in 1 .. n - m : u[i] = Char(m + i)
  BY CharsAre
<1> HIDE DEF u
<1>2. u # <<>> /\ Head(u) = Char(m + 1)
  <2>1. u # <<>>
    BY <1>1, EmptySeq
  <2> QED
    BY <1>1, <2>1
<1>3. /\ t \in Seq(Character) /\ Len(t) = Len(u) - 1
      /\ \A i \in 1 .. Len(t) : t[i] = u[i + 1]
  BY ONLY <1>1, <1>2, HeadTailProperties
<1> HIDE DEF t
<1>4. ASSUME NEW i \in 1 .. n - (m + 1) PROVE t[i] = Char((m + 1) + i)
  <2>1. i \in 1 .. Len(t) /\ i + 1 \in 1 .. n - m /\ m + (i + 1) = (m + 1) + i
    BY <1>1, <1>3
  <2> QED
    BY <1>1, <1>3, <2>1
<1>5. m + 1 \in Nat /\ m + 1 <= n /\ Len(t) = n - (m + 1)
  BY <1>1, <1>3
<1>6. t = Chars(m + 1, n)
  BY <1>3, <1>4, <1>5, IsRun
<1> QED
  BY <1>2, <1>6 DEF t, u

(* The least of a set of numbers. *)
LEMMA LeastIs ==
    ASSUME NEW K \in SUBSET Nat, NEW k \in K, \A i \in K : k <= i
    PROVE  K # {} /\ Min(K) = k
<1>1. Min(K) \in K /\ \A i \in K : Min(K) <= i
  BY DEF Min
<1>2. PICK m \in Nat : m = Min(K)
  BY <1>1
<1>3. m <= k /\ k <= m
  BY <1>1, <1>2
<1> QED
  BY <1>2, <1>3

(* The first newline behind the first character of a line. *)
LEMMA FirstNewline ==
    ASSUME NEW p \in Nat, NEW n \in Nat, (p + 1) * N <= n
    PROVE  NewlineIn(Chars(p * N + 1, n)) = LineLength
<1> DEFINE s == Chars(p * N + 1, n)  at == {i \in 1 .. Len(s) : IsNewline(s[i])}
<1>0. /\ N \in Nat /\ N >= 2 /\ p * N \in Nat /\ (p + 1) * N = p * N + N /\ N - 1 = LineLength
      /\ LineLength \in Nat
  BY NextLine DEF N
<1>q. PICK q \in Nat : q = p * N
  BY <1>0
<1>1. /\ s \in Seq(Character) /\ Len(s) = n - (q + 1)
      /\ \A i \in 1 .. n - (q + 1) : s[i] = Char((q + 1) + i)
  <2>1. PICK e \in Nat : e = q + 1 /\ e <= n
    BY <1>0, <1>q
  <2>2. s = Chars(e, n)
    BY <1>q, <2>1
  <2> HIDE DEF s
  <2> QED
    BY <2>1, <2>2, CharsAre
<1> HIDE DEF s
<1>2. ASSUME NEW i \in 1 .. LineLength
      PROVE  i \in 1 .. Len(s) /\ (IsNewline(s[i]) <=> i = LineLength)
  <2>1. i \in 1 .. n - (q + 1) /\ (q + 1) + i = q + (i + 1) /\ i + 1 \in 1 .. N
    BY <1>0, <1>q
  <2>2. IsNewline(Char(p * N + (i + 1))) <=> i + 1 = N
    BY ONLY <2>1, WhereNewlines, p \in Nat
  <2>3. s[i] = Char(p * N + (i + 1))
    BY <1>1, <1>q, <2>1
  <2>4. i + 1 = N <=> i = LineLength
    BY <1>0
  <2> QED
    BY <1>1, <2>1, <2>2, <2>3, <2>4
<1>3. LineLength \in at
  BY <1>0, <1>2
<1>4. ASSUME NEW i \in at PROVE LineLength <= i
  BY <1>0, <1>1, <1>2
<1>5. at \in SUBSET Nat
  BY <1>1
<1> HIDE DEF at
<1>6. at # {} /\ Min(at) = LineLength
  BY <1>3, <1>4, <1>5, LeastIs
<1>7. NewlineIn(s) = Min(at)
  BY <1>6 DEF NewlineIn, SelectInSeq, at
<1> QED
  BY <1>6, <1>7 DEF s

(* Its first character alone has none. *)
LEMMA NoNewline ==
    ASSUME NEW p \in Nat
    PROVE  NewlineIn(<<Char(p * N + 1)>>) = 0
<1> DEFINE s == <<Char(p * N + 1)>>
<1>0. N \in Nat /\ N >= 2
  BY ONLY NextLine, p \in Nat
<1>1. ~IsNewline(Char(p * N + 1))
  <2>1. 1 \in 1 .. N /\ 1 # N
    BY <1>0
  <2> QED
    BY ONLY <2>1, WhereNewlines, p \in Nat
<1>2. {i \in 1 .. Len(s) : IsNewline(s[i])} = {}
  BY <1>1
<1> QED
  BY <1>2 DEF NewlineIn, SelectInSeq

-----------------------------------------------------------------------------
(* Multiples of N. *)
Whole(n) == \E t \in Nat : n = t * N

LEMMA WholeLines ==
    ASSUME NEW n \in Nat, Whole(n)
    PROVE  Whole(n + N)
<1>1. PICK t \in Nat : n = t * N
  BY DEF Whole
<1>2. (t + 1) * N = t * N + N
  BY NextLine, Zenon
<1>3. t + 1 \in Nat /\ n + N = (t + 1) * N
  BY <1>1, <1>2
<1> QED
  BY <1>3 DEF Whole

LEMMA Larger ==
    ASSUME NEW a \in Nat, NEW b \in Nat, NEW n \in Nat, a * n < b * n
    PROVE  (a + 1) * n <= b * n
<1>1. CASE a < b
  <2>1. PICK d \in Nat : b = (a + 1) + d
    <3>1. b - (a + 1) \in Nat /\ b = (a + 1) + (b - (a + 1))
      BY <1>1
    <3> QED
      BY <3>1
  <2>2. b * n = (a + 1) * n + d * n /\ d * n >= 0
    BY <2>1
  <2>3. (a + 1) * n \in Nat /\ b * n \in Nat /\ d * n \in Nat
    BY SMT
  <2> QED
    BY <2>2, <2>3
<1>2. CASE b <= a
  <2>1. PICK d \in Nat : a = b + d
    <3>1. a - b \in Nat /\ a = b + (a - b)
      BY <1>2
    <3> QED
      BY <3>1
  <2>2. a * n = b * n + d * n /\ d * n >= 0
    BY <2>1
  <2>3. a * n \in Nat /\ b * n \in Nat /\ d * n \in Nat
    BY SMT
  <2> QED
    BY <2>2, <2>3
<1> QED
  BY <1>1, <1>2

(* Of whole lines there is either nothing behind the first p or one more. *)
LEMMA OneMoreLine ==
    ASSUME NEW p \in Nat, NEW n \in Nat, Whole(n), p * N < n
    PROVE  p * N + N <= n
<1>1. PICK t \in Nat : n = t * N
  BY DEF Whole
<1>2. (p + 1) * N <= t * N
  <2>1. N \in Nat
    BY NextLine, Zenon
  <2>2. p * N < t * N
    BY <1>1
  <2> QED
    BY ONLY <2>1, <2>2, Larger, p \in Nat, t \in Nat
<1>3. (p + 1) * N = p * N + N
  BY NextLine, Zenon
<1> QED
  BY <1>1, <1>2, <1>3

-----------------------------------------------------------------------------
(* Where the characters of a terminal are. *)

(* The characters of the lines given to parse_input. *)
Before == Len(parsed) * N

Idle == buffer = <<>> /\ descriptor = Chars(Before, typed)

(* The byte taken to see whether stdin is closed is back in the stream. *)
PushedBack ==
    /\ buffer = <<Char(Before + 1)>> /\ input = <<>>
    /\ descriptor = Chars(Before + 1, typed)

(* getline has read it. *)
Begun ==
    /\ buffer = <<>> /\ input = <<Char(Before + 1)>>
    /\ descriptor = Chars(Before + 1, typed)

(* The terminal has handed over the rest of the line. *)
Filled ==
    /\ buffer = Chars(Before + 1, Before + N) /\ input = <<Char(Before + 1)>>
    /\ descriptor = Chars(Before + N, typed)

Places == IF pc = "getline" THEN PushedBack \/ Begun \/ Filled ELSE Idle

WholeTyped ==
    /\ typed \in Nat /\ Whole(typed)
    /\ Before <= typed /\ (pc = "getline" => Before < typed)

LinesParsed ==
    /\ parsed \in Seq(Seq(Character))
    /\ \A i \in DOMAIN parsed : parsed[i] = TypedLine(i)

ReaderInv == LinesParsed /\ WholeTyped /\ Places

LEMMA Numbers ==
    ASSUME ReaderInv
    PROVE  /\ Len(parsed) \in Nat /\ Before \in Nat /\ typed \in Nat
           /\ N \in Nat /\ N >= 2 /\ LineLength \in Nat /\ LineLength >= 1 /\ N = LineLength + 1
           /\ (Before < typed => Before + N <= typed)
<1>1. Len(parsed) \in Nat /\ typed \in Nat
  BY DEF ReaderInv, LinesParsed, WholeTyped
<1>2. Before \in Nat /\ N \in Nat /\ N >= 2
  BY <1>1, NextLine, Zenon DEF Before
<1>3. Before < typed => Before + N <= typed
  BY <1>1, OneMoreLine DEF ReaderInv, WholeTyped, Before
<1> QED
  BY <1>1, <1>2, <1>3 DEF N

LEMMA NothingRead ==
    ASSUME ReaderInv, UNCHANGED <<typed, descriptor, buffer, input, parsed>>,
           pc' = "getline" <=> pc = "getline"
    PROVE  ReaderInv'
  BY DEF ReaderInv, LinesParsed, WholeTyped, Places, Before, Idle, PushedBack, Begun, Filled

LEMMA InitReader == Init => ReaderInv
<1> SUFFICES ASSUME Init PROVE ReaderInv
  OBVIOUS
<1>1. LinesParsed
  BY DEF Init, LinesParsed
<1>2. N \in Nat /\ Len(parsed) = 0 /\ pc # "getline"
  BY NextLine DEF Init
<1>3. Before = 0 /\ typed = 0 /\ 0 = 0 * N
  BY <1>2 DEF Before, Init
<1>4. WholeTyped
  BY <1>2, <1>3 DEF WholeTyped, Whole
<1>5. Places
  BY <1>2, <1>3, CharsNone DEF Places, Idle, Init
<1> QED
  BY <1>1, <1>4, <1>5 DEF ReaderInv

LEMMA TypeReader ==
    ASSUME ReaderInv, Terminal, NEW n \in 1 .. LineLength + 2, Type(n)
    PROVE  ReaderInv'
<1>0. n = N /\ typed' = typed + N /\ descriptor' = descriptor \o Chars(typed, typed + N)
  BY DEF Type, N
<1>1. UNCHANGED <<buffer, input, parsed, pc>> /\ Before' = Before
  BY DEF Type, Before
<1>2. WholeTyped'
  <2>1. Whole(typed + N) /\ typed + N \in Nat
    BY Numbers, WholeLines DEF ReaderInv, WholeTyped
  <2>2. Before <= typed + N /\ (pc = "getline" => Before < typed + N)
    BY Numbers DEF ReaderInv, WholeTyped
  <2> QED
    BY <1>0, <1>1, <2>1, <2>2 DEF WholeTyped
<1>3. ASSUME NEW m \in Nat, m <= typed, descriptor = Chars(m, typed)
      PROVE  descriptor' = Chars(m, typed')
  <2>1. typed \in Nat /\ typed' \in Nat /\ typed <= typed'
    BY <1>0, Numbers
  <2>2. Chars(m, typed) \o Chars(typed, typed') = Chars(m, typed')
    BY <1>3, <2>1, CharsJoin
  <2> QED
    BY <1>0, <1>3, <2>2
<1>4. Places'
  <2>1. Before \in Nat /\ Before <= typed /\ typed \in Nat /\ N \in Nat
        /\ (pc = "getline" => Before + 1 <= typed /\ Before + N <= typed)
    BY Numbers DEF ReaderInv, WholeTyped
  <2>2. CASE pc # "getline"
    BY <1>1, <1>3, <2>1, <2>2 DEF ReaderInv, Places, Idle
  <2>3. CASE pc = "getline" /\ descriptor = Chars(Before + 1, typed)
    <3>1. descriptor' = Chars(Before + 1, typed')
      BY <1>3, <2>1, <2>3
    <3>2. PushedBack \/ Begun \/ Filled
      BY <2>3 DEF ReaderInv, Places
    <3>3. CASE PushedBack
      BY <1>1, <2>3, <3>1, <3>3 DEF Places, PushedBack
    <3>4. CASE Begun
      BY <1>1, <2>3, <3>1, <3>4 DEF Places, Begun
    <3>5. CASE Filled
      <4>1. descriptor' = Chars(Before + N, typed')
        BY <1>3, <2>1, <2>3, <3>5 DEF Filled
      <4> QED
        BY <1>1, <2>3, <3>5, <4>1 DEF Places, Filled
    <3> QED
      BY <3>2, <3>3, <3>4, <3>5
  <2>4. CASE pc = "getline" /\ Filled
    <3>1. descriptor' = Chars(Before + N, typed')
      BY <1>3, <2>1, <2>4 DEF Filled
    <3> QED
      BY <1>1, <2>4, <3>1 DEF Places, Filled
  <2> QED
    BY <2>2, <2>3, <2>4 DEF ReaderInv, Places, PushedBack, Begun
<1> QED
  BY <1>1, <1>2, <1>4 DEF ReaderInv, LinesParsed

LEMMA ReadByteReader ==
    ASSUME ReaderInv, ReadByte
    PROVE  ReaderInv'
<1>0. /\ pc = "poll" /\ pc' = "getline" /\ UNCHANGED <<typed, parsed>> /\ input' = <<>>
      /\ descriptor # <<>> /\ descriptor' = Tail(descriptor)
      /\ buffer' = <<Head(descriptor)>> \o buffer /\ Before' = Before
  BY DEF ReadByte, PushBack, Before
<1>1. buffer = <<>> /\ descriptor = Chars(Before, typed)
  BY <1>0 DEF ReaderInv, Places, Idle
<1>2. Before \in Nat /\ typed \in Nat /\ Before < typed
  <2>1. Before \in Nat /\ typed \in Nat /\ Before <= typed
    BY Numbers DEF ReaderInv, WholeTyped
  <2>2. Before # typed
    BY <1>0, <1>1, <2>1, CharsNone
  <2> QED
    BY <2>1, <2>2
<1>3. Head(descriptor) = Char(Before + 1) /\ Tail(descriptor) = Chars(Before + 1, typed)
  BY <1>1, <1>2, CharsHead
<1>4. <<Head(descriptor)>> \o <<>> = <<Head(descriptor)>>
  OBVIOUS
<1>5. PushedBack'
  BY <1>0, <1>1, <1>3, <1>4 DEF PushedBack
<1>6. WholeTyped'
  BY <1>0, <1>2 DEF ReaderInv, WholeTyped
<1> QED
  BY <1>0, <1>5, <1>6 DEF ReaderInv, LinesParsed, Places

LEMMA TakePartReader ==
    ASSUME ReaderInv, TakePart
    PROVE  ReaderInv'
<1>0. /\ pc = "getline" /\ pc' = pc /\ UNCHANGED <<typed, parsed, descriptor>>
      /\ buffer # <<>> /\ NewlineIn(buffer) = 0 /\ buffer' = <<>>
      /\ input' = input \o buffer /\ Before' = Before
  BY DEF TakePart, Before
<1>1. ~Filled
  <2>1. SUFFICES ASSUME Filled PROVE FALSE
    OBVIOUS
  <2>2. (Len(parsed) + 1) * N = Before + N
    BY Numbers, NextLine, Zenon DEF Before
  <2>3. Len(parsed) \in Nat /\ Before + N \in Nat /\ (Len(parsed) + 1) * N <= Before + N
    BY <2>2, Numbers
  <2>4. buffer = Chars(Len(parsed) * N + 1, Before + N)
    BY <2>1 DEF Filled, Before
  <2>5. NewlineIn(buffer) = LineLength
    BY <2>3, <2>4, FirstNewline
  <2> QED
    BY <1>0, <2>5
<1>2. PushedBack
  BY <1>0, <1>1 DEF ReaderInv, Places, Begun
<1>3. <<>> \o <<Char(Before + 1)>> = <<Char(Before + 1)>>
  OBVIOUS
<1>4. Begun'
  BY <1>0, <1>2, <1>3 DEF PushedBack, Begun
<1> QED
  BY <1>0, <1>4 DEF ReaderInv, LinesParsed, WholeTyped, Places

LEMMA FillReader ==
    ASSUME ReaderInv, Terminal, Fill
    PROVE  ReaderInv'
<1>0. /\ pc = "getline" /\ pc' = pc /\ UNCHANGED <<typed, parsed, input>> /\ buffer = <<>>
      /\ buffer' = SubSeq(descriptor, 1, NewlineIn(descriptor))
      /\ descriptor' = SubSeq(descriptor, NewlineIn(descriptor) + 1, Len(descriptor))
      /\ Before' = Before
  BY DEF Fill, Readable, Before
<1>1. /\ Before \in Nat /\ typed \in Nat /\ Before + N <= typed /\ N \in Nat /\ N >= 2
      /\ LineLength = N - 1 /\ Len(parsed) \in Nat
  BY <1>0, Numbers DEF ReaderInv, WholeTyped
<1>2. Begun
  <2>1. PICK e \in Nat, f \in Nat : e = Before + 1 /\ f = Before + N /\ e < f
    BY <1>1
  <2>2. Chars(e, f) # <<>>
    BY <2>1, CharsHead
  <2>3. ~Filled
    BY <1>0, <2>1, <2>2 DEF Filled
  <2> QED
    BY <1>0, <2>3 DEF ReaderInv, Places, PushedBack
<1>3. NewlineIn(descriptor) = LineLength
  <2>1. (Len(parsed) + 1) * N = Before + N
    BY Numbers, NextLine, Zenon DEF Before
  <2>2. (Len(parsed) + 1) * N <= typed
    BY <1>1, <2>1
  <2>3. descriptor = Chars(Len(parsed) * N + 1, typed)
    BY <1>2 DEF Begun, Before
  <2> QED
    BY <1>1, <2>2, <2>3, FirstNewline
<1>4. /\ SubSeq(descriptor, 1, LineLength) = Chars(Before + 1, Before + N)
      /\ SubSeq(descriptor, LineLength + 1, Len(descriptor)) = Chars(Before + N, typed)
  <2>1. PICK e \in Nat, f \in Nat : e = Before + 1 /\ f = Before + N /\ e <= f /\ f <= typed
                                      /\ f - e = LineLength
    BY <1>1
  <2>2. descriptor = Chars(e, typed)
    BY <1>2, <2>1 DEF Begun
  <2>3. /\ SubSeq(Chars(e, typed), 1, f - e) = Chars(e, f)
        /\ SubSeq(Chars(e, typed), f - e + 1, Len(Chars(e, typed))) = Chars(f, typed)
    <3>1. e \in Nat /\ f \in Nat /\ typed \in Nat /\ e <= f /\ f <= typed
      BY <1>1, <2>1
    <3> QED
      BY ONLY <3>1, CharsCut
  <2> QED
    BY <2>1, <2>2, <2>3
<1>5. Filled'
  BY <1>0, <1>2, <1>3, <1>4 DEF Begun, Filled
<1> QED
  BY <1>0, <1>5 DEF ReaderInv, LinesParsed, WholeTyped, Places

LEMMA TakeLineReader ==
    ASSUME ReaderInv, TakeLine
    PROVE  ReaderInv'
<1> DEFINE n == NewlineIn(buffer)
           line == input \o SubSeq(buffer, 1, n - 1)
<1>0. /\ pc = "getline" /\ n > 0 /\ UNCHANGED <<typed, descriptor, input>>
      /\ parsed' = Append(parsed, line)
      /\ pc' = (IF line = <<>> THEN "aborted" ELSE "top")
      /\ buffer' = SubSeq(buffer, n + 1, Len(buffer))
  BY DEF TakeLine, Parse
<1>1. /\ Before \in Nat /\ typed \in Nat /\ Before + N <= typed /\ N \in Nat /\ N >= 2
      /\ LineLength = N - 1 /\ Len(parsed) \in Nat
  BY <1>0, Numbers DEF ReaderInv, WholeTyped
<1>2. Filled
  <2>1. NewlineIn(<<>>) = 0
    <3>1. {i \in 1 .. Len(<<>>) : IsNewline(<<>>[i])} = {}
      OBVIOUS
    <3> QED
      BY <3>1 DEF NewlineIn, SelectInSeq
  <2>2. ~Begun
    BY <1>0, <2>1 DEF Begun
  <2>3. ~PushedBack
    BY <1>0, <1>1, NoNewline DEF PushedBack, Before
  <2> QED
    BY <1>0, <2>2, <2>3 DEF ReaderInv, Places
<1>3. (Len(parsed) + 1) * N = Before + N
  BY Numbers, NextLine, Zenon DEF Before
<1>4. n = LineLength
  <2>1. Before + N \in Nat /\ (Len(parsed) + 1) * N <= Before + N
    BY <1>1, <1>3
  <2>2. buffer = Chars(Len(parsed) * N + 1, Before + N)
    BY <1>2 DEF Filled, Before
  <2> QED
    BY <1>1, <2>1, <2>2, FirstNewline
<1> HIDE DEF n
<1>5. PICK e \in Nat, f \in Nat, g \in Nat :
          e = Before + 1 /\ f = Before + N - 1 /\ g = Before + N
  BY <1>1
<1>6. buffer = Chars(e, g) /\ input = Chars(Before, e) /\ descriptor = Chars(g, typed)
  BY <1>1, <1>2, <1>5, CharsOne DEF Filled
<1>7. SubSeq(buffer, 1, n - 1) = Chars(e, f)
  <2>1. e <= f /\ f <= g /\ f - e = n - 1
    BY <1>1, <1>4, <1>5
  <2>2. SubSeq(Chars(e, g), 1, f - e) = Chars(e, f)
    BY <2>1, CharsCut
  <2> QED
    BY <1>6, <2>1, <2>2
<1>8. line = Chars(Before, f)
  <2>1. Before <= e /\ e <= f
    BY <1>1, <1>5
  <2>2. Chars(Before, e) \o Chars(e, f) = Chars(Before, f)
    BY <1>1, <2>1, CharsJoin
  <2> QED
    BY <1>6, <1>7, <2>2
<1>9. line = TypedLine(Len(parsed) + 1)
  <2>1. PICK i \in Nat : i = Len(parsed) + 1 /\ i - 1 = Len(parsed)
    BY <1>1
  <2>2. (i - 1) * N = Before /\ i * N - 1 = f
    BY <1>1, <1>3, <1>5, <2>1 DEF Before
  <2>3. TypedLine(i) = Chars((i - 1) * N, i * N - 1)
    BY DEF TypedLine, N
  <2> QED
    BY <1>8, <2>1, <2>2, <2>3
<1>10. line \in Seq(Character) /\ line # <<>>
  <2>1. Before <= f /\ Before < f
    BY <1>1, <1>5
  <2>2. Chars(Before, f) \in Seq(Character)
    BY <1>1, <2>1, CharsAre
  <2>3. Chars(Before, f) # <<>>
    BY <1>1, <2>1, CharsHead
  <2> QED
    BY <1>8, <2>2, <2>3
<1> HIDE DEF line
<1>11. LinesParsed' /\ Len(parsed') = Len(parsed) + 1
  <2>1. parsed \in Seq(Seq(Character)) /\ \A i \in DOMAIN parsed : parsed[i] = TypedLine(i)
    BY DEF ReaderInv, LinesParsed
  <2>2. /\ parsed' \in Seq(Seq(Character)) /\ Len(parsed') = Len(parsed) + 1
        /\ \A i \in 1 .. Len(parsed) : parsed'[i] = parsed[i]
        /\ parsed'[Len(parsed) + 1] = line
    BY <1>0, <1>10, <2>1, AppendProperties
  <2>3. DOMAIN parsed = 1 .. Len(parsed) /\ DOMAIN parsed' = 1 .. Len(parsed) + 1
    BY <2>1, <2>2, LenProperties
  <2>4. ASSUME NEW i \in 1 .. Len(parsed) + 1 PROVE parsed'[i] = TypedLine(i)
    <3>1. CASE i = Len(parsed) + 1
      BY <1>9, <2>2, <3>1
    <3>2. CASE i \in 1 .. Len(parsed)
      BY <2>1, <2>2, <2>3, <3>2
    <3> QED
      BY <1>1, <3>1, <3>2
  <2> QED
    BY <2>2, <2>3, <2>4 DEF LinesParsed
<1>12. Before' = g /\ pc' = "top"
  BY <1>0, <1>3, <1>5, <1>10, <1>11 DEF Before
<1>13. buffer' = <<>>
  <2>1. Len(buffer) = g - e /\ g - e < n + 1 /\ n + 1 \in Int /\ g - e \in Int
    <3>1. e <= g
      BY <1>1, <1>5
    <3>2. Len(Chars(e, g)) = g - e
      BY ONLY <3>1, CharsAre, e \in Nat, g \in Nat
    <3>3. g - e < n + 1 /\ n + 1 \in Int /\ g - e \in Int
      BY <1>1, <1>4, <1>5
    <3> QED
      BY <1>6, <3>2, <3>3
  <2> QED
    BY <1>0, <2>1, SubSeqEmpty
<1>14. Places'
  BY <1>0, <1>6, <1>12, <1>13 DEF Places, Idle
<1>15. WholeTyped'
  BY <1>0, <1>1, <1>5, <1>12 DEF ReaderInv, WholeTyped
<1> QED
  BY <1>11, <1>14, <1>15 DEF ReaderInv

(* The descriptor of a terminal holds the rest of a line that was begun. *)
LEMMA NoRest == ASSUME ReaderInv PROVE ~TakeRest
<1> SUFFICES ASSUME TakeRest PROVE FALSE
  OBVIOUS
<1>0. pc = "getline" /\ buffer = <<>> /\ descriptor = <<>>
  BY DEF TakeRest
<1>1. Before \in Nat /\ typed \in Nat /\ Before + N <= typed /\ N \in Nat /\ N >= 2
  BY <1>0, Numbers DEF ReaderInv, WholeTyped
<1>2. PICK e \in Nat, g \in Nat : e = Before + 1 /\ g = Before + N /\ e < g /\ e < typed
  BY <1>1
<1>3. Chars(e, g) # <<>> /\ Chars(e, typed) # <<>>
  BY <1>1, <1>2, CharsHead
<1> QED
  BY <1>0, <1>2, <1>3 DEF ReaderInv, Places, PushedBack, Begun, Filled

LEMMA ReaderKept ==
    ASSUME ReaderInv, Terminal, [Next]_vars
    PROVE  ReaderInv'
<1>1. CASE UNCHANGED vars
  BY <1>1, NothingRead DEF vars
<1>2. CASE Process
  <2>1. CASE BeginPoll \/ StopOnSigint \/ TimeOut \/ StopOnEof
    <3>1. UNCHANGED <<typed, descriptor, buffer, input, parsed>> /\ (pc' = "getline" <=> pc = "getline")
      BY <2>1 DEF BeginPoll, StopOnSigint, TimeOut, StopOnEof
    <3> QED
      BY <3>1, NothingRead
  <2>2. CASE ReadByte
    BY <2>2, ReadByteReader
  <2>3. CASE TakeLine
    BY <2>3, TakeLineReader
  <2>4. CASE TakePart
    BY <2>4, TakePartReader
  <2>5. CASE Fill
    BY <2>5, FillReader
  <2>6. CASE TakeRest
    BY <2>6, NoRest
  <2> QED
    BY <1>2, <2>1, <2>2, <2>3, <2>4, <2>5, <2>6 DEF Process
<1>3. CASE User
  <2>1. CASE \E n \in 1 .. LineLength + 2 : Type(n)
    BY <2>1, TypeReader
  <2>2. CASE Close \/ Sigint
    <3>1. UNCHANGED <<typed, descriptor, buffer, input, parsed, pc>>
      BY <2>2 DEF Close, Sigint
    <3> QED
      BY <3>1, NothingRead
  <2> QED
    BY <1>3, <2>1, <2>2 DEF User
<1>4. CASE Lock \/ Blocked \/ Terminated
  <2>1. UNCHANGED <<typed, descriptor, buffer, input, parsed, pc>>
    BY <1>4 DEF Lock, Blocked, Terminated, vars
  <2> QED
    BY <2>1, NothingRead
<1> QED
  BY <1>1, <1>2, <1>3, <1>4 DEF Next

(* From a terminal every line given to parse_input is a whole line as it was
   typed, in the order of typing, whatever the lines' length and number:
   the push-back of the probed byte and the buffer of the C stream neither
   lose nor repeat nor split anything. *)
THEOREM StdinWhole == Spec => []WholeLinesInOrder
<1>1. Init => (Terminal => ReaderInv)
  BY InitReader
<1>2. (Terminal => ReaderInv) /\ [Next]_vars => (Terminal => ReaderInv)'
  <2> SUFFICES ASSUME Terminal => ReaderInv, [Next]_vars, Terminal' PROVE ReaderInv'
    OBVIOUS
  <2>1. source' = source
    BY DEF Next, Process, User, BeginPoll, StopOnSigint, TimeOut, StopOnEof, ReadByte, TakeLine,
       TakePart, Fill, TakeRest, Type, Close, Sigint, Lock, Blocked, Terminated, vars
  <2> QED
    BY <2>1, ReaderKept DEF Terminal
<1>3. (Terminal => ReaderInv) => WholeLinesInOrder
  BY DEF ReaderInv, LinesParsed, WholeLinesInOrder
<1> QED
  BY <1>1, <1>2, <1>3, PTL DEF Spec

-----------------------------------------------------------------------------
(* Characters are kept, wherever stdin comes from.  What a step does to the
   sequences is to put two together, to cut one, or to add one to parsed;
   for each there is a lemma on where a character then is. *)

Occurs(s, c) == \E i \in DOMAIN s : s[i] = c

Once(s, c) == \A i, j \in DOMAIN s : s[i] = c /\ s[j] = c => i = j

LEMMA InJoined ==
    ASSUME NEW S, NEW s \in Seq(S), NEW t \in Seq(S), NEW c
    PROVE  /\ s \o t \in Seq(S)
           /\ Occurs(s \o t, c) <=> Occurs(s, c) \/ Occurs(t, c)
           /\ Once(s, c) /\ Once(t, c) /\ ~(Occurs(s, c) /\ Occurs(t, c)) => Once(s \o t, c)
<1> DEFINE u == s \o t
<1>1. PICK m \in Nat, n \in Nat : m = Len(s) /\ n = Len(t)
  BY LenProperties
<1>2. /\ u \in Seq(S) /\ Len(u) = m + n
      /\ \A i \in 1 .. m + n : u[i] = IF i <= m THEN s[i] ELSE t[i - m]
  <2>1. /\ u \in Seq(S) /\ Len(u) = Len(s) + Len(t)
        /\ \A i \in 1 .. Len(s) + Len(t) : u[i] = IF i <= Len(s) THEN s[i] ELSE t[i - Len(s)]
    BY ONLY ConcatProperties, s \in Seq(S), t \in Seq(S)
  <2> QED
    BY <1>1, <2>1
<1> HIDE DEF u
<1>3. DOMAIN u = 1 .. m + n /\ DOMAIN s = 1 .. m /\ DOMAIN t = 1 .. n
  BY <1>1, <1>2, LenProperties
<1>4. \A i \in 1 .. m : i \in DOMAIN u /\ u[i] = s[i]
  BY <1>2, <1>3
<1>5. ASSUME NEW i \in 1 .. n PROVE m + i \in DOMAIN u /\ u[m + i] = t[i]
  <2>1. m + i \in 1 .. m + n /\ ~(m + i <= m) /\ (m + i) - m = i
    OBVIOUS
  <2> QED
    BY <1>2, <1>3, <2>1
<1>6. ASSUME NEW i \in DOMAIN u
      PROVE  (i \in 1 .. m /\ u[i] = s[i]) \/ (i - m \in 1 .. n /\ u[i] = t[i - m] /\ i \in Int)
  BY <1>2, <1>3
<1>7. Occurs(u, c) <=> Occurs(s, c) \/ Occurs(t, c)
  BY <1>3, <1>4, <1>5, <1>6 DEF Occurs
<1>8. ASSUME Once(s, c), Once(t, c), ~(Occurs(s, c) /\ Occurs(t, c)) PROVE Once(u, c)
  <2> SUFFICES ASSUME NEW i \in DOMAIN u, NEW j \in DOMAIN u, u[i] = c, u[j] = c PROVE i = j
    BY DEF Once
  <2>1. CASE i \in 1 .. m /\ u[i] = s[i] /\ j \in 1 .. m /\ u[j] = s[j]
    BY <1>3, <1>8, <2>1 DEF Once
  <2>2. CASE /\ i - m \in 1 .. n /\ u[i] = t[i - m] /\ i \in Int
             /\ j - m \in 1 .. n /\ u[j] = t[j - m] /\ j \in Int
    <3>1. i - m = j - m
      BY <1>3, <1>8, <2>2 DEF Once
    <3> QED
      BY <2>2, <3>1
  <2>3. CASE i \in 1 .. m /\ u[i] = s[i] /\ j - m \in 1 .. n /\ u[j] = t[j - m]
    BY <1>3, <1>8, <2>3 DEF Occurs
  <2>4. CASE j \in 1 .. m /\ u[j] = s[j] /\ i - m \in 1 .. n /\ u[i] = t[i - m]
    BY <1>3, <1>8, <2>4 DEF Occurs
  <2> QED
    BY <1>6, <2>1, <2>2, <2>3, <2>4
<1> QED
  BY <1>2, <1>7, <1>8 DEF u

(* A sequence cut behind its first k elements; one other than c may be
   dropped at the cut. *)
IsCut(s, a, b, k, m) == m <= Len(s) /\ a = SubSeq(s, 1, k) /\ b = SubSeq(s, m + 1, Len(s))

NotDropped(c, s, k, m) == m = k \/ (m = k + 1 /\ s[m] # c)

LEMMA InCut ==
    ASSUME NEW S, NEW s \in Seq(S), NEW c, NEW k \in Nat, NEW m \in Nat, NotDropped(c, s, k, m),
           NEW a, NEW b, IsCut(s, a, b, k, m)
    PROVE  /\ a \in Seq(S) /\ b \in Seq(S)
           /\ Occurs(s, c) <=> Occurs(a, c) \/ Occurs(b, c)
           /\ Once(s, c) => Once(a, c) /\ Once(b, c) /\ ~(Occurs(a, c) /\ Occurs(b, c))
<1>0. /\ m = k \/ (m = k + 1 /\ s[m] # c)
      /\ m <= Len(s) /\ a = SubSeq(s, 1, k) /\ b = SubSeq(s, m + 1, Len(s))
  BY DEF IsCut, NotDropped
<1>1. PICK n \in Nat, f \in Nat : n = Len(s) /\ f = m + 1
  BY LenProperties
<1>2. DOMAIN s = 1 .. n /\ \A i \in 1 .. n : s[i] \in S
  BY <1>1, LenProperties, ElementOfSeq
<1>3. k <= m /\ m <= n
  BY <1>0, <1>1
<1>4. /\ a \in Seq(S) /\ DOMAIN a = 1 .. k
      /\ \A i \in 1 .. k : a[i] = s[i]
  <2>1. \A i \in 1 .. k : s[i] \in S
    BY <1>2, <1>3
  <2>2. /\ a \in Seq(S) /\ Len(a) = (IF 1 <= k THEN k - 1 + 1 ELSE 0)
        /\ \A i \in 1 .. k - 1 + 1 : a[i] = s[1 + i - 1]
    BY ONLY <1>0, <2>1, SubSeqProperties, 1 \in Int, k \in Nat
  <2>3. Len(a) = k
    BY <2>2
  <2>4. \A i \in 1 .. k : i \in 1 .. k - 1 + 1 /\ 1 + i - 1 = i
    OBVIOUS
  <2> QED
    BY <2>2, <2>3, <2>4, LenProperties
<1>5. /\ b \in Seq(S) /\ DOMAIN b = 1 .. n - m
      /\ \A i \in 1 .. n - m : b[i] = s[m + i]
  <2>1. \A i \in f .. n : s[i] \in S
    BY <1>1, <1>2
  <2>2. /\ b \in Seq(S) /\ Len(b) = (IF f <= n THEN n - f + 1 ELSE 0)
        /\ \A i \in 1 .. n - f + 1 : b[i] = s[f + i - 1]
    BY ONLY <1>0, <1>1, <2>1, SubSeqProperties, f \in Nat, n \in Nat
  <2>3. Len(b) = n - m
    BY <1>1, <1>3, <2>2
  <2>4. \A i \in 1 .. n - m : i \in 1 .. n - f + 1 /\ f + i - 1 = m + i
    BY <1>1
  <2> QED
    BY <2>2, <2>3, <2>4, LenProperties
<1>6. ASSUME NEW i \in 1 .. k PROVE i \in DOMAIN s /\ a[i] = s[i]
  BY <1>2, <1>3, <1>4
<1>7. ASSUME NEW i \in 1 .. n - m PROVE m + i \in DOMAIN s /\ b[i] = s[m + i]
  BY <1>2, <1>3, <1>5
<1>8. ASSUME NEW i \in DOMAIN s, s[i] = c
      PROVE  (i \in 1 .. k /\ a[i] = c) \/ (i - m \in 1 .. n - m /\ b[i - m] = c)
  <2>1. CASE i <= k
    BY <1>2, <1>4, <1>8, <2>1
  <2>2. CASE k < i
    <3>1. i > m
      BY <1>0, <1>1, <1>2, <1>8, <2>2
    <3>2. i - m \in 1 .. n - m /\ m + (i - m) = i
      BY <1>2, <3>1
    <3> QED
      BY <1>5, <1>8, <3>2
  <2> QED
    BY <1>2, <2>1, <2>2
<1>9. Occurs(s, c) <=> Occurs(a, c) \/ Occurs(b, c)
  <2>1. Occurs(s, c) => Occurs(a, c) \/ Occurs(b, c)
    BY <1>4, <1>5, <1>8, Zenon DEF Occurs
  <2>2. Occurs(a, c) => Occurs(s, c)
    BY <1>4, <1>6 DEF Occurs
  <2>3. Occurs(b, c) => Occurs(s, c)
    BY <1>5, <1>7 DEF Occurs
  <2> QED
    BY <2>1, <2>2, <2>3
<1>10. ASSUME Once(s, c) PROVE Once(a, c) /\ Once(b, c) /\ ~(Occurs(a, c) /\ Occurs(b, c))
  <2>1. Once(a, c)
    BY <1>4, <1>6, <1>10 DEF Once
  <2>2. ASSUME NEW i \in 1 .. n - m, NEW j \in 1 .. n - m, b[i] = c, b[j] = c PROVE i = j
    <3>1. m + i = m + j
      BY <1>7, <1>10, <2>2 DEF Once
    <3> QED
      BY <3>1
  <2>3. ASSUME NEW i \in 1 .. k, NEW j \in 1 .. n - m, a[i] = c, b[j] = c PROVE FALSE
    <3>1. i = m + j
      BY <1>6, <1>7, <1>10, <2>3 DEF Once
    <3> QED
      BY <1>3, <3>1
  <2> QED
    BY <1>4, <1>5, <2>1, <2>2, <2>3 DEF Once, Occurs
<1> QED
  BY <1>4, <1>5, <1>9, <1>10

LEMMA InOne ==
    ASSUME NEW h, NEW c
    PROVE  (Occurs(<<h>>, c) <=> h = c) /\ Once(<<h>>, c)
<1>1. DOMAIN <<h>> = {1} /\ <<h>>[1] = h
  OBVIOUS
<1> QED
  BY <1>1 DEF Occurs, Once

LEMMA InNone == ASSUME NEW c PROVE ~Occurs(<<>>, c) /\ Once(<<>>, c)
BY DEF Occurs, Once

(* Lines. *)
OccursIn(lines, c) == \E k \in DOMAIN lines : Occurs(lines[k], c)

OnceIn(lines, c) ==
    /\ \A k \in DOMAIN lines : Once(lines[k], c)
    /\ \A k, l \in DOMAIN lines : Occurs(lines[k], c) /\ Occurs(lines[l], c) => k = l

LEMMA InMoreLines ==
    ASSUME NEW S, NEW lines \in Seq(Seq(S)), NEW line \in Seq(S), NEW c,
           NEW more, more = Append(lines, line)
    PROVE  /\ more \in Seq(Seq(S))
           /\ OccursIn(more, c) <=> OccursIn(lines, c) \/ Occurs(line, c)
           /\ OnceIn(lines, c) /\ Once(line, c) /\ ~(OccursIn(lines, c) /\ Occurs(line, c)) =>
                  OnceIn(more, c)
<1>1. PICK n \in Nat : n = Len(lines)
  BY LenProperties
<1>2. /\ more \in Seq(Seq(S)) /\ Len(more) = n + 1 /\ \A i \in 1 .. n : more[i] = lines[i]
      /\ more[n + 1] = line
  BY <1>1, AppendProperties
<1>3. DOMAIN lines = 1 .. n /\ DOMAIN more = 1 .. n + 1
  BY <1>1, <1>2, LenProperties
<1>4. \A k \in DOMAIN more : (k \in DOMAIN lines /\ more[k] = lines[k]) \/ (k = n + 1 /\ more[k] = line)
  BY <1>2, <1>3
<1>5. (\A k \in DOMAIN lines : k \in DOMAIN more /\ more[k] = lines[k]) /\ n + 1 \in DOMAIN more
  BY <1>2, <1>3
<1> HIDE DEF Occurs
<1>6. OccursIn(more, c) <=> OccursIn(lines, c) \/ Occurs(line, c)
  BY <1>2, <1>4, <1>5, Zenon DEF OccursIn
<1>7. ASSUME OnceIn(lines, c), Once(line, c), ~(OccursIn(lines, c) /\ Occurs(line, c))
      PROVE  OnceIn(more, c)
  BY <1>4, <1>5, <1>7, Zenon DEF OnceIn, OccursIn
<1> QED
  BY <1>2, <1>6, <1>7

LEMMA InHeadTail ==
    ASSUME NEW S, NEW s \in Seq(S), s # <<>>, NEW c
    PROVE  /\ Occurs(s, c) <=> Head(s) = c \/ Occurs(Tail(s), c)
           /\ Once(s, c) => Once(Tail(s), c) /\ ~(Head(s) = c /\ Occurs(Tail(s), c))
<1> DEFINE t == Tail(s)
<1>1. PICK n \in Nat : n = Len(s) /\ n >= 1 /\ DOMAIN s = 1 .. n
  BY LenProperties, EmptySeq
<1>2. /\ t \in Seq(S) /\ Len(t) = n - 1 /\ \A i \in 1 .. n - 1 : t[i] = s[i + 1]
  <2>1. t \in Seq(S) /\ Len(t) = Len(s) - 1 /\ \A i \in 1 .. Len(t) : t[i] = s[i + 1]
    BY ONLY HeadTailProperties, s \in Seq(S), s # <<>>
  <2> QED
    BY <1>1, <2>1
<1>3. Head(s) = s[1]
  BY <1>1
<1> HIDE DEF t
<1>4. DOMAIN t = 1 .. n - 1
  BY <1>2, LenProperties
<1>5. ASSUME NEW i \in DOMAIN t PROVE i + 1 \in DOMAIN s /\ t[i] = s[i + 1] /\ i + 1 # 1 /\ i \in Int
  BY <1>1, <1>2, <1>4
<1>6. ASSUME NEW i \in DOMAIN s PROVE i = 1 \/ (i - 1 \in DOMAIN t /\ t[i - 1] = s[i])
  <2>1. CASE i # 1
    <3>1. i - 1 \in 1 .. n - 1 /\ (i - 1) + 1 = i
      BY <1>1, <2>1
    <3> QED
      BY <1>2, <1>4, <3>1
  <2> QED
    BY <2>1
<1>7. Occurs(s, c) <=> Head(s) = c \/ Occurs(t, c)
  <2>1. 1 \in DOMAIN s
    BY <1>1
  <2> QED
    BY <1>3, <1>5, <1>6, <2>1, Zenon DEF Occurs
<1>8. ASSUME Once(s, c) PROVE Once(t, c) /\ ~(Head(s) = c /\ Occurs(t, c))
  <2>1. ASSUME NEW i \in DOMAIN t, NEW j \in DOMAIN t, t[i] = c, t[j] = c PROVE i = j
    <3>1. i + 1 = j + 1
      BY <1>5, <1>8, <2>1 DEF Once
    <3> QED
      BY <1>5, <3>1
  <2>2. ASSUME NEW i \in DOMAIN t, t[i] = c, s[1] = c PROVE FALSE
    <3>1. i + 1 = 1
      BY <1>1, <1>5, <1>8, <2>2 DEF Once
    <3> QED
      BY <1>5, <3>1
  <2> QED
    BY <1>3, <2>1, <2>2 DEF Once, Occurs
<1> QED
  BY <1>7, <1>8 DEF t

(* No two characters typed are the same: the line and the position tell
   them apart. *)
LEMMA CharsDiffer ==
    ASSUME NEW m \in Nat, NEW n \in Nat, m >= 1, n >= 1, Char(m) = Char(n)
    PROVE  m = n
<1>1. N \in Nat \ {0}
  <2>1. N \in Nat /\ N >= 2
    BY 0 \in Nat, NextLine, Zenon
  <2> QED
    BY <2>1
<1>2. (m - 1) \div N + 1 = (n - 1) \div N + 1 /\ m % N = n % N
  BY DEF Char, N
<1> HIDE DEF N
<1>3. PICK a \in Nat, b \in Nat : a = m - 1 /\ b = n - 1
  <2>1. m - 1 \in Nat /\ n - 1 \in Nat
    OBVIOUS
  <2> QED
    BY <2>1
<1>4. /\ a = N * (a \div N) + (a % N) /\ a % N \in 0 .. N - 1 /\ a \div N \in Int
      /\ b = N * (b \div N) + (b % N) /\ b % N \in 0 .. N - 1 /\ b \div N \in Int
      /\ m = N * (m \div N) + (m % N) /\ m % N \in 0 .. N - 1 /\ m \div N \in Int
      /\ n = N * (n \div N) + (n % N) /\ n % N \in 0 .. N - 1 /\ n \div N \in Int
  BY ONLY Division, <1>1, a \in Nat, b \in Nat, m \in Nat, n \in Nat
<1>5. a \div N = b \div N
  BY <1>2, <1>3, <1>4
<1>6. PICK q \in Int, r \in Int, p \in Int, s \in Int, e \in Int :
          q = m \div N /\ r = n \div N /\ s = a % N /\ e = b % N /\ p = N * (a \div N)
  <2>1. N * (a \div N) \in Int
    BY <1>1, <1>4
  <2> QED
    BY <1>4, <2>1
<1>7. a = p + s /\ b = p + e /\ s \in 0 .. N - 1 /\ e \in 0 .. N - 1
  BY <1>4, <1>5, <1>6
<1>8. a - b < N /\ -N < a - b
  BY <1>1, <1>7
<1> DEFINE d == q - r
<1>9. d \in Int /\ d * N = m - n
  <2>1. PICK z \in Int : z = m % N /\ z = n % N
    BY <1>2, <1>4
  <2>2. m = N * q + z /\ n = N * r + z
    BY <1>4, <1>6, <2>1
  <2> QED
    BY <1>1, <2>2
<1>10. d * N < N /\ -N < d * N
  BY <1>3, <1>8, <1>9
<1>11. d = 0
  <2> HIDE DEF d
  <2> QED
    BY ONLY SmallMultiple, <1>1, <1>9, <1>10
<1>12. m - n = 0
  BY <1>1, <1>9, <1>11
<1> QED
  BY <1>12

-----------------------------------------------------------------------------

Reading == IF pc = "getline" THEN input ELSE <<>>

TypedChars == {Char(n) : n \in 1 .. typed}

(* A character is in one place and once in it. *)
InOnePlace(c) ==
    /\ Once(descriptor, c) /\ Once(buffer, c) /\ Once(Reading, c) /\ OnceIn(parsed, c)
    /\ ~(Occurs(descriptor, c) /\ Occurs(buffer, c))
    /\ ~(Occurs(descriptor, c) /\ Occurs(Reading, c))
    /\ ~(Occurs(descriptor, c) /\ OccursIn(parsed, c))
    /\ ~(Occurs(buffer, c) /\ Occurs(Reading, c))
    /\ ~(Occurs(buffer, c) /\ OccursIn(parsed, c))
    /\ ~(Occurs(Reading, c) /\ OccursIn(parsed, c))

Somewhere(c) == Occurs(descriptor, c) \/ Occurs(buffer, c) \/ Occurs(Reading, c) \/ OccursIn(parsed, c)

AllTyped ==
    /\ descriptor \in Seq(TypedChars) /\ buffer \in Seq(TypedChars)
    /\ input \in Seq(TypedChars) /\ parsed \in Seq(Seq(TypedChars))

KeptInv ==
    /\ typed \in Nat
    /\ AllTyped
    /\ \A c \in TypedChars : ~IsNewline(c) => InOnePlace(c) /\ Somewhere(c)

LEMMA InitKept == Init => KeptInv
<1> SUFFICES ASSUME Init PROVE KeptInv
  OBVIOUS
<1>1. typed = 0 /\ descriptor = <<>> /\ buffer = <<>> /\ input = <<>> /\ parsed = <<>>
  BY DEF Init
<1>2. TypedChars = {}
  BY <1>1 DEF TypedChars
<1>3. \A S : <<>> \in Seq(S)
  BY EmptySeq
<1> QED
  BY <1>1, <1>2, <1>3 DEF KeptInv, AllTyped

(* The steps that move no character. *)
LEMMA NothingMoved ==
    ASSUME KeptInv, UNCHANGED <<typed, descriptor, buffer, input, parsed>>, Reading' = Reading
    PROVE  KeptInv'
<1>1. TypedChars' = TypedChars
  BY DEF TypedChars
<1>2. \A c : InOnePlace(c)' = InOnePlace(c) /\ Somewhere(c)' = Somewhere(c)
  BY DEF InOnePlace, Somewhere
<1> QED
  BY <1>1, <1>2 DEF KeptInv, AllTyped

(* The others, as far as one character goes. *)
LEMMA ReadByteKept ==
    ASSUME KeptInv, ReadByte
    PROVE  KeptInv'
<1> DEFINE h == Head(descriptor)  t == Tail(descriptor)  S == TypedChars
<1>1. /\ descriptor \in Seq(S) /\ buffer \in Seq(S) /\ input \in Seq(S) /\ parsed \in Seq(Seq(S))
      /\ descriptor # <<>> /\ descriptor' = t /\ buffer' = <<h>> \o buffer
      /\ input' = <<>> /\ UNCHANGED <<typed, parsed>>
      /\ Reading = <<>> /\ Reading' = <<>>
  BY DEF ReadByte, PushBack, KeptInv, AllTyped, Reading
<1>2. h \in S /\ t \in Seq(S)
  BY <1>1, HeadTailProperties
<1>3. S' = S
  BY <1>1 DEF TypedChars
<1> HIDE DEF S, h, t
<1>4. <<h>> \in Seq(S) /\ <<>> \in Seq(S)
  BY <1>2
<1>5. AllTyped'
  <2>1. <<h>> \o buffer \in Seq(S)
    BY <1>1, <1>4, InJoined
  <2> QED
    BY <1>1, <1>2, <1>3, <1>4, <2>1 DEF AllTyped, S
<1>6. ASSUME NEW c \in S, ~IsNewline(c) PROVE InOnePlace(c)' /\ Somewhere(c)'
  <2>1. InOnePlace(c) /\ Somewhere(c)
    BY <1>6 DEF KeptInv, S
  <2>2. /\ Occurs(descriptor, c) <=> h = c \/ Occurs(t, c)
        /\ Once(descriptor, c) => Once(t, c) /\ ~(h = c /\ Occurs(t, c))
    BY <1>1, InHeadTail DEF h, t
  <2>3. /\ Occurs(<<h>> \o buffer, c) <=> Occurs(<<h>>, c) \/ Occurs(buffer, c)
        /\ Once(<<h>>, c) /\ Once(buffer, c) /\ ~(Occurs(<<h>>, c) /\ Occurs(buffer, c)) =>
               Once(<<h>> \o buffer, c)
    BY <1>1, <1>4, InJoined
  <2>4. Once(<<h>>, c) /\ (Occurs(<<h>>, c) <=> h = c)
    BY InOne
  <2> HIDE DEF Occurs, Once, OnceIn, OccursIn
  <2> QED
    BY <1>1, <2>1, <2>2, <2>3, <2>4, Zenon DEF InOnePlace, Somewhere
<1> QED
  BY <1>1, <1>3, <1>5, <1>6 DEF KeptInv, S

LEMMA LeastNumber ==
    ASSUME NEW K \in SUBSET Nat, K # {}
    PROVE  \E n \in K : \A k \in K : n <= k
<1>1. PICK n \in K : \A k \in K : ~(<<k, n>> \in OpToRel(<, Nat))
  BY NatLessThanWellFounded, WFMin
<1>2. \A k \in K : ~(k < n)
  BY <1>1 DEF OpToRel
<1> QED
  BY <1>2

LEMMA NewlineFound ==
    ASSUME NEW S, NEW s \in Seq(S), NEW n, n = NewlineIn(s)
    PROVE  n \in Nat /\ n <= Len(s) /\ (n > 0 => IsNewline(s[n]))
<1> DEFINE at == {i \in 1 .. Len(s) : IsNewline(s[i])}
<1>1. Len(s) \in Nat
  BY LenProperties
<1>2. at \in SUBSET Nat
  BY <1>1
<1>3. n = IF at # {} THEN Min(at) ELSE 0
  BY DEF NewlineIn, SelectInSeq
<1>4. CASE at # {}
  <2>1. PICK m \in at : \A i \in at : m <= i
    <3> HIDE DEF at
    <3> QED
      BY <1>2, <1>4, LeastNumber
  <2>2. n = m
    <3> HIDE DEF at
    <3>1. Min(at) = m
      BY <1>2, <2>1, LeastIs
    <3> QED
      BY <1>3, <1>4, <3>1
  <2>3. m \in Nat /\ m <= Len(s) /\ IsNewline(s[m])
    BY <1>1
  <2> QED
    BY <2>2, <2>3
<1>5. CASE at = {}
  <2> HIDE DEF at
  <2> QED
    BY <1>1, <1>3, <1>5
<1> QED
  BY <1>4, <1>5

LEMMA TakePartKept ==
    ASSUME KeptInv, TakePart
    PROVE  KeptInv'
<1> DEFINE S == TypedChars
<1>1. /\ descriptor \in Seq(S) /\ buffer \in Seq(S) /\ input \in Seq(S) /\ parsed \in Seq(Seq(S))
      /\ buffer' = <<>> /\ input' = input \o buffer /\ UNCHANGED <<typed, descriptor, parsed>>
      /\ Reading = input /\ Reading' = input \o buffer
  BY DEF TakePart, KeptInv, AllTyped, Reading
<1>2. S' = S
  BY <1>1 DEF TypedChars
<1> HIDE DEF S
<1>3. AllTyped'
  <2>1. input \o buffer \in Seq(S) /\ <<>> \in Seq(S)
    BY <1>1, InJoined
  <2> QED
    BY <1>1, <1>2, <2>1 DEF AllTyped, S
<1>4. ASSUME NEW c \in S, ~IsNewline(c) PROVE InOnePlace(c)' /\ Somewhere(c)'
  <2>1. InOnePlace(c) /\ Somewhere(c)
    BY <1>4 DEF KeptInv, S
  <2>2. /\ Occurs(input \o buffer, c) <=> Occurs(input, c) \/ Occurs(buffer, c)
        /\ Once(input, c) /\ Once(buffer, c) /\ ~(Occurs(input, c) /\ Occurs(buffer, c)) =>
               Once(input \o buffer, c)
    BY <1>1, InJoined
  <2>3. ~Occurs(<<>>, c) /\ Once(<<>>, c)
    BY InNone
  <2> HIDE DEF Occurs, Once, OnceIn, OccursIn
  <2> QED
    BY <1>1, <2>1, <2>2, <2>3, Zenon DEF InOnePlace, Somewhere
<1> QED
  BY <1>1, <1>2, <1>3, <1>4 DEF KeptInv, S

LEMMA FillKept ==
    ASSUME KeptInv, Fill
    PROVE  KeptInv'
<1> DEFINE S == TypedChars
           a == SubSeq(descriptor, 1, Readable)
           b == SubSeq(descriptor, Readable + 1, Len(descriptor))
<1>1. /\ descriptor \in Seq(S) /\ buffer = <<>> /\ input \in Seq(S) /\ parsed \in Seq(Seq(S))
      /\ buffer' = a /\ descriptor' = b /\ UNCHANGED <<typed, input, parsed>> /\ Reading' = Reading
  BY DEF Fill, KeptInv, AllTyped, Reading
<1>2. S' = S
  BY <1>1 DEF TypedChars
<1> HIDE DEF S
<1>3. Readable \in Nat /\ Readable <= Len(descriptor)
  <2>1. NewlineIn(descriptor) \in Nat /\ NewlineIn(descriptor) <= Len(descriptor)
    BY <1>1, NewlineFound
  <2>2. Len(descriptor) \in Nat
    BY <1>1, LenProperties
  <2> QED
    BY <2>1, <2>2 DEF Readable
<1>4. ASSUME NEW c
      PROVE  /\ a \in Seq(S) /\ b \in Seq(S)
             /\ Occurs(descriptor, c) <=> Occurs(a, c) \/ Occurs(b, c)
             /\ Once(descriptor, c) => Once(a, c) /\ Once(b, c) /\ ~(Occurs(a, c) /\ Occurs(b, c))
  <2>1. PICK k \in Nat : k = Readable
    BY <1>3
  <2>2. IsCut(descriptor, a, b, k, k) /\ NotDropped(c, descriptor, k, k)
    BY <1>3, <2>1 DEF IsCut, NotDropped
  <2> HIDE DEF a, b
  <2> QED
    BY <1>1, <2>2, InCut
<1> HIDE DEF a, b
<1>5. AllTyped'
  BY <1>1, <1>2, <1>4 DEF AllTyped, S
<1>6. ASSUME NEW c \in S, ~IsNewline(c) PROVE InOnePlace(c)' /\ Somewhere(c)'
  <2>1. InOnePlace(c) /\ Somewhere(c)
    BY <1>6 DEF KeptInv, S
  <2>2. ~Occurs(<<>>, c)
    BY InNone
  <2> HIDE DEF Occurs, Once, OnceIn, OccursIn
  <2> QED
    BY <1>1, <1>4, <2>1, <2>2, Zenon DEF InOnePlace, Somewhere
<1> QED
  BY <1>1, <1>2, <1>5, <1>6 DEF KeptInv, S

LEMMA TakeLineKept ==
    ASSUME KeptInv, TakeLine
    PROVE  KeptInv'
<1> DEFINE S == TypedChars
           n == NewlineIn(buffer)
           a == SubSeq(buffer, 1, n - 1)
           b == SubSeq(buffer, n + 1, Len(buffer))
           line == input \o a
<1>1. /\ descriptor \in Seq(S) /\ buffer \in Seq(S) /\ input \in Seq(S) /\ parsed \in Seq(Seq(S))
      /\ n > 0 /\ buffer' = b /\ parsed' = Append(parsed, line)
      /\ UNCHANGED <<typed, descriptor, input>> /\ Reading = input /\ Reading' = <<>>
  BY DEF TakeLine, Parse, KeptInv, AllTyped, Reading
<1>2. S' = S
  BY <1>1 DEF TypedChars
<1> HIDE DEF S
<1>3. n \in Nat /\ n <= Len(buffer) /\ IsNewline(buffer[n])
  BY <1>1, NewlineFound
<1>4. ASSUME NEW c, ~IsNewline(c)
      PROVE  /\ a \in Seq(S) /\ b \in Seq(S)
             /\ Occurs(buffer, c) <=> Occurs(a, c) \/ Occurs(b, c)
             /\ Once(buffer, c) => Once(a, c) /\ Once(b, c) /\ ~(Occurs(a, c) /\ Occurs(b, c))
  <2>1. PICK k \in Nat, m \in Nat : m = n /\ k = n - 1 /\ m = k + 1
    <3>1. n - 1 \in Nat /\ n = (n - 1) + 1
      BY <1>1, <1>3
    <3> QED
      BY <1>3, <3>1
  <2>2. IsCut(buffer, a, b, k, m)
    BY <1>3, <2>1 DEF IsCut
  <2>3. NotDropped(c, buffer, k, m)
    BY <1>3, <1>4, <2>1 DEF NotDropped
  <2> HIDE DEF a, b, n
  <2> QED
    BY <1>1, <2>2, <2>3, InCut
<1> HIDE DEF a, b, n
<1>5. a \in Seq(S) /\ b \in Seq(S)
  <2>1. ~IsNewline([pos |-> 1])
    BY DEF IsNewline
  <2> QED
    BY <1>4, <2>1
<1>6. line \in Seq(S)
  BY <1>1, <1>5, InJoined
<1>7. AllTyped'
  <2>1. <<>> \in Seq(S) /\ Append(parsed, line) \in Seq(Seq(S))
    BY <1>1, <1>6, InMoreLines, EmptySeq
  <2> QED
    BY <1>1, <1>2, <1>5, <2>1 DEF AllTyped, S
<1>8. ASSUME NEW c \in S, ~IsNewline(c) PROVE InOnePlace(c)' /\ Somewhere(c)'
  <2>1. InOnePlace(c) /\ Somewhere(c)
    BY <1>8 DEF KeptInv, S
  <2>2. /\ Occurs(buffer, c) <=> Occurs(a, c) \/ Occurs(b, c)
        /\ Once(buffer, c) => Once(a, c) /\ Once(b, c) /\ ~(Occurs(a, c) /\ Occurs(b, c))
    BY <1>4, <1>8
  <2>3. /\ Occurs(line, c) <=> Occurs(input, c) \/ Occurs(a, c)
        /\ Once(input, c) /\ Once(a, c) /\ ~(Occurs(input, c) /\ Occurs(a, c)) => Once(line, c)
    BY <1>1, <1>5, InJoined
  <2>4. /\ OccursIn(Append(parsed, line), c) <=> OccursIn(parsed, c) \/ Occurs(line, c)
        /\ OnceIn(parsed, c) /\ Once(line, c) /\ ~(OccursIn(parsed, c) /\ Occurs(line, c)) =>
               OnceIn(Append(parsed, line), c)
    BY <1>1, <1>6, InMoreLines
  <2>5. ~Occurs(<<>>, c) /\ Once(<<>>, c)
    BY InNone
  <2> HIDE DEF Occurs, Once, OnceIn, OccursIn, line
  <2> QED
    BY <1>1, <2>1, <2>2, <2>3, <2>4, <2>5, Zenon DEF InOnePlace, Somewhere
<1> QED
  BY <1>1, <1>2, <1>7, <1>8 DEF KeptInv, S

LEMMA TakeRestKept ==
    ASSUME KeptInv, TakeRest
    PROVE  KeptInv'
<1> DEFINE S == TypedChars
<1>1. /\ input \in Seq(S) /\ parsed \in Seq(Seq(S)) /\ parsed' = Append(parsed, input)
      /\ UNCHANGED <<typed, descriptor, buffer, input>> /\ Reading = input /\ Reading' = <<>>
  BY DEF TakeRest, Parse, KeptInv, AllTyped, Reading
<1>2. S' = S
  BY <1>1 DEF TypedChars
<1> HIDE DEF S
<1>3. AllTyped'
  <2>1. Append(parsed, input) \in Seq(Seq(S))
    BY <1>1, InMoreLines
  <2> QED
    BY <1>1, <1>2, <2>1 DEF KeptInv, AllTyped, S
<1>4. ASSUME NEW c \in S, ~IsNewline(c) PROVE InOnePlace(c)' /\ Somewhere(c)'
  <2>1. InOnePlace(c) /\ Somewhere(c)
    BY <1>4 DEF KeptInv, S
  <2>2. /\ OccursIn(Append(parsed, input), c) <=> OccursIn(parsed, c) \/ Occurs(input, c)
        /\ OnceIn(parsed, c) /\ Once(input, c) /\ ~(OccursIn(parsed, c) /\ Occurs(input, c)) =>
               OnceIn(Append(parsed, input), c)
    BY <1>1, InMoreLines
  <2>3. ~Occurs(<<>>, c) /\ Once(<<>>, c)
    BY InNone
  <2> HIDE DEF Occurs, Once, OnceIn, OccursIn
  <2> QED
    BY <1>1, <2>1, <2>2, <2>3, Zenon DEF InOnePlace, Somewhere
<1> QED
  BY <1>1, <1>2, <1>3, <1>4 DEF KeptInv, S

LEMMA NotThere ==
    ASSUME NEW S, NEW c, c \notin S
    PROVE  /\ \A s \in Seq(S) : ~Occurs(s, c) /\ Once(s, c)
           /\ \A lines \in Seq(Seq(S)) : ~OccursIn(lines, c) /\ OnceIn(lines, c)
<1>1. ASSUME NEW s \in Seq(S) PROVE ~Occurs(s, c) /\ Once(s, c)
  <2>1. \A i \in DOMAIN s : s[i] \in S
    BY LenProperties, ElementOfSeq
  <2> QED
    BY <2>1 DEF Occurs, Once
<1>2. ASSUME NEW lines \in Seq(Seq(S)) PROVE ~OccursIn(lines, c) /\ OnceIn(lines, c)
  <2>1. \A k \in DOMAIN lines : lines[k] \in Seq(S)
    BY LenProperties, ElementOfSeq
  <2> HIDE DEF Occurs, Once
  <2> QED
    BY <1>1, <2>1, Zenon DEF OccursIn, OnceIn
<1> QED
  BY <1>1, <1>2

(* A piece of what is typed has each of its characters once. *)
LEMMA InChars ==
    ASSUME NEW m \in Nat, NEW n \in Nat, m <= n, NEW k \in Nat, k >= 1
    PROVE  /\ Occurs(Chars(m, n), Char(k)) <=> m < k /\ k <= n
           /\ Once(Chars(m, n), Char(k))
<1> DEFINE s == Chars(m, n)
<1>1. s \in Seq(Character) /\ Len(s) = n - m /\ \A i \in 1 .. n - m : s[i] = Char(m + i)
  BY CharsAre
<1> HIDE DEF s
<1>2. DOMAIN s = 1 .. n - m
  BY <1>1, LenProperties
<1>3. ASSUME NEW i \in DOMAIN s PROVE i \in Int /\ (s[i] = Char(k) <=> m + i = k)
  <2>1. m + i \in Nat /\ m + i >= 1
    BY <1>2
  <2>2. Char(m + i) = Char(k) => m + i = k
    BY <2>1, CharsDiffer
  <2> QED
    BY <1>1, <1>2, <2>2
<1>4. Occurs(s, Char(k)) <=> m < k /\ k <= n
  <2>1. ASSUME m < k, k <= n PROVE Occurs(s, Char(k))
    <3>1. k - m \in DOMAIN s /\ m + (k - m) = k
      BY <1>2, <2>1
    <3>2. s[k - m] = Char(k)
      BY <1>3, <3>1
    <3> QED
      BY <3>1, <3>2 DEF Occurs
  <2>2. ASSUME Occurs(s, Char(k)) PROVE m < k /\ k <= n
    <3>1. PICK i \in DOMAIN s : s[i] = Char(k)
      BY <2>2 DEF Occurs
    <3>2. m + i = k
      BY <1>3, <3>1
    <3> QED
      BY <1>2, <3>2
  <2> QED
    BY <2>1, <2>2
<1>5. Once(s, Char(k))
  <2> SUFFICES ASSUME NEW i \in DOMAIN s, NEW j \in DOMAIN s, s[i] = Char(k), s[j] = Char(k)
               PROVE  i = j
    BY DEF Once
  <2>1. m + i = k /\ m + j = k /\ i \in Int /\ j \in Int
    BY <1>3
  <2> QED
    BY <2>1
<1> QED
  BY <1>4, <1>5 DEF s

LEMMA TypeKept ==
    ASSUME KeptInv, NEW n \in 1 .. LineLength + 2, Type(n)
    PROVE  KeptInv'
<1> DEFINE S == TypedChars  T == TypedChars'  e == typed + n  s == Chars(typed, e)
<1>0. typed \in Nat /\ e \in Nat /\ typed <= e /\ typed' = e
  BY DEF KeptInv, Type
<1>1. /\ descriptor \in Seq(S) /\ buffer \in Seq(S) /\ input \in Seq(S) /\ parsed \in Seq(Seq(S))
      /\ descriptor' = descriptor \o s /\ UNCHANGED <<buffer, input, parsed>> /\ Reading' = Reading
  BY DEF Type, KeptInv, AllTyped, Reading
<1>2. S = {Char(i) : i \in 1 .. typed} /\ T = {Char(i) : i \in 1 .. e}
  BY <1>0 DEF TypedChars
<1>3. S \subseteq T
  BY <1>0, <1>2
<1> HIDE DEF S, T, e
<1>4. s \in Seq(T)
  <2>1. Len(s) = e - typed /\ s \in Seq(Character) /\ \A i \in 1 .. e - typed : s[i] = Char(typed + i)
    BY <1>0, CharsAre
  <2>2. \A i \in 1 .. e - typed : typed + i \in 1 .. e
    BY <1>0
  <2>3. \A i \in 1 .. Len(s) : s[i] \in T
    BY <1>2, <2>1, <2>2
  <2> HIDE DEF s
  <2> QED
    BY <2>1, <2>3
<1>5. /\ descriptor \in Seq(T) /\ buffer \in Seq(T) /\ input \in Seq(T) /\ parsed \in Seq(Seq(T))
      /\ Reading \in Seq(S)
  <2>1. Seq(S) \subseteq Seq(T)
    BY <1>3, SeqMonotonic
  <2>2. parsed \in Seq(Seq(T))
    BY <1>1, <2>1, SeqMonotonic
  <2> QED
    BY <1>1, <2>1, <2>2, EmptySeq DEF Reading
<1> HIDE DEF s
<1>6. AllTyped'
  <2>1. descriptor \o s \in Seq(T)
    BY <1>4, <1>5, InJoined
  <2> QED
    BY <1>1, <1>5, <2>1 DEF AllTyped, T
<1>7. ASSUME NEW c \in T, ~IsNewline(c) PROVE InOnePlace(c)' /\ Somewhere(c)'
  <2>1. PICK k \in Nat : c = Char(k) /\ k >= 1 /\ k <= e
    BY <1>0, <1>2
  <2>2. (Occurs(s, c) <=> typed < k) /\ Once(s, c)
    BY <1>0, <2>1, InChars DEF s
  <2>3. /\ Occurs(descriptor \o s, c) <=> Occurs(descriptor, c) \/ Occurs(s, c)
        /\ Once(descriptor, c) /\ Once(s, c) /\ ~(Occurs(descriptor, c) /\ Occurs(s, c)) =>
               Once(descriptor \o s, c)
    BY <1>4, <1>5, InJoined
  <2>4. CASE k <= typed
    <3>1. c \in S
      BY <1>0, <1>2, <2>1, <2>4
    <3>2. InOnePlace(c) /\ Somewhere(c)
      BY <1>7, <3>1 DEF KeptInv, S
    <3>3. ~Occurs(s, c)
      BY <1>0, <2>2, <2>4
    <3> HIDE DEF Occurs, Once, OnceIn, OccursIn
    <3> QED
      BY <1>1, <2>2, <2>3, <3>2, <3>3, Zenon DEF InOnePlace, Somewhere
  <2>5. CASE typed < k
    <3>1. c \notin S
      <4> SUFFICES ASSUME NEW i \in 1 .. typed, Char(i) = Char(k) PROVE FALSE
        BY <1>2, <2>1
      <4>1. i = k
        BY <1>0, <2>1, CharsDiffer
      <4> QED
        BY <1>0, <2>5, <4>1
    <3>2. /\ ~Occurs(descriptor, c) /\ ~Occurs(buffer, c) /\ ~Occurs(Reading, c) /\ ~OccursIn(parsed, c)
          /\ Once(descriptor, c) /\ Once(buffer, c) /\ Once(Reading, c) /\ OnceIn(parsed, c)
      BY <1>1, <1>5, <3>1, NotThere
    <3>3. Occurs(s, c)
      BY <2>2, <2>5
    <3> HIDE DEF Occurs, Once, OnceIn, OccursIn
    <3> QED
      BY <1>1, <2>2, <2>3, <3>2, <3>3, Zenon DEF InOnePlace, Somewhere
  <2> QED
    BY <1>0, <2>1, <2>4, <2>5
<1> QED
  BY <1>0, <1>6, <1>7 DEF KeptInv, T

LEMMA KeptStep ==
    ASSUME KeptInv, [Next]_vars
    PROVE  KeptInv'
<1>1. CASE UNCHANGED vars
  <2>1. UNCHANGED <<typed, descriptor, buffer, input, parsed>> /\ Reading' = Reading
    BY <1>1 DEF vars, Reading
  <2> QED
    BY <2>1, NothingMoved
<1>2. CASE Process
  <2>1. CASE BeginPoll \/ StopOnSigint \/ TimeOut \/ StopOnEof
    <3>1. UNCHANGED <<typed, descriptor, buffer, input, parsed>> /\ Reading' = Reading
      BY <2>1 DEF BeginPoll, StopOnSigint, TimeOut, StopOnEof, Reading
    <3> QED
      BY <3>1, NothingMoved
  <2>2. CASE ReadByte
    BY <2>2, ReadByteKept
  <2>3. CASE TakeLine
    BY <2>3, TakeLineKept
  <2>4. CASE TakePart
    BY <2>4, TakePartKept
  <2>5. CASE Fill
    BY <2>5, FillKept
  <2>6. CASE TakeRest
    BY <2>6, TakeRestKept
  <2> QED
    BY <1>2, <2>1, <2>2, <2>3, <2>4, <2>5, <2>6 DEF Process
<1>3. CASE User
  <2>1. CASE \E n \in 1 .. LineLength + 2 : Type(n)
    BY <2>1, TypeKept
  <2>2. CASE Close \/ Sigint
    <3>1. UNCHANGED <<typed, descriptor, buffer, input, parsed>> /\ Reading' = Reading
      BY <2>2 DEF Close, Sigint, Reading
    <3> QED
      BY <3>1, NothingMoved
  <2> QED
    BY <1>3, <2>1, <2>2 DEF User
<1>4. CASE Lock \/ Blocked \/ Terminated
  <2>1. UNCHANGED <<typed, descriptor, buffer, input, parsed>> /\ Reading' = Reading
    BY <1>4 DEF Lock, Blocked, Terminated, vars, Reading
  <2> QED
    BY <2>1, NothingMoved
<1> QED
  BY <1>1, <1>2, <1>3, <1>4 DEF Next

-----------------------------------------------------------------------------
(* KeptInv says of each character what CharactersKept says of the spots. *)

LEMMA HeldIs ==
    ASSUME KeptInv
    PROVE  /\ Held \in Seq(Seq(TypedChars))
           /\ {1, 2, 3} \subseteq DOMAIN Held
           /\ Held[1] = descriptor /\ Held[2] = buffer /\ Held[3] = Reading
           /\ \A p \in DOMAIN Held : p \in {1, 2, 3} \/ (p - 3 \in DOMAIN parsed /\ Held[p] = parsed[p - 3])
           /\ \A k \in DOMAIN parsed : k + 3 \in DOMAIN Held /\ Held[k + 3] = parsed[k]
           /\ DOMAIN Held \subseteq Int
<1> DEFINE S == TypedChars  three == <<descriptor, buffer, Reading>>
<1>1. /\ descriptor \in Seq(S) /\ buffer \in Seq(S) /\ Reading \in Seq(S) /\ parsed \in Seq(Seq(S))
      /\ Held = three \o parsed
  BY EmptySeq DEF KeptInv, AllTyped, Reading, Held
<1> HIDE DEF S
<1>2. PICK m \in Nat : m = Len(parsed) /\ DOMAIN parsed = 1 .. m
  BY <1>1, LenProperties
<1>3. /\ three \in Seq(Seq(S)) /\ Len(three) = 3
      /\ three[1] = descriptor /\ three[2] = buffer /\ three[3] = Reading
  BY <1>1
<1> HIDE DEF three
<1>4. /\ Held \in Seq(Seq(S)) /\ Len(Held) = 3 + m
      /\ \A p \in 1 .. 3 + m : Held[p] = IF p <= 3 THEN three[p] ELSE parsed[p - 3]
  <2>1. /\ three \o parsed \in Seq(Seq(S)) /\ Len(three \o parsed) = Len(three) + Len(parsed)
        /\ \A p \in 1 .. Len(three) + Len(parsed) :
              (three \o parsed)[p] = IF p <= Len(three) THEN three[p] ELSE parsed[p - Len(three)]
    BY ONLY <1>1, <1>3, ConcatProperties
  <2> QED
    BY <1>1, <1>2, <1>3, <2>1
<1>5. DOMAIN Held = 1 .. 3 + m
  BY <1>4, LenProperties
<1>6. ASSUME NEW k \in 1 .. m PROVE k + 3 \in 1 .. 3 + m /\ Held[k + 3] = parsed[k]
  <2>1. k + 3 \in 1 .. 3 + m /\ ~(k + 3 <= 3) /\ (k + 3) - 3 = k
    OBVIOUS
  <2> QED
    BY <1>4, <2>1
<1>7. ASSUME NEW p \in 1 .. 3 + m
      PROVE  p \in {1, 2, 3} \/ (p - 3 \in 1 .. m /\ Held[p] = parsed[p - 3])
  BY <1>4
<1>8. {1, 2, 3} \subseteq 1 .. 3 + m /\ Held[1] = descriptor /\ Held[2] = buffer /\ Held[3] = Reading
  BY <1>3, <1>4
<1> QED
  BY <1>2, <1>4, <1>5, <1>6, <1>7, <1>8 DEF S

LEMMA HeldOnce ==
    ASSUME KeptInv, NEW c \in TypedChars, ~IsNewline(c)
    PROVE  OnceIn(Held, c) /\ OccursIn(Held, c)
<1>1. InOnePlace(c) /\ Somewhere(c)
  BY DEF KeptInv
<1>2. /\ {1, 2, 3} \subseteq DOMAIN Held
      /\ Held[1] = descriptor /\ Held[2] = buffer /\ Held[3] = Reading
      /\ \A p \in DOMAIN Held : p \in {1, 2, 3} \/ (p - 3 \in DOMAIN parsed /\ Held[p] = parsed[p - 3])
      /\ \A k \in DOMAIN parsed : k + 3 \in DOMAIN Held /\ Held[k + 3] = parsed[k]
      /\ DOMAIN Held \subseteq Int
  BY HeldIs
<1> HIDE DEF Occurs, Once, Held, Reading
<1>3. ASSUME NEW p \in DOMAIN Held PROVE Once(Held[p], c)
  BY <1>1, <1>2 DEF InOnePlace, OnceIn
<1>4. ASSUME NEW p \in DOMAIN Held, NEW q \in DOMAIN Held, Occurs(Held[p], c), Occurs(Held[q], c)
      PROVE  p = q
  <2>1. CASE p \in {1, 2, 3} /\ q \in {1, 2, 3}
    <3> HIDE DEF OnceIn, OccursIn
    <3> QED
      BY <1>1, <1>2, <1>4, <2>1 DEF InOnePlace
  <2>2. ASSUME NEW r \in DOMAIN Held, NEW t \in DOMAIN Held, Occurs(Held[r], c), Occurs(Held[t], c),
               r \in {1, 2, 3}, t - 3 \in DOMAIN parsed, Held[t] = parsed[t - 3]
        PROVE  FALSE
    <3>1. OccursIn(parsed, c)
      BY <2>2 DEF OccursIn
    <3> HIDE DEF OnceIn, OccursIn
    <3> QED
      BY <1>1, <1>2, <2>2, <3>1 DEF InOnePlace
  <2>3. CASE p - 3 \in DOMAIN parsed /\ Held[p] = parsed[p - 3] /\ q - 3 \in DOMAIN parsed /\ Held[q] = parsed[q - 3]
    <3>1. p - 3 = q - 3
      BY <1>1, <1>4, <2>3, Zenon DEF InOnePlace, OnceIn
    <3>2. p \in Int /\ q \in Int
      BY <1>2
    <3> QED
      BY <3>1, <3>2
  <2> QED
    BY <1>2, <1>4, <2>1, <2>2, <2>3
<1>5. OccursIn(Held, c)
  <2>1. CASE OccursIn(parsed, c)
    BY <1>2, <2>1 DEF OccursIn
  <2>2. CASE ~OccursIn(parsed, c)
    <3>1. Occurs(Held[1], c) \/ Occurs(Held[2], c) \/ Occurs(Held[3], c)
      BY <1>1, <1>2, <2>2 DEF Somewhere
    <3> QED
      BY <1>2, <3>1 DEF OccursIn
  <2> QED
    BY <2>1, <2>2
<1> QED
  BY <1>3, <1>4, <1>5, Zenon DEF OnceIn

LEMMA SpotIs ==
    ASSUME NEW s
    PROVE  s \in Spots <=> \E p \in DOMAIN Held : \E i \in DOMAIN Held[p] : s = <<p, i>>
<1> DEFINE of(p) == {<<p, i>> : i \in DOMAIN Held[p]}
<1>1. Spots = UNION {of(p) : p \in DOMAIN Held}
  BY DEF Spots
<1> HIDE DEF Held
<1>2. \A p : s \in of(p) <=> \E i \in DOMAIN Held[p] : s = <<p, i>>
  OBVIOUS
<1> HIDE DEF of
<1>3. s \in Spots <=> \E p \in DOMAIN Held : s \in of(p)
  BY <1>1
<1> QED
  BY <1>2, <1>3

LEMMA KeptMeans == KeptInv => CharactersKept
<1> SUFFICES ASSUME KeptInv PROVE CharactersKept
  OBVIOUS
<1>1. ASSUME NEW p \in DOMAIN Held, NEW i \in DOMAIN Held[p]
      PROVE  /\ At(<<p, i>>) = Held[p][i] /\ <<p, i>> \in Spots /\ Held[p][i] \in TypedChars
             /\ Occurs(Held[p], Held[p][i])
  <2>1. Held[p] \in Seq(TypedChars)
    BY HeldIs, LenProperties, ElementOfSeq
  <2>2. Held[p][i] \in TypedChars
    BY <2>1, LenProperties, ElementOfSeq
  <2> QED
    BY <2>2, SpotIs DEF At, Occurs
<1> HIDE DEF Held
<1>2. ASSUME NEW s \in Spots PROVE \E n \in 1 .. typed : At(s) = Char(n)
  <2>1. PICK p \in DOMAIN Held : \E i \in DOMAIN Held[p] : s = <<p, i>>
    BY SpotIs
  <2>2. PICK i \in DOMAIN Held[p] : s = <<p, i>>
    BY <2>1
  <2>3. At(s) \in TypedChars
    BY <1>1, <2>2
  <2> QED
    BY <2>3 DEF TypedChars
<1>3. ASSUME NEW n \in 1 .. typed, ~IsNewline(Char(n)) PROVE \E s \in Spots : At(s) = Char(n)
  <2>1. OccursIn(Held, Char(n))
    BY <1>3, HeldOnce DEF TypedChars
  <2>2. PICK p \in DOMAIN Held : Occurs(Held[p], Char(n))
    BY <2>1 DEF OccursIn
  <2>3. PICK i \in DOMAIN Held[p] : Held[p][i] = Char(n)
    BY <2>2 DEF Occurs
  <2> QED
    BY <1>1, <2>3
<1>4. ASSUME NEW s \in Spots, NEW t \in Spots, s # t, ~IsNewline(At(s)), At(s) = At(t) PROVE FALSE
  <2>1. PICK p \in DOMAIN Held : \E i \in DOMAIN Held[p] : s = <<p, i>>
    BY SpotIs
  <2>2. PICK i \in DOMAIN Held[p] : s = <<p, i>>
    BY <2>1
  <2>3. PICK q \in DOMAIN Held : \E j \in DOMAIN Held[q] : t = <<q, j>>
    BY SpotIs
  <2>4. PICK j \in DOMAIN Held[q] : t = <<q, j>>
    BY <2>3
  <2>5. PICK c \in TypedChars : c = Held[p][i] /\ c = Held[q][j] /\ ~IsNewline(c)
    BY <1>1, <1>4, <2>2, <2>4
  <2>6. OnceIn(Held, c)
    BY <2>5, HeldOnce
  <2>7. p = q
    BY <1>1, <2>5, <2>6 DEF OnceIn
  <2>8. i = j
    BY <2>5, <2>6, <2>7 DEF OnceIn, Once
  <2> QED
    BY <1>4, <2>2, <2>4, <2>7, <2>8
<1> QED
  BY <1>2, <1>3, <1>4 DEF CharactersKept

(* Wherever stdin comes from, whatever is typed and however it is cut into
   reads, each character typed but the newlines is at any moment in exactly
   one spot: the byte taken to probe stdin and pushed back, and what getline
   has read of a line when the rest is not there yet, included. *)
THEOREM NothingLost == Spec => []CharactersKept
<1>1. Init => KeptInv
  BY InitKept
<1>2. KeptInv /\ [Next]_vars => KeptInv'
  BY KeptStep
<1>3. KeptInv => CharactersKept
  BY KeptMeans
<1> QED
  BY <1>1, <1>2, <1>3, PTL DEF Spec
=============================================================================
