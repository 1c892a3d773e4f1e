------------------------- MODULE InputParserProofs -------------------------
(***************************************************************************)
(* What parse_input makes of a line, for every set of lines:               *)
(*                                                                         *)
(*   WordsParsed      Spec => []ParsesWords                                *)
(*                                                                         *)
(* The invariant of the loop (CutInv) says that of the words that begin    *)
(* before the blank at pos the first is in front of the first blank and    *)
(* the others are args, numbered as they are in the line.                  *)
(***************************************************************************)
EXTENDS InputParser, FiniteSetTheorems, SequenceTheorems, WellFoundedInduction, TLAPS

(* The symbols from the a-th to the b-th are no blanks. *)
NoBlank(a, b) == \A k \in Nat : a <= k /\ k <= b => input[k] # Blank

LineRead == input \in Seq(Symbol)

LEMMA LineIs ==
    ASSUME LineRead
    PROVE  /\ Len(input) \in Nat /\ DOMAIN input = 1 .. Len(input)
           /\ \A i \in DOMAIN input : input[i] \in Symbol
BY LenProperties, ElementOfSeq DEF LineRead

LEMMA LeastNumber ==
    ASSUME NEW K \in SUBSET Nat, K # {}
    PROVE  \E n \in K : \A k \in K : n <= k
<1>1. PICK n \in K : \A k \in K : ~(<<k, n>> \in OpToRel(<, Nat))
  BY NatLessThanWellFounded, WFMin
<1>2. \A k \in K : ~(k < n)
  BY <1>1 DEF OpToRel
<1> QED
  BY <1>2

(* find(' ', from): the first blank there, or none. *)
LEMMA FindIs ==
    ASSUME LineRead, NEW from \in Nat
    PROVE  \/ /\ Find(from) = npos /\ NoBlank(from + 1, Len(input))
           \/ /\ Find(from) \in Nat /\ from <= Find(from) /\ Find(from) < Len(input)
              /\ input[Find(from) + 1] = Blank /\ NoBlank(from + 1, Find(from))
<1> DEFINE hits == BlanksFrom(from)
<1>1. PICK n \in Nat : n = Len(input)
  BY LineIs
<1>2. hits = {p \in from .. n - 1 : input[p + 1] = Blank}
  BY <1>1 DEF BlanksFrom
<1>3. hits \in SUBSET Nat
  BY <1>2
<1>4. ASSUME NEW k \in Nat, from + 1 <= k, k <= n, input[k] = Blank
      PROVE  k - 1 \in hits
  <2>1. k - 1 \in from .. n - 1 /\ (k - 1) + 1 = k
    BY <1>4
  <2> QED
    BY <1>2, <1>4, <2>1
<1> HIDE DEF hits
<1>5. CASE hits = {}
  <2>1. Find(from) = npos
    BY <1>5 DEF Find, First, hits
  <2>2. NoBlank(from + 1, Len(input))
    BY <1>1, <1>4, <1>5 DEF NoBlank
  <2> QED
    BY <2>1, <2>2
<1>6. CASE hits # {}
  <2>1. Find(from) = CHOOSE p \in hits : \A q \in hits : p <= q
    BY <1>6 DEF Find, First, hits
  <2>2. \E p \in hits : \A q \in hits : p <= q
    BY <1>3, <1>6, LeastNumber
  <2>3. PICK p \in hits : p = Find(from) /\ \A q \in hits : p <= q
    BY <2>1, <2>2
  <2>4. p \in Nat /\ from <= p /\ p < n /\ input[p + 1] = Blank
    BY <1>2, <2>3
  <2>5. NoBlank(from + 1, p)
    <3> SUFFICES ASSUME NEW k \in Nat, from + 1 <= k, k <= p, input[k] = Blank PROVE FALSE
      BY DEF NoBlank
    <3>1. k - 1 \in hits
      BY <1>4, <2>4
    <3>2. p <= k - 1
      BY <2>3, <3>1
    <3> QED
      BY <2>4, <3>2
  <2> QED
    BY <1>1, <2>3, <2>4, <2>5
<1> QED
  BY <1>5, <1>6

(* The symbols in front of position pos; all of them for npos. *)
Reach(p) == IF p = npos THEN Len(input) ELSE p

LEMMA ReachIs ==
    ASSUME LineRead, NEW from \in Nat, from <= Len(input)
    PROVE  /\ Reach(Find(from)) \in Nat /\ from <= Reach(Find(from)) /\ Reach(Find(from)) <= Len(input)
           /\ NoBlank(from + 1, Reach(Find(from)))
           /\ Reach(Find(from)) < Len(input) => input[Reach(Find(from)) + 1] = Blank
           /\ Substr(from, Find(from)) = SubSeq(input, from + 1, Reach(Find(from)))
<1>0. Len(input) \in Nat /\ Find(from) \in Int
  <2>1. Len(input) \in Nat
    BY LineIs, Zenon
  <2>2. Find(from) = npos \/ Find(from) \in Nat
    BY FindIs, Zenon
  <2>3. \A p : p = npos \/ p \in Nat => p \in Int
    BY DEF npos
  <2> QED
    BY <2>1, <2>2, <2>3, Zenon
<1>1. PICK n \in Nat, p \in Int : n = Len(input) /\ p = Find(from)
  BY <1>0, Zenon
<1>2. \/ p = npos /\ NoBlank(from + 1, n)
      \/ p \in Nat /\ from <= p /\ p < n /\ input[p + 1] = Blank /\ NoBlank(from + 1, p)
  BY <1>1, FindIs
<1>3. Substr(from, p) = SubSeq(input, from + 1, Reach(p))
  BY DEF Substr, Reach
<1>4. CASE p = npos /\ NoBlank(from + 1, n)
  <2>1. Reach(p) = n
    BY <1>1, <1>4 DEF Reach
  <2> QED
    BY <1>1, <1>3, <1>4, <2>1
<1>5. CASE p \in Nat /\ from <= p /\ p < n /\ input[p + 1] = Blank /\ NoBlank(from + 1, p)
  <2>1. Reach(p) = p
    BY <1>5 DEF Reach, npos
  <2> QED
    BY <1>1, <1>3, <1>5, <2>1
<1> QED
  BY <1>2, <1>4, <1>5

(* A word is what substr cuts from its first symbol to the next blank. *)
LEMMA WordCut ==
    ASSUME LineRead, NEW from \in Nat, from < Len(input), input[from + 1] # Blank
    PROVE  /\ Substr(from, Find(from)) = WordAt(input, from + 1)
           /\ WordAt(input, from + 1) \in Seq(Symbol)
           /\ WordAt(input, from + 1) # <<>>
           /\ Head(WordAt(input, from + 1)) = input[from + 1]
<1>0. Len(input) \in Nat /\ from <= Len(input) /\ from + 1 \in Nat
  BY LineIs
<1>r. Reach(Find(from)) \in Nat
  BY <1>0, ReachIs
<1>1. PICK n \in Nat, r \in Nat, i \in Nat : n = Len(input) /\ r = Reach(Find(from)) /\ i = from + 1
  BY <1>0, <1>r, Zenon
<1>2. /\ from <= r /\ r <= n /\ NoBlank(i, r) /\ (r < n => input[r + 1] = Blank)
      /\ Substr(from, Find(from)) = SubSeq(input, i, r)
  BY <1>0, <1>1, ReachIs
<1>3. i <= r
  <2>1. CASE r = from
    BY <1>1, <1>2, <2>1
  <2> QED
    BY <1>1, <1>2, <2>1
<1>4. ASSUME NEW j \in i .. n
      PROVE  (\A k \in i .. j : input[k] # Blank) /\ (j < n => input[j + 1] = Blank) <=> j = r
  <2>1. ASSUME j = r
        PROVE  (\A k \in i .. j : input[k] # Blank) /\ (j < n => input[j + 1] = Blank)
    BY <1>2, <2>1 DEF NoBlank
  <2>2. ASSUME j < r PROVE j < n /\ input[j + 1] # Blank
    BY <1>2, <2>2 DEF NoBlank
  <2>3. ASSUME r < j PROVE r + 1 \in i .. j /\ input[r + 1] = Blank
    BY <1>2, <1>3, <2>3
  <2> QED
    BY <2>1, <2>2, <2>3
<1>5. r \in i .. n
  BY <1>2, <1>3
<1>6. WordEnd(input, i) = r
  BY <1>1, <1>4, <1>5 DEF WordEnd
<1>7. WordAt(input, i) = SubSeq(input, i, r)
  BY <1>6 DEF WordAt
<1>8. \A k \in i .. r : input[k] \in Symbol
  BY <1>1, <1>2, LineIs
<1>9. /\ SubSeq(input, i, r) \in Seq(Symbol)
      /\ Len(SubSeq(input, i, r)) = (IF i <= r THEN r - i + 1 ELSE 0)
      /\ \A k \in 1 .. r - i + 1 : SubSeq(input, i, r)[k] = input[i + k - 1]
  BY ONLY <1>8, SubSeqProperties, i \in Nat, r \in Nat
<1>10. Len(SubSeq(input, i, r)) >= 1 /\ SubSeq(input, i, r)[1] = input[i]
  BY <1>3, <1>9
<1>11. SubSeq(input, i, r) # <<>>
  BY <1>9, <1>10, EmptySeq
<1>12. Head(SubSeq(input, i, r)) = SubSeq(input, i, r)[1]
  BY <1>11
<1> QED
  BY <1>1, <1>2, <1>7, <1>9, <1>10, <1>11, <1>12

(* Between two blanks, and behind the last, there is no word. *)
LEMMA NothingCut ==
    ASSUME LineRead, NEW from \in Nat, from <= Len(input), from = Len(input) \/ input[from + 1] = Blank
    PROVE  Substr(from, Find(from)) = <<>> /\ Reach(Find(from)) = from
<1>0. Len(input) \in Nat /\ from <= Len(input) /\ from + 1 \in Nat
  <2>1. from + 1 \in Nat
    OBVIOUS
  <2>2. Len(input) \in Nat
    BY LineIs, Zenon
  <2> QED
    BY <2>1, <2>2, Zenon
<1>r. Reach(Find(from)) \in Nat
  BY <1>0, ReachIs
<1>1. PICK n \in Nat, r \in Nat, i \in Nat : n = Len(input) /\ r = Reach(Find(from)) /\ i = from + 1
  BY <1>0, <1>r, Zenon
<1>2. /\ from <= r /\ r <= n /\ NoBlank(i, r)
      /\ Substr(from, Find(from)) = SubSeq(input, i, r)
  BY <1>0, <1>1, ReachIs
<1>3. r = from
  <2>1. CASE from < r
    BY <1>1, <1>2, <2>1 DEF NoBlank
  <2> QED
    BY <1>2, <2>1
<1>4. SubSeq(input, i, r) = <<>>
  <2>1. r < i
    BY <1>1, <1>3
  <2> QED
    BY ONLY <2>1, SubSeqEmpty, i \in Nat, r \in Nat
<1> QED
  BY <1>1, <1>2, <1>3, <1>4

-----------------------------------------------------------------------------
(* Numbers of words. *)

(* The words that begin in front of position p. *)
Begun(p) == {j \in Begins(input) : j <= p}

LEMMA BeginsAre ==
    ASSUME LineRead
    PROVE  /\ IsFiniteSet(Begins(input))
           /\ \A i \in Begins(input) : i \in Nat /\ i >= 1 /\ i <= Len(input) /\ input[i] # Blank
           /\ \A p : IsFiniteSet(Begun(p)) /\ Cardinality(Begun(p)) \in Nat
           /\ \A i : Number(input, i) = Cardinality(Begun(i))
<1>1. PICK n \in Nat : n = Len(input) /\ DOMAIN input = 1 .. n
  BY LineIs, Zenon
<1>2. \A i \in Begins(input) : i \in 1 .. n /\ input[i] # Blank
  BY <1>1 DEF Begins
<1>3. IsFiniteSet(1 .. n)
  BY FS_Interval
<1>4. IsFiniteSet(Begins(input))
  BY <1>2, <1>3, FS_Subset
<1>5. ASSUME NEW p PROVE IsFiniteSet(Begun(p)) /\ Cardinality(Begun(p)) \in Nat
  <2>1. Begun(p) \in SUBSET Begins(input)
    BY DEF Begun
  <2> HIDE DEF Begun
  <2>2. IsFiniteSet(Begun(p))
    BY ONLY <1>4, <2>1, FS_Subset
  <2> QED
    BY <2>2, FS_CardinalityType
<1>6. \A i : Number(input, i) = Cardinality(Begun(i))
  BY DEF Number, Begun
<1> QED
  BY <1>1, <1>2, <1>4, <1>5, <1>6

(* No two words have the same number. *)
LEMMA NumbersDiffer ==
    ASSUME LineRead, NEW i \in Begins(input), NEW j \in Begins(input),
           Number(input, i) = Number(input, j)
    PROVE  i = j
<1>1. ASSUME NEW a \in Begins(input), NEW b \in Begins(input), a < b,
             Number(input, a) = Number(input, b)
      PROVE  FALSE
  <2>1. a \in Nat /\ b \in Nat
    BY BeginsAre
  <2>2. Begun(a) \in SUBSET Begun(b) /\ b \in Begun(b) /\ b \notin Begun(a)
    <3>1. \A k \in Begins(input) : k <= a => k <= b
      BY <1>1, <2>1, BeginsAre
    <3>2. b <= b /\ ~(b <= a)
      BY <1>1, <2>1
    <3>3. Begun(a) \in SUBSET Begun(b)
      BY <3>1 DEF Begun
    <3> QED
      BY <3>2, <3>3 DEF Begun
  <2>3. IsFiniteSet(Begun(b)) /\ Cardinality(Begun(a)) = Cardinality(Begun(b))
    BY <1>1, BeginsAre
  <2> HIDE DEF Begun
  <2>4. Begun(b) = Begun(a)
    BY <2>2, <2>3, FS_Subset
  <2> QED
    BY <2>2, <2>4
<1>2. i \in Nat /\ j \in Nat
  BY BeginsAre
<1>3. i < j \/ j < i \/ i = j
  BY <1>2
<1> QED
  BY <1>1, <1>3

(* From one blank to the next at most one word begins: at the symbol behind
   the first of them. *)
LEMMA OneMoreWord ==
    ASSUME LineRead, NEW from \in Nat, from <= Len(input), from = 0 \/ input[from] = Blank,
           NEW r \in Nat, r = Reach(Find(from))
    PROVE  IF from < Len(input) /\ input[from + 1] # Blank
           THEN /\ from + 1 \in Begins(input) /\ from + 1 \notin Begun(from) /\ from + 1 <= r
                /\ Begun(r) = Begun(from) \cup {from + 1}
                /\ Begun(from + 1) = Begun(r)
           ELSE r = from
<1>1. PICK n \in Nat : n = Len(input) /\ DOMAIN input = 1 .. n
  BY LineIs, Zenon
<1>2. from <= r /\ r <= n /\ NoBlank(from + 1, r) /\ (r < n => input[r + 1] = Blank)
  BY <1>1, ReachIs
<1>3. CASE from < n /\ input[from + 1] # Blank
  <2>1. from + 1 \in Begins(input)
    <3>1. from + 1 \in DOMAIN input /\ (from + 1 > 1 => input[(from + 1) - 1] = Blank)
      BY <1>1, <1>3
    <3> QED
      BY <1>3, <3>1 DEF Begins
  <2>2. from + 1 <= r
    <3>1. CASE r = from
      BY <1>2, <1>3, <3>1
    <3> QED
      BY <1>2, <3>1
  <2>3. ASSUME NEW j \in Begins(input), j <= r PROVE j <= from + 1
    <3>1. j \in Nat /\ j >= 1 /\ j <= n /\ (j > 1 => input[j - 1] = Blank)
      BY <1>1, BeginsAre DEF Begins
    <3>2. CASE j > from + 1
      <4>1. j - 1 \in Nat /\ from + 1 <= j - 1 /\ j - 1 <= r /\ j > 1
        BY <2>3, <3>1, <3>2
      <4>2. input[j - 1] # Blank
        BY <1>2, <4>1 DEF NoBlank
      <4> QED
        BY <3>1, <4>1, <4>2
    <3> QED
      BY <3>1, <3>2
  <2>4. \A j \in Begins(input) : (j <= r <=> j <= from + 1) /\ (j <= from + 1 <=> j <= from \/ j = from + 1)
    <3>1. \A j \in Begins(input) : j \in Nat
      BY BeginsAre
    <3>2. \A j \in Nat : (j <= from + 1 => j <= r) /\ (j <= from + 1 <=> j <= from \/ j = from + 1)
      BY <2>2
    <3> QED
      BY <2>3, <3>1, <3>2
  <2>5. ~(from + 1 <= from)
    OBVIOUS
  <2>6. from + 1 \notin Begun(from)
    BY <2>5 DEF Begun
  <2>7. Begun(r) = Begun(from + 1)
    BY <2>4 DEF Begun
  <2>8. Begun(from + 1) = Begun(from) \cup {from + 1}
    BY <2>1, <2>4 DEF Begun
  <2> QED
    BY <1>1, <1>3, <2>1, <2>2, <2>6, <2>7, <2>8
<1>4. CASE ~(from < n /\ input[from + 1] # Blank)
  <2>1. from = n \/ input[from + 1] = Blank
    BY <1>1, <1>4
  <2>2. r = from
    BY <1>1, <2>1, NothingCut
  <2> QED
    BY <1>1, <1>4, <2>2
<1> QED
  BY <1>1, <1>3, <1>4

-----------------------------------------------------------------------------
(* The loop. *)

Visible == input # <<>> /\ input[1] # Blank

AtBlank ==
    pos = npos \/ (pos \in Nat /\ pos < Len(input) /\ input[pos + 1] = Blank)

(* args are the words begun but the first. *)
WordsCut ==
    /\ args \in Seq(Seq(Symbol))
    /\ Cardinality(Begun(Reach(pos))) = Len(args) + 1
    /\ \A n \in 1 .. Len(args) :
          \E i \in Begins(input) : Number(input, i) = n + 1 /\ args[n] = WordAt(input, i)

CutInv ==
    /\ LineRead
    /\ stage = "find" => args = <<>> /\ pos = npos
    /\ stage \in {"cut", "decide", "done"} => AtBlank /\ (Visible => WordsCut)
    /\ stage \in {"decide", "done"} => pos = npos
    /\ stage = "done" => command = Decision

LEMMA InitCut == Init => CutInv
<1> SUFFICES ASSUME Init PROVE CutInv
  OBVIOUS
<1>1. stage = "find" /\ args = <<>> /\ pos = npos /\ input \in Seq(Symbol)
  BY LinesAssumption DEF Init
<1> QED
  BY <1>1 DEF CutInv, LineRead

(* The first word has the number 1. *)
LEMMA FirstWord ==
    ASSUME LineRead, Visible
    PROVE  /\ 1 \in Begins(input) /\ Number(input, 1) = 1
           /\ WordAt(input, 1) = Substr(0, Find(0))
           /\ Cardinality(Begun(Reach(Find(0)))) = 1
           /\ WordAt(input, 1) \in Seq(Symbol) /\ WordAt(input, 1) # <<>>
           /\ Head(WordAt(input, 1)) = input[1]
<1>1. PICK n \in Nat : n = Len(input) /\ n >= 1
  <2>1. PICK n \in Nat : n = Len(input)
    BY LineIs, Zenon
  <2>2. n # 0
    BY <2>1, EmptySeq DEF Visible, LineRead
  <2> QED
    BY <2>1, <2>2
<1>2. PICK z \in Nat, e \in Nat : z = 0 /\ e = z + 1 /\ e = 1
  OBVIOUS
<1>3. input[z + 1] # Blank /\ z < Len(input) /\ z <= Len(input)
  BY <1>1, <1>2 DEF Visible
<1>4. PICK r \in Nat : r = Reach(Find(z))
  BY <1>3, ReachIs
<1>5. /\ z + 1 \in Begins(input) /\ z + 1 \notin Begun(z)
      /\ Begun(r) = Begun(z) \cup {z + 1} /\ Begun(z + 1) = Begun(r)
  BY <1>2, <1>3, <1>4, OneMoreWord
<1>6. Begun(z) = {}
  BY <1>2, BeginsAre DEF Begun
<1>7. Cardinality(Begun(r)) = 1
  <2>1. Begun(r) = {e}
    BY <1>2, <1>5, <1>6
  <2> QED
    BY <2>1, FS_Singleton
<1>8. Number(input, e) = Cardinality(Begun(e))
  BY BeginsAre
<1>9. /\ Substr(z, Find(z)) = WordAt(input, z + 1) /\ WordAt(input, z + 1) \in Seq(Symbol)
      /\ WordAt(input, z + 1) # <<>> /\ Head(WordAt(input, z + 1)) = input[z + 1]
  BY <1>3, WordCut
<1> QED
  BY <1>2, <1>4, <1>5, <1>7, <1>8, <1>9

LEMMA CutStep ==
    ASSUME CutInv, CutArg
    PROVE  CutInv'
<1>0. /\ LineRead /\ stage = "cut" /\ stage' = "cut" /\ AtBlank /\ (Visible => WordsCut) /\ pos # npos
      /\ pos' = Find(pos + 1) /\ args' = AddArg(Substr(pos + 1, Find(pos + 1))) /\ input' = input
  BY DEF CutInv, CutArg
<1>1. PICK n \in Nat, from \in Nat : n = Len(input) /\ from = pos + 1 /\ from <= n /\ input[from] = Blank
  <2>1. PICK n \in Nat : n = Len(input)
    BY <1>0, LineIs, Zenon
  <2>2. pos \in Nat /\ pos < n /\ input[pos + 1] = Blank
    BY <1>0, <2>1 DEF AtBlank
  <2>3. pos + 1 \in Nat /\ pos + 1 <= n
    BY <2>1, <2>2
  <2> QED
    BY <2>1, <2>2, <2>3, Zenon
<1>2. LineRead'
  BY <1>0 DEF LineRead
<1>3. AtBlank'
  <2>1. Find(from) = npos \/ (Find(from) \in Nat /\ Find(from) < Len(input) /\ input[Find(from) + 1] = Blank)
    BY <1>0, FindIs
  <2> QED
    BY <1>0, <1>1, <2>1 DEF AtBlank
<1>4. ASSUME Visible PROVE WordsCut'
  <2>1. WordsCut
    BY <1>0, <1>4
  <2>2. PICK r \in Nat : r = Reach(Find(from))
    BY <1>0, <1>1, ReachIs
  <2>3. /\ Reach(pos)' = r
        /\ \A p : Begun(p)' = Begun(p)
        /\ Begins(input)' = Begins(input)
        /\ \A i : Number(input, i)' = Number(input, i) /\ WordAt(input, i)' = WordAt(input, i)
    BY <1>0, <1>1, <2>2 DEF Reach, Begun
  <2>4. Begun(from) = Begun(Reach(pos))
    <3>1. Reach(pos) = pos
      BY <1>0 DEF Reach
    <3>2. \A j \in Begins(input) : j <= from <=> j <= pos
      <4>1. from \notin Begins(input)
        BY <1>1 DEF Begins
      <4>2. \A j \in Begins(input) : j \in Nat /\ j # from
        BY <1>0, <4>1, BeginsAre
      <4>3. pos \in Nat
        BY <1>0 DEF AtBlank
      <4>4. \A j \in Nat : j # from => (j <= from <=> j <= pos)
        BY <1>1, <4>3
      <4> QED
        BY <4>2, <4>4
    <3> QED
      BY <3>1, <3>2 DEF Begun
  <2>5. PICK m \in Nat : m = Len(args) /\ Cardinality(Begun(from)) = m + 1
    BY <2>1, <2>4, LenProperties DEF WordsCut
  <2>6. CASE from < n /\ input[from + 1] # Blank
    <3> DEFINE w == WordAt(input, from + 1)
    <3>1. /\ from + 1 \in Begins(input) /\ from + 1 \notin Begun(from)
          /\ Begun(r) = Begun(from) \cup {from + 1} /\ Begun(from + 1) = Begun(r)
      BY <1>0, <1>1, <2>2, <2>6, OneMoreWord
    <3>2. Substr(from, Find(from)) = w /\ w \in Seq(Symbol) /\ w # <<>>
      BY <1>0, <1>1, <2>6, WordCut
    <3>3. args' = Append(args, w)
      BY <1>0, <1>1, <3>2 DEF AddArg
    <3>4. Cardinality(Begun(r)) = m + 2
      <4>1. IsFiniteSet(Begun(from))
        BY <1>0, BeginsAre
      <4>2. Cardinality(Begun(from) \cup {from + 1}) =
               IF from + 1 \in Begun(from) THEN Cardinality(Begun(from)) ELSE Cardinality(Begun(from)) + 1
        BY ONLY <4>1, FS_AddElement
      <4> QED
        BY <2>5, <3>1, <4>2
    <3>5. Number(input, from + 1) = m + 2
      BY <1>0, <3>1, <3>4, BeginsAre
    <3> HIDE DEF w
    <3>6. /\ args' \in Seq(Seq(Symbol)) /\ Len(args') = m + 1
          /\ \A k \in 1 .. m : args'[k] = args[k]
          /\ args'[m + 1] = w
      BY <2>1, <2>5, <3>2, <3>3, AppendProperties DEF WordsCut
    <3>7. ASSUME NEW k \in 1 .. m + 1
          PROVE  \E i \in Begins(input) : Number(input, i) = k + 1 /\ args'[k] = WordAt(input, i)
      <4>1. CASE k \in 1 .. m
        <5>1. \E i \in Begins(input) : Number(input, i) = k + 1 /\ args[k] = WordAt(input, i)
          BY <2>1, <2>5, <4>1 DEF WordsCut
        <5> QED
          BY <3>6, <4>1, <5>1
      <4>2. CASE k = m + 1
        <5>1. Number(input, from + 1) = k + 1 /\ args'[k] = WordAt(input, from + 1)
          BY <3>5, <3>6, <4>2 DEF w
        <5> QED
          BY <3>1, <5>1
      <4> QED
        BY <4>1, <4>2
    <3> QED
      BY <2>3, <3>4, <3>6, <3>7 DEF WordsCut
  <2>7. CASE ~(from < n /\ input[from + 1] # Blank)
    <3>1. from = n \/ input[from + 1] = Blank
      BY <1>1, <2>7
    <3>2. Substr(from, Find(from)) = <<>> /\ r = from
      BY <1>0, <1>1, <2>2, <3>1, NothingCut
    <3>3. args' = args
      BY <1>0, <1>1, <3>2 DEF AddArg
    <3> QED
      BY <2>1, <2>3, <2>4, <3>2, <3>3 DEF WordsCut
  <2> QED
    BY <2>6, <2>7
<1>5. Visible' = Visible
  BY <1>0 DEF Visible
<1> QED
  BY <1>0, <1>2, <1>3, <1>4, <1>5 DEF CutInv

LEMMA CutKept == CutInv /\ [Next]_vars => CutInv'
<1> SUFFICES ASSUME CutInv, [Next]_vars PROVE CutInv'
  OBVIOUS
<1>1. CASE UNCHANGED vars
  <2>1. UNCHANGED <<input, pos, args, command, stage>>
    BY <1>1 DEF vars
  <2>2. Decision' = Decision
    BY <2>1 DEF Decision, Substr, Find, First, BlanksFrom, WithArgs
  <2>3. LineRead' = LineRead /\ AtBlank' = AtBlank /\ Visible' = Visible /\ WordsCut' = WordsCut
    BY <2>1 DEF LineRead, AtBlank, Visible, WordsCut, Reach, Begun
  <2> QED
    BY <2>1, <2>2, <2>3 DEF CutInv
<1>2. CASE FindFirst
  <2>1. /\ LineRead /\ args = <<>> /\ args' = <<>> /\ pos' = Find(0) /\ stage' = "cut" /\ input' = input
    BY <1>2 DEF CutInv, FindFirst
  <2>2. AtBlank'
    <3>1. Find(0) = npos \/ (Find(0) \in Nat /\ Find(0) < Len(input) /\ input[Find(0) + 1] = Blank)
      BY <2>1, FindIs
    <3> QED
      BY <2>1, <3>1 DEF AtBlank
  <2>3. ASSUME Visible PROVE WordsCut'
    <3>1. Cardinality(Begun(Reach(Find(0)))) = 1
      BY <2>1, <2>3, FirstWord
    <3>2. Begun(Reach(pos))' = Begun(Reach(Find(0)))
      BY <2>1 DEF Begun, Reach
    <3>3. args' \in Seq(Seq(Symbol)) /\ Len(args') = 0
      BY <2>1, EmptySeq
    <3> QED
      BY <3>1, <3>2, <3>3 DEF WordsCut
  <2> QED
    BY <2>1, <2>2, <2>3 DEF CutInv, LineRead, Visible
<1>3. CASE CutArg
  BY <1>3, CutStep
<1>4. CASE CutEnds
  <2>1. /\ stage = "cut" /\ stage' = "decide" /\ pos = npos /\ UNCHANGED <<input, pos, args, command>>
    BY <1>4 DEF CutEnds
  <2> QED
    BY <2>1 DEF CutInv, LineRead, AtBlank, Visible, WordsCut, Reach, Begun
<1>5. CASE Decide
  <2>1. /\ stage = "decide" /\ stage' = "done" /\ UNCHANGED <<input, pos, args>> /\ command' = Decision
    BY <1>5 DEF Decide
  <2>2. Decision' = Decision
    BY <2>1 DEF Decision, Substr, Find, First, BlanksFrom, WithArgs
  <2> QED
    BY <2>1, <2>2 DEF CutInv, LineRead, AtBlank, Visible, WordsCut, Reach, Begun
<1> QED
  BY <1>1, <1>2, <1>3, <1>4, <1>5 DEF Next

-----------------------------------------------------------------------------
(* When the loop is done, the words of the line are the first one and args. *)
LEMMA WordsAre ==
    ASSUME LineRead, Visible, WordsCut, pos = npos
    PROVE  /\ Len(Words(input)) = Len(args) + 1
           /\ Words(input)[1] = Substr(0, Find(0))
           /\ Tail(Words(input)) = args
<1> DEFINE w == Words(input)  C == Cardinality(Begins(input))
           the(n) == CHOOSE i \in Begins(input) : Number(input, i) = n
<1>0. PICK m \in Nat : m = Len(args) /\ args \in Seq(Seq(Symbol))
  BY LenProperties DEF WordsCut
<1>1. C = m + 1
  <2>1. Begun(Reach(pos)) = Begins(input)
    <3>1. Reach(pos) = Len(input)
      BY DEF Reach
    <3>2. \A i \in Begins(input) : i <= Len(input)
      BY BeginsAre
    <3> QED
      BY <3>1, <3>2 DEF Begun
  <2> QED
    BY <1>0, <2>1 DEF WordsCut
<1>2. w = [n \in 1 .. m + 1 |-> WordAt(input, the(n))]
  BY <1>1 DEF Words
<1>3. ASSUME NEW i \in Begins(input), NEW n, Number(input, i) = n PROVE the(n) = i
  <2>1. the(n) \in Begins(input) /\ Number(input, the(n)) = n
    BY <1>3
  <2> HIDE DEF the
  <2> QED
    BY <1>3, <2>1, NumbersDiffer
<1> HIDE DEF w, the, C
<1>4. w[1] = WordAt(input, 1)
  <2>1. the(1) = 1
    BY <1>3, FirstWord
  <2>2. 1 \in 1 .. m + 1
    BY <1>0
  <2> QED
    BY <1>2, <2>1, <2>2
<1>5. ASSUME NEW k \in 1 .. m PROVE k + 1 \in 1 .. m + 1 /\ w[k + 1] = args[k]
  <2>1. PICK i \in Begins(input) : Number(input, i) = k + 1 /\ args[k] = WordAt(input, i)
    BY <1>0 DEF WordsCut
  <2>2. the(k + 1) = i
    BY <1>3, <2>1
  <2>3. k + 1 \in 1 .. m + 1
    BY <1>0
  <2> QED
    BY <1>2, <2>1, <2>2, <2>3
<1>6. w \in Seq(Seq(Symbol)) /\ Len(w) = m + 1
  <2>1. ASSUME NEW n \in 1 .. m + 1 PROVE w[n] \in Seq(Symbol)
    <3>1. CASE n = 1
      BY <1>4, <3>1, FirstWord
    <3>2. CASE n # 1
      <4>1. PICK k \in 1 .. m : n = k + 1
        <5>1. n - 1 \in 1 .. m /\ n = (n - 1) + 1
          BY <1>0, <3>2
        <5> QED
          BY <5>1
      <4>2. k \in DOMAIN args
        BY <1>0, LenProperties
      <4>3. args[k] \in Seq(Symbol)
        BY <1>0, <4>2, ElementOfSeq
      <4> QED
        BY <1>5, <4>1, <4>3
    <3> QED
      BY <3>1, <3>2
  <2>2. DOMAIN w = 1 .. m + 1 /\ m + 1 \in Nat
    BY <1>0, <1>2
  <2>3. w = [n \in 1 .. m + 1 |-> w[n]]
    BY <1>2
  <2> QED
    BY <2>1, <2>2, <2>3
<1>7. Tail(w) = args
  <2>1. w # <<>>
    BY <1>0, <1>6, EmptySeq
  <2>2. /\ Tail(w) \in Seq(Seq(Symbol)) /\ Len(Tail(w)) = Len(w) - 1
        /\ \A k \in 1 .. Len(Tail(w)) : Tail(w)[k] = w[k + 1]
    BY ONLY <1>6, <2>1, HeadTailProperties
  <2>3. Len(Tail(w)) = Len(args) /\ Len(args) = m
    BY <1>0, <1>6, <2>2
  <2>4. \A k \in 1 .. Len(Tail(w)) : Tail(w)[k] = args[k]
    BY <1>5, <2>2, <2>3
  <2> QED
    BY <1>0, <2>2, <2>3, <2>4, SeqEqual
<1> QED
  BY <1>0, <1>4, <1>6, <1>7, FirstWord DEF w

(* A line with nothing in front of its first blank. *)
LEMMA NoFirstWord ==
    ASSUME LineRead, ~Visible
    PROVE  /\ Substr(0, Find(0)) = <<>>
           /\ input = <<>> \/ input[1] = Blank
           /\ \A type : ~IsCommand(type)
           /\ ~IsText
<1>1. input = <<>> \/ input[1] = Blank
  BY DEF Visible
<1>2. PICK n \in Nat, z \in Nat : n = Len(input) /\ z = 0 /\ z + 1 = 1
  <2>1. Len(input) \in Nat
    BY LineIs, Zenon
  <2> QED
    BY <2>1
<1>3. z = n \/ input[z + 1] = Blank
  BY <1>1, <1>2
<1>4. Substr(z, Find(z)) = <<>>
  BY <1>2, <1>3, NothingCut
<1>5. ASSUME NEW type, IsCommand(type) PROVE FALSE
  <2>1. input = <<>>
    BY <1>1, <1>5 DEF IsCommand
  <2>2. Begins(input) = {}
    BY <2>1 DEF Begins
  <2>3. Words(input) = <<>>
    BY <2>2, FS_EmptySet DEF Words
  <2>4. Len(Words(input)) = Arity(type) + 1 /\ Arity(type) \in {0, 1, 3}
    BY <1>5 DEF IsCommand, Arity
  <2> QED
    BY <2>3, <2>4
<1>6. ~IsText
  BY <1>1 DEF IsText, Blank
<1> QED
  BY <1>1, <1>2, <1>4, <1>5, <1>6

LEMMA VisibleMeans ==
    ASSUME LineRead, Visible, WordsCut, pos = npos, command = Decision, stage = "done"
    PROVE  ParsesWords
<1> DEFINE w == Words(input)  word == Substr(0, Find(0))
<1>1. PICK m \in Nat : m = Len(args)
  BY LenProperties DEF WordsCut
<1>2. Len(w) = m + 1 /\ w[1] = word /\ Tail(w) = args
  BY <1>1, WordsAre
<1>3. word \in Seq(Symbol) /\ word # <<>> /\ Head(word) = input[1] /\ word[1] = input[1]
  BY FirstWord
<1>4. input # <<>> /\ input[1] # Blank
  BY DEF Visible
<1>5. Decision =
          CASE word = <<"/auth">>   -> WithArgs("CMD_AUTH", 3)
            [] word = <<"/join">>   -> WithArgs("CMD_JOIN", 1)
            [] word = <<"/rename">> -> WithArgs("CMD_RENAME", 1)
            [] word = <<"/help">>   -> Help
            [] word = <<>>          -> [type |-> "throws", args |-> <<>>]
            [] OTHER                -> IF Head(word) # "x" THEN Help
                                       ELSE [type |-> "CMD_MSG", args |-> <<input>>]
  BY DEF Decision
<1>6. /\ IsCommand("CMD_AUTH") <=> m = 3 /\ word = <<"/auth">>
      /\ IsCommand("CMD_JOIN") <=> m = 1 /\ word = <<"/join">>
      /\ IsCommand("CMD_RENAME") <=> m = 1 /\ word = <<"/rename">>
  <2> HIDE DEF w, word
  <2>1. /\ Arity("CMD_AUTH") = 3 /\ Arity("CMD_JOIN") = 1 /\ Arity("CMD_RENAME") = 1
        /\ NameOf("CMD_AUTH") = "/auth" /\ NameOf("CMD_JOIN") = "/join" /\ NameOf("CMD_RENAME") = "/rename"
    BY DEF Arity, NameOf
  <2>2. \A type : IsCommand(type) <=> m + 1 = Arity(type) + 1 /\ word = <<NameOf(type)>>
    BY <1>2, <1>4, Zenon DEF IsCommand, w
  <2> QED
    BY <2>1, <2>2
<1>7. IsText <=> input[1] = "x"
  BY <1>4 DEF IsText
<1> HIDE DEF w, word
<1>8. /\ word = <<"/auth">> => command = IF m = 3 THEN [type |-> "CMD_AUTH", args |-> args] ELSE Help
      /\ word = <<"/join">> => command = IF m = 1 THEN [type |-> "CMD_JOIN", args |-> args] ELSE Help
      /\ word = <<"/rename">> => command = IF m = 1 THEN [type |-> "CMD_RENAME", args |-> args] ELSE Help
      /\ word = <<"/help">> => command = Help
      /\ ~(word \in {<<"/auth">>, <<"/join">>, <<"/rename">>, <<"/help">>}) =>
            command = IF input[1] # "x" THEN Help ELSE [type |-> "CMD_MSG", args |-> <<input>>]
  BY <1>1, <1>3, <1>5 DEF WithArgs
<1>9. \A name \in {"/auth", "/join", "/rename", "/help"} :
          word = <<name>> => input[1] # "x" /\ input[1] = name
  BY <1>3
<1>10. Help.type = "CMD_HELP"
  BY DEF Help
<1>11. CASE word = <<"/auth">>
  BY <1>2, <1>4, <1>6, <1>7, <1>8, <1>9, <1>10, <1>11 DEF ParsesWords, w, CommandType
<1>12. CASE word = <<"/join">>
  BY <1>2, <1>4, <1>6, <1>7, <1>8, <1>9, <1>10, <1>12 DEF ParsesWords, w, CommandType
<1>13. CASE word = <<"/rename">>
  BY <1>2, <1>4, <1>6, <1>7, <1>8, <1>9, <1>10, <1>13 DEF ParsesWords, w, CommandType
<1>14. CASE word = <<"/help">>
  BY <1>2, <1>4, <1>6, <1>7, <1>8, <1>9, <1>10, <1>14 DEF ParsesWords, w, CommandType
<1>15. CASE ~(word \in {<<"/auth">>, <<"/join">>, <<"/rename">>, <<"/help">>})
  BY <1>2, <1>4, <1>6, <1>7, <1>8, <1>10, <1>15 DEF ParsesWords, w, CommandType
<1> QED
  BY <1>11, <1>12, <1>13, <1>14, <1>15

(* parse_input returns a command exactly for a line that has its name in
   front of the first blank and as many words behind it as the postman
   takes, and returns these words; every line that begins with other text is
   handed on whole; and of a line whose first symbol is no blank no exception
   comes. *)
THEOREM WordsParsed == Spec => []ParsesWords
<1>1. Init => CutInv
  BY InitCut
<1>2. CutInv /\ [Next]_vars => CutInv'
  BY CutKept
<1>3. CutInv => ParsesWords
  <2> SUFFICES ASSUME CutInv, stage = "done" PROVE ParsesWords
    BY DEF ParsesWords
  <2>1. LineRead /\ (Visible => WordsCut) /\ pos = npos /\ command = Decision
    BY DEF CutInv
  <2>2. CASE Visible
    BY <2>1, <2>2, VisibleMeans
  <2>3. CASE ~Visible
    <3>1. command = [type |-> "throws", args |-> <<>>]
      <4>1. Substr(0, Find(0)) = <<>>
        BY <2>1, <2>3, NoFirstWord
      <4> QED
        BY <2>1, <4>1 DEF Decision
    <3>2. (input = <<>> \/ input[1] = Blank) /\ (\A type : ~IsCommand(type)) /\ ~IsText
      BY <2>1, <2>3, NoFirstWord
    <3> QED
      BY <3>1, <3>2 DEF ParsesWords
  <2> QED
    BY <2>2, <2>3
<1> QED
  BY <1>1, <1>2, <1>3, PTL DEF Spec
=============================================================================
